\* Two tabs, three calls, a login, a logout, a reset, three tokens and one fault.
SPECIFICATION SessionsFairSpec
CONSTANTS
    a = a  b = b  a1 = a1  a2 = a2  b1 = b1
    Tabs <- AllTabs
    Fetches <- AllFetches
    TabOf <- TabOfCall
    Logins = {l}
    MaxTokens = 3
    MaxFailures = 1
INVARIANT SessionInv
INVARIANT CookieSurvives
INVARIANT RevokedStaysOut
PROPERTY EveryFetchEnds
CHECK_DEADLOCK FALSE
