\* Two workers, an alert and one whose monitor is gone or that is unparseable, two failures.
SPECIFICATION FairSpec
CONSTANTS
    w1 = w1  w2 = w2  email = email  slack = slack  webhook = webhook  opened = opened  other = other
    Workers <- TwoWorkers
    Alerts = {opened, other}
    Orphans = {other}
    Malformed <- MaybeMalformed
    Channels <- AllChannels
    Workspaces <- MCWorkspaces
    Webhooks = {webhook}
    Clouds = {"aws", "azure"}
    MaxReceives = 3
    MaxFaults = 2
INVARIANT AlertInv
INVARIANT RepeatsNeedFailures
PROPERTY AlertsSettle
CHECK_DEADLOCK FALSE
