------------------------------ MODULE Sessions ------------------------------
(***************************************************************************)
(* The sessions of one user: refresh tokens that are rotated, replayed and *)
(* revoked by the statements of concurrent transactions, the cookie of a   *)
(* browser, whose tabs refresh their access token behind their API calls,  *)
(* logins, logouts and a reset of the password.                            *)
(***************************************************************************)
EXTENDS Naturals, FiniteSets, FiniteSetsExt

CONSTANTS
    Tabs,
    Fetches,          \* calls of apiFetch; one at a time each
    TabOf,            \* the tab of a call
    Logins,           \* login requests
    MaxTokens,        \* rows of refresh_tokens (a bound)
    MaxFailures       \* lost responses and failed transactions (a bound)

None == "none"

ASSUME SessionsAssumption ==
    /\ IsFiniteSet(Fetches) /\ IsFiniteSet(Logins)
    /\ Fetches \cap {None, "reset"} = {}
    /\ TabOf \in [Fetches -> Tabs]
    /\ MaxTokens \in Nat \ {0}
    /\ MaxFailures \in Nat

VARIABLES
    status,      \* of a row of refresh_tokens; "gone": expired or pruned
    session,     \* its session_id: the token of the login
    password,    \* the version of the user's password
    loginOf,     \* the version that the login of a session gave
    cookie,      \* pulseway_refresh in the browser, 0: none
    promise,     \* refreshPromise of a tab
    fetch,       \* where an API call stands
    refresh,     \* the request to /auth/refresh that a call has started
    login,
    logout,
    reset,
    snap,        \* the rows that a revocation found
    failures,
    \* history variables, which no action reads
    ended,       \* sessions that were revoked
    overlapping, \* tokens of a refresh or a login that overlapped a revocation
    disturbed    \* sessions that tabs presented at once, or whose new token
                 \* did not reach the browser, or that were ended on purpose

db      == <<status, session, password, loginOf>>
browser == <<cookie, promise, fetch>>
history == <<ended, overlapping, disturbed>>
sessionVars == <<db, browser, refresh, login, logout, reset, snap, failures, history>>

Tokens  == 1..MaxTokens
NoLogin   == [pc |-> "idle", password |-> 0, token |-> 0, late |-> FALSE]
NoRefresh == [pc |-> "idle", token |-> 0, new |-> 0, late |-> FALSE]

(* With the types: a tab's promise is of a refresh that is under way. *)
SessionsTypeOK ==
    /\ \A b \in Tabs : promise[b] # None => refresh[promise[b]].pc # "idle"
    /\ status \in [Tokens -> {"unused", "valid", "revoked", "gone"}]
    /\ session \in [Tokens -> 0..MaxTokens]
    /\ password \in 0..1
    /\ loginOf \in [Tokens -> 0..1]
    /\ cookie \in 0..MaxTokens
    /\ promise \in [Tabs -> Fetches \cup {None}]
    /\ fetch \in [Fetches -> {"idle", "sent", "awaits"}]
    /\ \A f \in Fetches :
          /\ refresh[f].pc \in {"idle", "sent", "valid", "replayed", "revoking", "issued", "answered", "refused"}
          /\ {refresh[f].token, refresh[f].new} \subseteq 0..MaxTokens
    /\ \A l \in Logins : login[l].pc \in {"idle", "checked", "created"}
    /\ logout \in 0..MaxTokens
    /\ reset \in {"idle", "changed", "revoking", "done"}
    /\ snap \in [Fetches \cup {"reset"} -> SUBSET Tokens]
    /\ failures \in 0..MaxFailures

(* One session, of a login with the first password. *)
SessionsInit ==
    /\ status = [t \in Tokens |-> IF t = 1 THEN "valid" ELSE "unused"]
    /\ session = [t \in Tokens |-> IF t = 1 THEN 1 ELSE 0]
    /\ password = 0
    /\ loginOf = [t \in Tokens |-> 0]
    /\ cookie = 1
    /\ promise = [b \in Tabs |-> None]
    /\ fetch = [f \in Fetches |-> "idle"]
    /\ refresh = [f \in Fetches |-> NoRefresh]
    /\ login = [l \in Logins |-> NoLogin]
    /\ logout = 0
    /\ reset = "idle"
    /\ snap = [r \in Fetches \cup {"reset"} |-> {}]
    /\ failures = 0
    /\ ended = {} /\ overlapping = {} /\ disturbed = {}

Unused      == {t \in Tokens : status[t] = "unused"}
Valid       == {t \in Tokens : status[t] = "valid"}
RowsOf(s)   == {t \in Tokens : session[t] = s /\ status[t] # "gone"}

Failure == failures < MaxFailures /\ failures' = failures + 1

(* Of the bound: a row is left for whatever may still insert one. *)
Spare == Cardinality(Unused) > Cardinality({f \in Fetches : fetch[f] # "idle"})
                                 + Cardinality({l \in Logins : login[l].pc = "checked"})

-----------------------------------------------------------------------------
(* The browser: apps/web/lib/api-client.ts *)

(* A call whose access token is missing or expired, which will be answered *)
(* 401; the others change nothing.                                         *)
Fetch(f) ==
    /\ fetch[f] = "idle" /\ refresh[f] = NoRefresh
    /\ Spare
    /\ fetch' = [fetch EXCEPT ![f] = "sent"]
    /\ UNCHANGED <<db, cookie, promise, refresh, login, logout, reset, snap, failures, history>>

(* A refresh presents the cookie.  Two tabs that present one token at once *)
(* disturb the session: the second may be taken for a replay.              *)
Present(f) ==
    /\ refresh' = [refresh EXCEPT ![f] = [pc |-> "sent", token |-> cookie, new |-> 0, late |-> FALSE]]
    /\ disturbed' = disturbed \cup
         {session[cookie] : g \in {g \in Fetches : /\ TabOf[g] # TabOf[f]
                                                   /\ refresh[g] # NoRefresh
                                                   /\ refresh[g].token = cookie
                                                   /\ cookie # 0}}

(* Mutant: refreshes are not coalesced. *)
UnauthorizedAlone(f) ==
    /\ fetch[f] = "sent"
    /\ fetch' = [fetch EXCEPT ![f] = "awaits"]
    /\ Present(f) /\ promise' = [promise EXCEPT ![TabOf[f]] = f]
    /\ UNCHANGED <<db, cookie, login, logout, reset, snap, failures, ended, overlapping>>

(* The 401 arrives: the call awaits the refresh of its tab, and starts it  *)
(* if there is none.                                                       *)
Unauthorized(f) ==
    LET tab == TabOf[f] IN
    /\ fetch[f] = "sent"
    /\ fetch' = [fetch EXCEPT ![f] = "awaits"]
    /\ IF promise[tab] = None
       THEN Present(f) /\ promise' = [promise EXCEPT ![tab] = f]
       ELSE UNCHANGED <<promise, refresh, disturbed>>
    /\ UNCHANGED <<db, cookie, login, logout, reset, snap, failures, ended, overlapping>>

(* The end of doRefresh.  With a token the calls of the tab are tried once *)
(* more, which ends them; without one the tab goes to the login page.      *)
Settle(f, ok) ==
    LET tab == TabOf[f] IN
    /\ promise' = [promise EXCEPT ![tab] = None]
    /\ fetch' = [g \in Fetches |-> IF TabOf[g] = tab /\ (fetch[g] = "awaits" \/ ~ok) THEN "idle" ELSE fetch[g]]
    /\ refresh' = [refresh EXCEPT ![f] = NoRefresh]

(* The response sets the cookie. *)
Respond(f) ==
    /\ refresh[f].pc = "answered"
    /\ cookie' = refresh[f].new
    /\ Settle(f, TRUE)
    /\ UNCHANGED <<db, login, logout, reset, snap, failures, history>>

(* Mutant: a failed refresh leaves its promise behind. *)
RespondRefusedKeepsPromise(f) ==
    /\ refresh[f].pc = "refused"
    /\ fetch' = [fetch EXCEPT ![f] = "idle"]
    /\ refresh' = [refresh EXCEPT ![f] = NoRefresh]
    /\ UNCHANGED <<db, cookie, promise, login, logout, reset, snap, failures, history>>

(* A 401 sets none and clears none. *)
RespondRefused(f) ==
    /\ refresh[f].pc = "refused"
    /\ Settle(f, FALSE)
    /\ UNCHANGED <<db, cookie, login, logout, reset, snap, failures, history>>

(* The new token was issued, and nobody hears of it. *)
LoseResponse(f) ==
    /\ refresh[f].pc = "answered"
    /\ Failure
    /\ Settle(f, FALSE)
    /\ disturbed' = disturbed \cup {session[refresh[f].token]}
    /\ UNCHANGED <<db, cookie, login, logout, reset, snap, ended, overlapping>>

-----------------------------------------------------------------------------
(* The refresh: AuthService.refresh and RefreshTokenRepository *)

Goto(f, pc) == refresh' = [refresh EXCEPT ![f].pc = pc]

(* The SELECT of rotate *)
RotateSelect(f) ==
    LET t == refresh[f].token IN
    /\ refresh[f].pc = "sent"
    /\ Goto(f, IF t = 0 THEN "refused"
               ELSE IF status[t] = "valid" THEN "valid"
               ELSE IF status[t] = "revoked" THEN "replayed" ELSE "refused")
    /\ UNCHANGED <<db, browser, login, logout, reset, snap, failures, history>>

(* The new row belongs to session s, whose login gave password v. *)
Insert(n, s, v) ==
    /\ session' = [session EXCEPT ![n] = s]
    /\ loginOf' = [loginOf EXCEPT ![n] = v]

(* A revocation of the session has taken its snapshot. *)
Revoking(s) ==
    \/ reset = "revoking"
    \/ \E g \in Fetches : refresh[g].pc = "revoking" /\ s \in {session[t] : t \in snap[g]}

(* Mutant: the old token is not marked. *)
RotateIssueUnmarked(f) ==
    LET t == refresh[f].token
        n == Min(Unused)
    IN
    /\ refresh[f].pc = "valid"
    /\ status' = [status EXCEPT ![n] = "valid"]
    /\ Insert(n, session[t], loginOf[t])
    /\ refresh' = [refresh EXCEPT ![f] = [pc |-> "issued", token |-> t, new |-> n, late |-> @.late]]
    /\ overlapping' = IF refresh[f].late \/ t \in overlapping \/ Revoking(session[t])
                      THEN overlapping \cup {n} ELSE overlapping
    /\ UNCHANGED <<password, browser, login, logout, reset, snap, failures, ended, disturbed>>

(* Its INSERT, UPDATE and COMMIT: nobody sees the first two alone.  The    *)
(* UPDATE does not look at revoked again.                                  *)
RotateIssue(f) ==
    LET t == refresh[f].token
        n == Min(Unused)
    IN
    /\ refresh[f].pc = "valid"
    /\ status' = [status EXCEPT ![n] = "valid", ![t] = IF @ = "gone" THEN @ ELSE "revoked"]
    /\ Insert(n, session[t], loginOf[t])
    /\ refresh' = [refresh EXCEPT ![f] = [pc |-> "issued", token |-> t, new |-> n, late |-> @.late]]
    /\ overlapping' = IF refresh[f].late \/ t \in overlapping \/ Revoking(session[t])
                      THEN overlapping \cup {n} ELSE overlapping
    /\ UNCHANGED <<password, browser, login, logout, reset, snap, failures, ended, disturbed>>

(* Or it fails and is rolled back. *)
RotateFails(f) ==
    /\ refresh[f].pc = "valid"
    /\ Failure
    /\ Goto(f, "refused")
    /\ UNCHANGED <<db, browser, login, logout, reset, snap, history>>

(* findValid of the new token, and what the access token is made of *)
FindValid(f) ==
    LET n == refresh[f].new IN
    /\ refresh[f].pc = "issued"
    /\ Goto(f, IF status[n] = "valid" THEN "answered" ELSE "refused")
    /\ disturbed' = IF status[n] = "valid" THEN disturbed ELSE disturbed \cup {session[n]}
    /\ UNCHANGED <<db, browser, login, logout, reset, snap, failures, ended, overlapping>>

(* A user without a workspace, or an error, on the way there: the new      *)
(* token was issued, and nobody hears of it.                               *)
FindFails(f) ==
    /\ refresh[f].pc = "issued"
    /\ Failure
    /\ Goto(f, "refused")
    /\ disturbed' = disturbed \cup {session[refresh[f].new]}
    /\ UNCHANGED <<db, browser, login, logout, reset, snap, ended, overlapping>>

-----------------------------------------------------------------------------
(* Revocations.  An UPDATE changes the rows that were committed when it    *)
(* began, as they are when it comes to them.                               *)

Revoke(rows) == status' = [t \in Tokens |-> IF t \in rows /\ status[t] # "gone" THEN "revoked" ELSE status[t]]

(* History: who has read its token as valid is late when its session ends. *)
Late(S) == [f \in Fetches |->
    IF refresh[f].pc = "valid" /\ session[refresh[f].token] \in S
    THEN [refresh[f] EXCEPT !.late = TRUE] ELSE refresh[f]]

(* revokeChain, for a token that was presented although it is revoked.  If *)
(* its row has been pruned since, no session is found, and none is revoked. *)
ReplaySnapshot(f) ==
    LET t == refresh[f].token IN
    /\ refresh[f].pc = "replayed"
    /\ Goto(f, "revoking")
    /\ snap' = [snap EXCEPT ![f] = IF status[t] = "gone" THEN {} ELSE RowsOf(session[t])]
    /\ UNCHANGED <<db, browser, login, logout, reset, failures, history>>

(* Mutant: only the token itself is revoked. *)
ReplayRevokeOne(f) ==
    LET S == {session[t] : t \in snap[f]} IN
    /\ refresh[f].pc = "revoking"
    /\ Revoke({refresh[f].token})
    /\ refresh' = [Late(S) EXCEPT ![f].pc = "refused"]
    /\ ended' = ended \cup S
    /\ snap' = [snap EXCEPT ![f] = {}]
    /\ UNCHANGED <<session, password, loginOf, browser, login, logout, reset, failures, overlapping, disturbed>>

ReplayRevoke(f) ==
    LET S == {session[t] : t \in snap[f]} IN
    /\ refresh[f].pc = "revoking"
    /\ Revoke(snap[f])
    /\ refresh' = [Late(S) EXCEPT ![f].pc = "refused"]
    /\ ended' = ended \cup S
    /\ snap' = [snap EXCEPT ![f] = {}]
    /\ UNCHANGED <<session, password, loginOf, browser, login, logout, reset, failures, overlapping, disturbed>>

(* logout: one row, which ends a session that was not disturbed, but for   *)
(* the new token of a refresh that the browser still awaits.  A disturbed  *)
(* session may have other tokens that work, and goes on with them.         *)
Logout ==
    LET S == {session[cookie]} \ disturbed
        awaited == {f \in Fetches : refresh[f].pc \in {"issued", "answered"} /\ session[refresh[f].token] \in S}
    IN
    /\ logout = 0 /\ cookie # 0
    /\ logout' = cookie
    /\ Revoke({cookie})
    /\ refresh' = Late(S)
    /\ ended' = ended \cup S
    /\ overlapping' = overlapping \cup {refresh[f].new : f \in awaited}
    /\ disturbed' = disturbed \cup S
    /\ UNCHANGED <<session, password, loginOf, browser, login, reset, snap, failures>>

(* Its response clears the cookie, whatever has been set meanwhile. *)
LogoutRespond ==
    /\ logout # 0
    /\ logout' = 0
    /\ cookie' = 0
    /\ UNCHANGED <<db, promise, fetch, refresh, login, reset, snap, failures, history>>

(* resetPassword, its link redeemed: the password, and then every session *)
ResetPassword ==
    /\ reset = "idle"
    /\ reset' = "changed"
    /\ password' = 1
    /\ UNCHANGED <<status, session, loginOf, browser, refresh, login, logout, snap, failures, history>>

(* revokeAllForUser *)
ResetSnapshot ==
    /\ reset = "changed"
    /\ reset' = "revoking"
    /\ snap' = [snap EXCEPT !["reset"] = Valid]
    /\ UNCHANGED <<db, browser, refresh, login, logout, failures, history>>

ResetRevoke ==
    LET S == {session[t] : t \in Tokens \ Unused} IN
    /\ reset = "revoking"
    /\ reset' = "done"
    /\ Revoke(snap["reset"])
    /\ refresh' = Late(S)
    /\ login' = [l \in Logins |-> IF login[l].pc = "checked" THEN [login[l] EXCEPT !.late = TRUE] ELSE login[l]]
    /\ ended' = ended \cup S
    /\ disturbed' = disturbed \cup S
    /\ snap' = [snap EXCEPT !["reset"] = {}]
    /\ UNCHANGED <<session, password, loginOf, browser, logout, failures, overlapping>>

-----------------------------------------------------------------------------
(* login: the password is compared with the hash that was read ... *)
LoginCheck(l) ==
    /\ login[l].pc = "idle" /\ Spare
    /\ login' = [login EXCEPT ![l] = [pc |-> "checked", password |-> password, token |-> 0, late |-> FALSE]]
    /\ UNCHANGED <<db, browser, refresh, logout, reset, snap, failures, history>>

(* ... and a session begins. *)
LoginCreate(l) ==
    LET n == Min(Unused) IN
    /\ login[l].pc = "checked"
    /\ status' = [status EXCEPT ![n] = "valid"]
    /\ Insert(n, n, login[l].password)
    /\ login' = [login EXCEPT ![l] = [pc |-> "created", password |-> @.password, token |-> n, late |-> @.late]]
    /\ overlapping' = IF login[l].late \/ reset = "revoking" THEN overlapping \cup {n} ELSE overlapping
    /\ UNCHANGED <<password, browser, refresh, logout, reset, snap, failures, ended, disturbed>>

LoginRespond(l) ==
    /\ login[l].pc = "created"
    /\ cookie' = login[l].token
    /\ login' = [login EXCEPT ![l] = NoLogin]
    /\ UNCHANGED <<db, promise, fetch, refresh, logout, reset, snap, failures, history>>

(* A row gets older than 30 days. *)
TokenExpires(t) ==
    /\ status[t] = "valid"
    /\ status' = [status EXCEPT ![t] = "gone"]
    /\ UNCHANGED <<session, password, loginOf, browser, refresh, login, logout, reset, snap, failures, history>>

(* prune_expired_refresh_tokens *)
Prune ==
    /\ \E t \in Tokens : status[t] = "revoked"
    /\ status' = [t \in Tokens |-> IF status[t] = "revoked" THEN "gone" ELSE status[t]]
    /\ UNCHANGED <<session, password, loginOf, browser, refresh, login, logout, reset, snap, failures, history>>

-----------------------------------------------------------------------------
Serve(f) ==
    \/ RotateSelect(f) \/ RotateIssue(f) \/ FindValid(f) \/ ReplaySnapshot(f) \/ ReplayRevoke(f)
    \/ Respond(f) \/ RespondRefused(f)

SessionsNext ==
    \/ \E f \in Fetches : Fetch(f) \/ Unauthorized(f) \/ Serve(f) \/ RotateFails(f) \/ FindFails(f) \/ LoseResponse(f)
    \/ \E l \in Logins : LoginCheck(l) \/ LoginCreate(l) \/ LoginRespond(l)
    \/ Logout \/ LogoutRespond
    \/ ResetPassword \/ ResetSnapshot \/ ResetRevoke
    \/ \E t \in Tokens : TokenExpires(t)
    \/ Prune

SessionsSpec == SessionsInit /\ [][SessionsNext]_sessionVars

(* The API answers every request, and the browser handles the answer. *)
SessionsFairness == \A f \in Fetches : WF_sessionVars(Unauthorized(f)) /\ WF_sessionVars(Serve(f))

SessionsFairSpec == SessionsSpec /\ SessionsFairness

-----------------------------------------------------------------------------
(* As long as no two tabs present one token at once, no new token is lost  *)
(* and nobody ends it, the browser keeps its session: its cookie is valid, *)
(* or is being replaced.  Calls of one tab that all meet a 401 never look  *)
(* like a replay.                                                          *)
CookieSurvives ==
    (cookie # 0 /\ session[cookie] \notin disturbed) =>
        \/ status[cookie] \in {"valid", "gone"}
        \/ \E f \in Fetches : refresh[f].token = cookie /\ refresh[f].pc \in {"issued", "answered"}

(* A session has one usable token, unless two tabs rotated it at once or   *)
(* a new token was lost.                                                   *)
OneTokenPerSession ==
    \A s \in Tokens \ disturbed : Cardinality({t \in Valid : session[t] = s}) <= 1

(* A session that a replay or a reset has revoked, or a logout before      *)
(* anything disturbed it, has no usable token left, but for what was       *)
(* rotated while the revocation ran.                                       *)
EndedStaysEnded == \A t \in Valid : session[t] \in ended => t \in overlapping

(* "Forces re-login on all devices": after a reset every usable token goes *)
(* back to a login with the new password, but for the logins and refreshes *)
(* that the reset overlapped.                                              *)
OldPasswordIsOut ==
    reset = "done" => \A t \in Valid : loginOf[t] = password \/ t \in overlapping

(* Every API call ends, whatever becomes of the refresh it waits for. *)
EveryFetchEnds == \A f \in Fetches : fetch[f] # "idle" ~> fetch[f] = "idle"

(* With the types: rotation gives a session one usable token (rotate).     *)
SessionInv == SessionsTypeOK /\ OneTokenPerSession

(* Whoever was put out of a session, by a replay that found it, a logout   *)
(* of an undisturbed one or a reset of the password, does not get back in  *)
(* with one of its tokens (revoke, revokeChain, revokeAllForUser).         *)
RevokedStaysOut == EndedStaysEnded /\ OldPasswordIsOut
=============================================================================
