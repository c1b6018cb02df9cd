---------------------------- MODULE HttpChecker ----------------------------
(***************************************************************************)
(* A check of a host over HTTP, await by await: the name is resolved, the  *)
(* request may be redirected, each time with a name to resolve, and the    *)
(* body is read only if something is asserted about it.  What it reports   *)
(* to the circuit of the host makes it an implementation of                *)
(* CircuitBreaker, whose variables it keeps.                               *)
(***************************************************************************)
EXTENDS CircuitBreaker

CONSTANTS
    Asserted,        \* what a check's monitor asserts of the body
    MaxRedirects,    \* MAX_REDIRECTS
    MaxBadLocations  \* redirects to what is no URL (a bound)

Assertions == {"contains", "json"}

ASSUME RequestAssumption ==
    /\ Asserted \in [Checks -> SUBSET Assertions]
    /\ MaxRedirects \in Nat
    /\ MaxBadLocations \in Nat

VARIABLES
    phase,        \* what a check waits for
    left,         \* redirectsLeft
    report,       \* the result of a check, at its last step, with what it saw
    badLocations

httpVars == <<vars, phase, left, report, badLocations>>

(* What a body may be, and the assertions that hold of it. *)
Bodies == {"empty", "other", "text", "match"}
Holds  == [empty |-> {}, other |-> {}, text |-> {"contains"}, match |-> {"contains", "json"}]

Report == [asserted : SUBSET Assertions, expected : BOOLEAN, body : Bodies \cup {"unread"},
           status : {"up", "degraded"}]

NoReport == [asserted |-> {}, expected |-> TRUE, body |-> "unread", status |-> "up"]

HttpTypeOK ==
    /\ TypeOK
    /\ phase \in [Checks -> {"idle", "resolve", "response", "body"}]
    /\ left \in [Checks -> 0..MaxRedirects]
    /\ report \in Report
    /\ badLocations \in 0..MaxBadLocations
    /\ \A c \in Checks : UnderWay(c) <=> phase[c] # "idle"

HttpInit ==
    /\ Init
    /\ phase = [c \in Checks |-> "idle"]
    /\ left = [c \in Checks |-> 0]
    /\ report = NoReport
    /\ badLocations = 0

-----------------------------------------------------------------------------
(* check, up to assertSafeHost, when the URL is one of HTTP and the circuit *)
(* lets it through.                                                         *)
Check(c) ==
    /\ BeginClosed(c) \/ BeginProbe(c) \/ BeginHalfOpen(c)
    /\ phase' = [phase EXCEPT ![c] = "resolve"]
    /\ left' = [left EXCEPT ![c] = MaxRedirects]
    /\ report' = NoReport
    /\ UNCHANGED badLocations

(* assertSafeHost resolves, and makeRequest sends. *)
Resolved(c) ==
    /\ phase[c] = "resolve" /\ healthy
    /\ phase' = [phase EXCEPT ![c] = "response"]
    /\ report' = NoReport
    /\ UNCHANGED <<vars, left, badLocations>>

Redirected(c) ==
    /\ phase[c] = "response" /\ healthy /\ left[c] > 0
    /\ left' = [left EXCEPT ![c] = @ - 1]
    /\ phase' = [phase EXCEPT ![c] = "resolve"]
    /\ report' = NoReport
    /\ UNCHANGED <<vars, badLocations>>

(* A location that is no URL throws in the response's callback, which no   *)
(* promise catches: uncaughtException ends the process.                    *)
BadLocation(c) ==
    /\ phase[c] = "response" /\ healthy /\ left[c] > 0
    /\ badLocations < MaxBadLocations
    /\ badLocations' = badLocations + 1
    /\ ProcessExits
    /\ phase' = [d \in Checks |-> "idle"]
    /\ left' = [d \in Checks |-> 0]
    /\ report' = NoReport

ReadBody(c) ==
    /\ phase[c] = "response" /\ healthy /\ Asserted[c] # {}
    /\ phase' = [phase EXCEPT ![c] = "body"]
    /\ report' = NoReport
    /\ UNCHANGED <<vars, left, badLocations>>

(* evaluateBodyAssertion; of an empty body nothing is asserted.            *)
EvaluateBodyAssertion(a, body) == body = "empty" \/ a \subseteq Holds[body]

Done(c) ==
    /\ phase' = [phase EXCEPT ![c] = "idle"]
    /\ left' = [left EXCEPT ![c] = 0]

(* The answer is complete, with the expected status or another, after the  *)
(* last redirect that is followed: up or degraded, a success either way.   *)
Answered(c) ==
    /\ phase[c] = IF Asserted[c] = {} THEN "response" ELSE "body"
    /\ \E expected \in BOOLEAN, body \in IF phase[c] = "body" THEN Bodies ELSE {"unread"} :
          report' = [asserted |-> Asserted[c], expected |-> expected, body |-> body,
                     status |-> IF expected /\ (body = "unread" \/ EvaluateBodyAssertion(Asserted[c], body))
                                THEN "up" ELSE "degraded"]
    /\ RecordSuccess(c)
    /\ Done(c)
    /\ UNCHANGED badLocations

(* Mutant: what assertSafeHost throws is not caught, nor counted.          *)
BrokenUnlessResolving(c) ==
    /\ phase[c] # "idle"
    /\ IF phase[c] = "resolve"
       THEN Reported(c) /\ UNCHANGED <<state, failures, cooled, unsupported, healthy, outages>>
       ELSE RecordFailure(c)
    /\ Done(c)
    /\ report' = NoReport
    /\ UNCHANGED badLocations

(* A name that does not resolve, an error or 10 s of silence at any await, *)
(* which may end after the host has recovered.                             *)
Broken(c) ==
    /\ phase[c] # "idle"
    /\ RecordFailure(c)
    /\ Done(c)
    /\ report' = NoReport
    /\ UNCHANGED badLocations

-----------------------------------------------------------------------------
Step(c) == Resolved(c) \/ ReadBody(c) \/ Answered(c) \/ Broken(c)

Aside == report' = NoReport /\ UNCHANGED <<phase, left, badLocations>>

HttpNext ==
    \/ \E c \in Checks : Check(c) \/ Step(c) \/ Redirected(c) \/ BadLocation(c)
    \/ \E c \in Checks : (Skip(c) \/ EndSkipped(c) \/ FailUnasked(c)) /\ Aside
    \/ \E c \in Editable : EditUrl(c) /\ Aside
    \/ (CoolDown \/ HostFails \/ HostRecovers) /\ Aside

HttpSpec == HttpInit /\ [][HttpNext]_httpVars

(* The scheduler keeps sending checks, an await ends (it has a timeout),   *)
(* time passes.                                                            *)
HttpFairSpec ==
    /\ HttpSpec
    /\ \A c \in Checks :
          /\ WF_httpVars(Check(c) \/ (Skip(c) /\ Aside))
          /\ WF_httpVars(Step(c) \/ (EndSkipped(c) /\ Aside))
    /\ WF_httpVars(CoolDown /\ Aside)

-----------------------------------------------------------------------------
(* check implements the use of the breaker that CircuitBreaker describes,  *)
(* with its fairness: whatever is redirected, read or broken off, a check  *)
(* ends and tells the circuit.                                             *)
ImplementsBreaker == FairSpec

(* A check is up only if the status was the expected one and all that is   *)
(* asserted of the body holds, or the body is empty.                       *)
UpIsAsserted ==
    report.status = "up" =>
        /\ report.expected
        /\ report.body \in {"unread", "empty"} \/ report.asserted \subseteq Holds[report.body]

(* The circuit and the checks agree, whatever an await ends with: the      *)
(* circuit is closed below the threshold only, is never stuck half open,   *)
(* and a check that asserts reports no host as up that fails it            *)
(* (HttpChecker.check with CircuitBreaker).                                *)
HttpInv == HttpTypeOK /\ ClosedBelowThreshold /\ HalfOpenIsProbed /\ UpIsAsserted
=============================================================================
