--------------------------- MODULE CircuitBreaker ---------------------------
(***************************************************************************)
(* The circuit breaker of one host in a worker process, with the checks    *)
(* that ask it, run against the host, and report back.  isOpen and the two *)
(* record functions are synchronous; any number of checks can be under way *)
(* between them.                                                           *)
(***************************************************************************)
EXTENDS Naturals, FiniteSets

CONSTANTS
    Checks,              \* checks of the host that can be under way at once
    Editable,            \* those whose monitor may be given another URL
    FailureThreshold,
    MaxOutages           \* how often the host goes down (a bound)

ASSUME BreakerAssumption ==
    /\ Editable \subseteq Checks
    /\ FailureThreshold \in Nat \ {0}
    /\ MaxOutages \in Nat

VARIABLES
    state,
    failures,    \* up to FailureThreshold: only the comparison matters
    cooled,      \* are cooldownMs over since openedAt?
    check,       \* "idle"; "up", "down" or "both": under way, with what the
                 \* host has been since; "skipped": reported down at once
    probes,      \* checks that began while the circuit was HALF_OPEN
    unsupported, \* checks whose next job has a URL that is no HTTP
    healthy,     \* the host's health
    outages

vars == <<state, failures, cooled, check, probes, unsupported, healthy, outages>>

States == {"CLOSED", "OPEN", "HALF_OPEN"}

TypeOK ==
    /\ state \in States
    /\ failures \in 0..FailureThreshold
    /\ cooled \in BOOLEAN
    /\ check \in [Checks -> {"idle", "up", "down", "both", "skipped"}]
    /\ probes \subseteq Checks
    /\ unsupported \subseteq Editable
    /\ healthy \in BOOLEAN
    /\ outages \in 0..MaxOutages

(* A host without an entry in hosts is CLOSED with no failures. *)
Init ==
    /\ state = "CLOSED"
    /\ failures = 0
    /\ cooled = FALSE
    /\ check = [c \in Checks |-> "idle"]
    /\ probes = {}
    /\ unsupported \in SUBSET Editable
    /\ healthy = TRUE
    /\ outages = 0

UnderWay(c) == check[c] \in {"up", "down", "both"}

Begin(c) == check' = [check EXCEPT ![c] = IF healthy THEN "up" ELSE "down"]

(* The circuit is asked only by checks with an http or https URL. *)
Asks(c) == check[c] = "idle" /\ c \notin unsupported

-----------------------------------------------------------------------------
(* isOpen is false: the check goes on to the host. *)
BeginClosed(c) ==
    /\ Asks(c)
    /\ state = "CLOSED"
    /\ Begin(c)
    /\ UNCHANGED <<state, failures, cooled, probes, unsupported, healthy, outages>>

(* Mutant: the probe itself is turned away. *)
BeginProbeSkipped(c) ==
    /\ Asks(c)
    /\ state = "OPEN" /\ cooled
    /\ state' = "HALF_OPEN"
    /\ check' = [check EXCEPT ![c] = "skipped"]
    /\ UNCHANGED <<failures, cooled, probes, unsupported, healthy, outages>>

(* isOpen after the cooldown: the circuit is half open. *)
BeginProbe(c) ==
    /\ Asks(c)
    /\ state = "OPEN" /\ cooled
    /\ state' = "HALF_OPEN"
    /\ probes' = probes \cup {c}
    /\ Begin(c)
    /\ UNCHANGED <<failures, cooled, unsupported, healthy, outages>>

(* isOpen while HALF_OPEN is false for everybody. *)
BeginHalfOpen(c) ==
    /\ Asks(c)
    /\ state = "HALF_OPEN"
    /\ probes' = probes \cup {c}
    /\ Begin(c)
    /\ UNCHANGED <<state, failures, cooled, unsupported, healthy, outages>>

(* isOpen is true: the check reports down without asking the host. *)
Skip(c) ==
    /\ Asks(c)
    /\ state = "OPEN" /\ ~cooled
    /\ check' = [check EXCEPT ![c] = "skipped"]
    /\ UNCHANGED <<state, failures, cooled, probes, unsupported, healthy, outages>>

Reported(c) ==
    /\ check' = [check EXCEPT ![c] = "idle"]
    /\ probes' = probes \ {c}

EndSkipped(c) ==
    /\ check[c] = "skipped"
    /\ Reported(c)
    /\ UNCHANGED <<state, failures, cooled, unsupported, healthy, outages>>

(* Mutant: a success resets the count only. *)
NeverCloses(c) ==
    /\ UnderWay(c)
    /\ check[c] # "down"
    /\ Reported(c)
    /\ failures' = 0
    /\ UNCHANGED <<state, cooled, unsupported, healthy, outages>>

(* The host was up for some of the time, and answered: recordSuccess.      *)
RecordSuccess(c) ==
    /\ UnderWay(c)
    /\ check[c] # "down"
    /\ Reported(c)
    /\ state' = "CLOSED"
    /\ failures' = 0
    /\ UNCHANGED <<cooled, unsupported, healthy, outages>>

CountFailure == IF failures < FailureThreshold THEN failures + 1 ELSE failures

(* recordFailure: openedAt moves with every failure from the threshold on. *)
Failed ==
    /\ failures' = CountFailure
    /\ IF state = "HALF_OPEN" \/ CountFailure >= FailureThreshold
       THEN state' = "OPEN" /\ cooled' = FALSE
       ELSE UNCHANGED <<state, cooled>>

(* It was down for some of the time, and did not (timeout, error, address  *)
(* refused), though it may be up again.                                    *)
RecordFailure(c) ==
    /\ UnderWay(c)
    /\ check[c] # "up"
    /\ Reported(c)
    /\ Failed
    /\ UNCHANGED <<unsupported, healthy, outages>>

(* A URL of another protocol is refused before the circuit is asked, and   *)
(* counts as a failure of its host, whatever the circuit and the host are. *)
FailUnasked(c) ==
    /\ check[c] = "idle" /\ c \in unsupported
    /\ Failed
    /\ UNCHANGED <<check, probes, unsupported, healthy, outages>>

(* A monitor is given a URL of another protocol, or of HTTP again. *)
EditUrl(c) ==
    /\ unsupported' = IF c \in unsupported THEN unsupported \ {c} ELSE unsupported \cup {c}
    /\ UNCHANGED <<state, failures, cooled, check, probes, healthy, outages>>

(* cooldownMs pass. *)
CoolDown ==
    /\ state = "OPEN" /\ ~cooled
    /\ cooled' = TRUE
    /\ UNCHANGED <<state, failures, check, probes, unsupported, healthy, outages>>

(* The process exits, and its circuits and checks with it. *)
ProcessExits ==
    /\ state' = "CLOSED" /\ failures' = 0 /\ cooled' = FALSE
    /\ check' = [c \in Checks |-> "idle"]
    /\ probes' = {}
    /\ UNCHANGED <<unsupported, healthy, outages>>

(* The host, with those it redirects to, goes down and comes back. *)
Saw(h) == check' = [c \in Checks |-> IF UnderWay(c) /\ check[c] # h THEN "both" ELSE check[c]]

HostFails ==
    /\ healthy /\ outages < MaxOutages
    /\ healthy' = FALSE
    /\ outages' = outages + 1
    /\ Saw("down")
    /\ UNCHANGED <<state, failures, cooled, probes, unsupported>>

HostRecovers ==
    /\ ~healthy
    /\ healthy' = TRUE
    /\ Saw("up")
    /\ UNCHANGED <<state, failures, cooled, probes, unsupported, outages>>

-----------------------------------------------------------------------------
BeginCheck(c) == BeginClosed(c) \/ BeginProbe(c) \/ BeginHalfOpen(c) \/ Skip(c)

EndCheck(c) == EndSkipped(c) \/ RecordSuccess(c) \/ RecordFailure(c)

Next ==
    \/ \E c \in Checks : BeginCheck(c) \/ EndCheck(c) \/ FailUnasked(c)
    \/ \E c \in Editable : EditUrl(c)
    \/ CoolDown \/ ProcessExits \/ HostFails \/ HostRecovers

Spec == Init /\ [][Next]_vars

(* The scheduler keeps sending checks, a check ends (it has a timeout) and *)
(* time passes.                                                            *)
Fairness ==
    /\ \A c \in Checks : WF_vars(BeginCheck(c)) /\ WF_vars(EndCheck(c))
    /\ WF_vars(CoolDown)

FairSpec == Spec /\ Fairness

-----------------------------------------------------------------------------
(* The circuit is CLOSED exactly as long as fewer than FailureThreshold    *)
(* failures were recorded since the last success, in whatever order checks *)
(* that overlap report: the rule of the header of CircuitBreaker.ts.       *)
ClosedBelowThreshold == state = "CLOSED" <=> failures < FailureThreshold

(* A half-open circuit always has a check under way that will decide it:   *)
(* it is never left half open with nobody to close it or open it again.    *)
HalfOpenIsProbed == state = "HALF_OPEN" => probes # {}

(* A check that begins on a circuit that was opened less than cooldownMs   *)
(* ago never reaches the host.                                             *)
OpenShieldsHost ==
    [][\A c \in Checks :
         (check[c] = "idle" /\ state = "OPEN" /\ ~cooled) => check'[c] \in {"idle", "skipped"}]_vars

(* A host that is up for good, and whose monitors all have URLs of HTTP,   *)
(* is checked again for good: the circuit closes and stays closed, however *)
(* late the failures of the outage come.  A monitor with a URL of another  *)
(* protocol opens the circuit of a host that is up again and again.        *)
RecoveredHostCloses ==
    <>[](healthy /\ unsupported = {}) => <>[](state = "CLOSED")
=============================================================================
