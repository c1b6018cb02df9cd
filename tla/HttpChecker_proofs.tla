------------------------- MODULE HttpChecker_proofs -------------------------
(* The circuit of a host, for any number of checks that overlap, any       *)
(* threshold and any number of outages; and a check over HTTP, which uses  *)
(* the circuit as CircuitBreaker says, for any number of redirects and     *)
(* whatever it asserts, so that the circuit and the checks agree.          *)
EXTENDS HttpChecker, TLAPS

-----------------------------------------------------------------------------
(* The circuit alone *)

(* A probe is under way: what ends without asking the host is no probe. *)
ProbesRun == \A c \in probes : UnderWay(c)

IInv == TypeOK /\ ProbesRun /\ ClosedBelowThreshold /\ HalfOpenIsProbed

LEMMA Initially == Init => IInv
  <1> SUFFICES ASSUME Init PROVE IInv
    OBVIOUS
  <1>1. TypeOK
    <2>1. failures \in 0..FailureThreshold /\ outages \in 0..MaxOutages
      BY BreakerAssumption DEF Init
    <2> QED
      BY <2>1 DEF Init, TypeOK, States
  <1>2. ProbesRun /\ HalfOpenIsProbed
    BY DEF Init, ProbesRun, HalfOpenIsProbed
  <1>3. ClosedBelowThreshold
    BY BreakerAssumption DEF Init, ClosedBelowThreshold
  <1> QED
    BY <1>1, <1>2, <1>3 DEF IInv

(* isOpen: a check begins, as a probe or not, or is turned away. *)
LEMMA BeginInv ==
  ASSUME IInv, NEW c \in Checks, BeginCheck(c)
  PROVE  IInv'
  <1> USE DEF IInv, TypeOK, States, ProbesRun, UnderWay, Begin, Asks
  <1>1. CASE BeginClosed(c)
    BY <1>1 DEF BeginClosed, ClosedBelowThreshold, HalfOpenIsProbed
  <1>2. CASE BeginProbe(c)
    <2>1. TypeOK' /\ ProbesRun'
      BY <1>2 DEF BeginProbe
    <2>2. ClosedBelowThreshold' /\ HalfOpenIsProbed'
      BY <1>2 DEF BeginProbe, ClosedBelowThreshold, HalfOpenIsProbed
    <2> QED
      BY <2>1, <2>2
  <1>3. CASE BeginHalfOpen(c)
    <2>1. TypeOK' /\ ProbesRun'
      BY <1>3 DEF BeginHalfOpen
    <2>2. ClosedBelowThreshold' /\ HalfOpenIsProbed'
      BY <1>3 DEF BeginHalfOpen, ClosedBelowThreshold, HalfOpenIsProbed
    <2> QED
      BY <2>1, <2>2
  <1>4. CASE Skip(c)
    BY <1>4 DEF Skip, ClosedBelowThreshold, HalfOpenIsProbed
  <1> QED
    BY <1>1, <1>2, <1>3, <1>4 DEF BeginCheck

(* A check that ends was a probe or not; what it leaves of them runs on. *)
LEMMA ReportedProbes ==
  ASSUME IInv, NEW c \in Checks, Reported(c)
  PROVE  /\ check' \in [Checks -> {"idle", "up", "down", "both", "skipped"}]
         /\ probes' \subseteq Checks
         /\ ProbesRun'
  BY DEF IInv, TypeOK, ProbesRun, UnderWay, Reported

(* A failure, of a check or of one that never asked, keeps the count and   *)
(* the state together, and leaves nothing half open.                       *)
LEMMA FailedOK ==
  ASSUME IInv, Failed
  PROVE  /\ state' \in States /\ failures' \in 0..FailureThreshold /\ cooled' \in BOOLEAN
         /\ ClosedBelowThreshold' /\ HalfOpenIsProbed'
  <1>1. CountFailure \in 0..FailureThreshold
    BY BreakerAssumption DEF CountFailure, IInv, TypeOK
  <1>2. state # "CLOSED" => CountFailure >= FailureThreshold
    BY BreakerAssumption DEF CountFailure, IInv, TypeOK, ClosedBelowThreshold
  <1>3. state' \in States /\ failures' \in 0..FailureThreshold /\ cooled' \in BOOLEAN
    BY <1>1 DEF Failed, IInv, TypeOK, States
  <1>4. ClosedBelowThreshold' /\ HalfOpenIsProbed'
    BY <1>1, <1>2, BreakerAssumption
       DEF Failed, IInv, TypeOK, States, ClosedBelowThreshold, HalfOpenIsProbed
  <1> QED
    BY <1>3, <1>4

(* What never asks the circuit is no probe, whatever it does to it. *)
LEMMA UnaskedInv ==
  ASSUME IInv, NEW c \in Checks, FailUnasked(c)
  PROVE  IInv'
  <1>1. TypeOK' /\ ProbesRun'
    BY FailedOK DEF FailUnasked, IInv, TypeOK, ProbesRun, UnderWay
  <1> QED
    BY <1>1, FailedOK DEF FailUnasked, IInv

LEMMA EditInv ==
  ASSUME IInv, NEW c \in Editable, EditUrl(c)
  PROVE  IInv'
  <1>1. unsupported' \subseteq Editable
    BY DEF EditUrl, IInv, TypeOK
  <1> QED
    BY <1>1 DEF EditUrl, IInv, TypeOK, ProbesRun, UnderWay, ClosedBelowThreshold, HalfOpenIsProbed

(* A success and a failure both end the half-open state, so that it does   *)
(* not matter which probes are left.                                       *)
LEMMA EndInv ==
  ASSUME IInv, NEW c \in Checks, EndCheck(c)
  PROVE  IInv'
  <1>1. CASE EndSkipped(c)
    <2>1. probes' = probes
      BY <1>1 DEF EndSkipped, Reported, IInv, ProbesRun, UnderWay
    <2> QED
      BY <1>1, <2>1, ReportedProbes
         DEF EndSkipped, IInv, TypeOK, ClosedBelowThreshold, HalfOpenIsProbed
  <1>2. CASE RecordSuccess(c)
    <2>1. TypeOK' /\ ProbesRun'
      BY <1>2, ReportedProbes, BreakerAssumption DEF RecordSuccess, IInv, TypeOK, States
    <2>2. ClosedBelowThreshold' /\ HalfOpenIsProbed'
      BY <1>2, BreakerAssumption DEF RecordSuccess, ClosedBelowThreshold, HalfOpenIsProbed
    <2> QED
      BY <2>1, <2>2 DEF IInv
  <1>3. CASE RecordFailure(c)
    <2>1. TypeOK' /\ ProbesRun'
      BY <1>3, FailedOK, ReportedProbes DEF RecordFailure, IInv, TypeOK
    <2> QED
      BY <1>3, <2>1, FailedOK DEF RecordFailure, IInv
  <1> QED
    BY <1>1, <1>2, <1>3 DEF EndCheck

(* What a check sees of the host does not end it. *)
LEMMA SawProbes ==
  ASSUME IInv, NEW h \in {"up", "down"}, Saw(h), probes' = probes
  PROVE  /\ check' \in [Checks -> {"idle", "up", "down", "both", "skipped"}]
         /\ ProbesRun'
  BY DEF IInv, TypeOK, ProbesRun, UnderWay, Saw

LEMMA WorldInv ==
  ASSUME IInv, CoolDown \/ HostFails \/ HostRecovers
  PROVE  IInv'
  <1>1. UNCHANGED <<state, failures, probes, unsupported>>
    BY DEF CoolDown, HostFails, HostRecovers
  <1>2. cooled' \in BOOLEAN /\ healthy' \in BOOLEAN
    BY DEF CoolDown, HostFails, HostRecovers, IInv, TypeOK
  <1>3. outages' \in 0..MaxOutages
    BY BreakerAssumption DEF CoolDown, HostFails, HostRecovers, IInv, TypeOK
  <1>4. check' \in [Checks -> {"idle", "up", "down", "both", "skipped"}] /\ ProbesRun'
    <2>1. CASE CoolDown
      BY <2>1 DEF CoolDown, IInv, TypeOK, ProbesRun, UnderWay
    <2>2. CASE HostFails
      BY <2>2, SawProbes DEF HostFails
    <2>3. CASE HostRecovers
      BY <2>3, SawProbes DEF HostRecovers
    <2> QED
      BY <2>1, <2>2, <2>3
  <1> QED
    BY <1>1, <1>2, <1>3, <1>4 DEF IInv, TypeOK, ClosedBelowThreshold, HalfOpenIsProbed

(* The circuits of a process are as new as the process. *)
LEMMA ExitInv ==
  ASSUME IInv, ProcessExits
  PROVE  IInv'
  <1>1. TypeOK'
    <2>1. failures' \in 0..FailureThreshold /\ outages' \in 0..MaxOutages
      BY BreakerAssumption DEF ProcessExits, IInv, TypeOK
    <2> QED
      BY <2>1 DEF ProcessExits, IInv, TypeOK, States
  <1>2. ProbesRun' /\ HalfOpenIsProbed'
    BY DEF ProcessExits, ProbesRun, HalfOpenIsProbed
  <1>3. ClosedBelowThreshold'
    BY BreakerAssumption DEF ProcessExits, ClosedBelowThreshold
  <1> QED
    BY <1>1, <1>2, <1>3 DEF IInv

LEMMA Inductive == IInv /\ [Next]_vars => IInv'
  <1> SUFFICES ASSUME IInv, [Next]_vars PROVE IInv'
    OBVIOUS
  <1>1. ASSUME NEW c \in Checks, BeginCheck(c) \/ EndCheck(c) PROVE IInv'
    BY <1>1, BeginInv, EndInv
  <1>2. CASE CoolDown \/ HostFails \/ HostRecovers
    BY <1>2, WorldInv
  <1>3. CASE ProcessExits
    BY <1>3, ExitInv
  <1>4. CASE UNCHANGED vars
    BY <1>4 DEF vars, IInv, TypeOK, ProbesRun, UnderWay, ClosedBelowThreshold, HalfOpenIsProbed
  <1>5. ASSUME NEW c \in Checks, FailUnasked(c) PROVE IInv'
    BY <1>5, UnaskedInv
  <1>6. ASSUME NEW c \in Editable, EditUrl(c) PROVE IInv'
    BY <1>6, EditInv
  <1> QED
    BY <1>1, <1>2, <1>3, <1>4, <1>5, <1>6 DEF Next

LEMMA Invariance == Spec => []IInv
  BY Initially, Inductive, PTL DEF Spec

(* The circuit is CLOSED exactly as long as fewer than FailureThreshold    *)
(* failures were recorded since the last success, in whatever order the    *)
(* checks report (recordSuccess, recordFailure).                           *)
THEOREM ClosedBelowThresholdHolds == Spec => []ClosedBelowThreshold
  <1>1. IInv => ClosedBelowThreshold
    BY DEF IInv
  <1> QED
    BY <1>1, Invariance, PTL

(* A half-open circuit has a check under way whose result will close it or *)
(* open it again (isOpen never leaves HALF_OPEN behind without a probe).   *)
THEOREM HalfOpenIsProbedHolds == Spec => []HalfOpenIsProbed
  <1>1. IInv => HalfOpenIsProbed
    BY DEF IInv
  <1> QED
    BY <1>1, Invariance, PTL

(* A check that begins while the circuit is open and has not cooled does   *)
(* not reach the host (isOpen, HttpChecker.check).                         *)
THEOREM OpenShieldsHostHolds == Spec => OpenShieldsHost
  <1> DEFINE Shielded == \A c \in Checks :
         (check[c] = "idle" /\ state = "OPEN" /\ ~cooled) => check'[c] \in {"idle", "skipped"}
  <1>1. IInv /\ [Next]_vars => [Shielded]_vars
    <2> SUFFICES ASSUME IInv, Next, NEW c \in Checks,
                        check[c] = "idle", state = "OPEN", ~cooled
                 PROVE  check'[c] \in {"idle", "skipped"}
      OBVIOUS
    <2>1. ASSUME NEW d \in Checks, BeginCheck(d)
          PROVE  check'[c] \in {"idle", "skipped"}
      BY <2>1 DEF BeginCheck, BeginClosed, BeginProbe, BeginHalfOpen, Skip, Asks, IInv, TypeOK
    <2>2. ASSUME NEW d \in Checks, EndCheck(d)
          PROVE  check'[c] \in {"idle", "skipped"}
      BY <2>2 DEF EndCheck, EndSkipped, RecordSuccess, RecordFailure, Reported, IInv, TypeOK
    <2>3. CASE CoolDown \/ HostFails \/ HostRecovers
      BY <2>3 DEF CoolDown, HostFails, HostRecovers, Saw, UnderWay, IInv, TypeOK
    <2>4. CASE ProcessExits
      BY <2>4 DEF ProcessExits
    <2>5. ASSUME NEW d \in Checks, FailUnasked(d) \/ (d \in Editable /\ EditUrl(d))
          PROVE  check'[c] \in {"idle", "skipped"}
      BY <2>5 DEF FailUnasked, EditUrl
    <2> QED
      BY <2>1, <2>2, <2>3, <2>4, <2>5, BreakerAssumption DEF Next
  <1>2. Spec => [][Shielded]_vars
    BY <1>1, Invariance, PTL DEF Spec
  <1> QED
    BY <1>2 DEF OpenShieldsHost

-----------------------------------------------------------------------------
(* The checks that use it *)

(* Between its first step, which asks the circuit, and its last, which     *)
(* tells it, a check leaves the circuit alone; what a location that is no  *)
(* URL does to it is that the process ends; and a check whose own URL is   *)
(* of another protocol has one step only, that of CircuitBreaker.          *)
LEMMA StepsAreSteps == HttpNext => [Next]_vars
  <1> SUFFICES ASSUME HttpNext PROVE [Next]_vars
    OBVIOUS
  <1>1. ASSUME NEW c \in Checks, Check(c) PROVE Next
    BY <1>1 DEF Check, BeginCheck, Next
  <1>2. ASSUME NEW c \in Checks, Resolved(c) \/ ReadBody(c) \/ Redirected(c)
        PROVE  UNCHANGED vars
    BY <1>2 DEF Resolved, ReadBody, Redirected
  <1>3. ASSUME NEW c \in Checks, Answered(c) \/ Broken(c) PROVE Next
    BY <1>3 DEF Answered, Broken, EndCheck, Next
  <1>4. ASSUME NEW c \in Checks, BadLocation(c) PROVE Next
    BY <1>4 DEF BadLocation, Next
  <1>5. ASSUME NEW c \in Checks, Skip(c) \/ EndSkipped(c) \/ FailUnasked(c) PROVE Next
    BY <1>5 DEF BeginCheck, EndCheck, Next
  <1>6. CASE CoolDown \/ HostFails \/ HostRecovers
    BY <1>6 DEF Next
  <1>7. ASSUME NEW c \in Editable, EditUrl(c) PROVE Next
    BY <1>7 DEF Next
  <1> QED
    BY <1>1, <1>2, <1>3, <1>4, <1>5, <1>6, <1>7 DEF HttpNext, Step

(* Every behaviour of the checks (check, makeRequest, assertSafeHost) is,  *)
(* for the circuit, a behaviour of CircuitBreaker.                         *)
THEOREM ChecksUseTheBreaker == HttpSpec => Spec
  <1>1. HttpInit => Init
    BY DEF HttpInit
  <1>2. [HttpNext]_httpVars => [Next]_vars
    BY StepsAreSteps DEF httpVars
  <1> QED
    BY <1>1, <1>2, PTL DEF HttpSpec, Spec

-----------------------------------------------------------------------------
(* What the checks add to the circuit: each waits for something exactly    *)
(* while the circuit counts it as under way.                               *)
ChecksOK ==
    /\ phase \in [Checks -> {"idle", "resolve", "response", "body"}]
    /\ left \in [Checks -> 0..MaxRedirects]
    /\ badLocations \in 0..MaxBadLocations
    /\ \A c \in Checks : UnderWay(c) <=> phase[c] # "idle"

ReportOK == report \in Report /\ UpIsAsserted

HttpIInv == IInv /\ ChecksOK /\ ReportOK

LEMMA NothingReported == report' = NoReport => ReportOK'
  BY DEF ReportOK, UpIsAsserted, NoReport, Report, Bodies

LEMMA HttpInitially == HttpInit => HttpIInv
  <1> SUFFICES ASSUME HttpInit PROVE HttpIInv
    OBVIOUS
  <1>1. IInv
    BY Initially DEF HttpInit
  <1>2. ChecksOK
    BY RequestAssumption DEF HttpInit, Init, ChecksOK, UnderWay
  <1>3. ReportOK
    BY DEF HttpInit, ReportOK, UpIsAsserted, NoReport, Report, Bodies
  <1> QED
    BY <1>1, <1>2, <1>3 DEF HttpIInv

(* A check that goes on to the host begins with a name to resolve. *)
LEMMA CheckOK ==
  ASSUME HttpIInv, NEW c \in Checks, Check(c)
  PROVE  ChecksOK' /\ ReportOK'
  <1>1. Begin(c) /\ UNCHANGED healthy
    BY DEF Check, BeginClosed, BeginProbe, BeginHalfOpen
  <1>2. MaxRedirects \in 0..MaxRedirects
    BY RequestAssumption
  <1>3. ChecksOK'
    BY <1>1, <1>2 DEF Check, Begin, ChecksOK, UnderWay, HttpIInv, IInv, TypeOK
  <1> QED
    BY <1>3, NothingReported DEF Check

(* The awaits in between leave the circuit alone. *)
LEMMA AwaitOK ==
  ASSUME HttpIInv, NEW c \in Checks, Resolved(c) \/ ReadBody(c) \/ Redirected(c)
  PROVE  ChecksOK' /\ ReportOK'
  <1>1. CASE Resolved(c) \/ ReadBody(c)
    BY <1>1, NothingReported DEF Resolved, ReadBody, vars, HttpIInv, ChecksOK, UnderWay
  <1>2. CASE Redirected(c)
    <2>1. left[c] - 1 \in 0..MaxRedirects
      BY <1>2, RequestAssumption DEF Redirected, HttpIInv, ChecksOK
    <2>2. UNCHANGED <<check, badLocations>> /\ report' = NoReport
      BY <1>2 DEF Redirected, vars
    <2>3. phase[c] # "idle" /\ phase' = [phase EXCEPT ![c] = "resolve"]
      BY <1>2 DEF Redirected
    <2>4. left' \in [Checks -> 0..MaxRedirects]
      BY <1>2, <2>1 DEF Redirected, HttpIInv, ChecksOK
    <2> QED
      BY <2>2, <2>3, <2>4, NothingReported DEF HttpIInv, ChecksOK, UnderWay
  <1> QED
    BY <1>1, <1>2

(* Whoever tells the circuit how it went is under way no more. *)
LEMMA DoneOK ==
  ASSUME HttpIInv, NEW c \in Checks, Reported(c), Done(c), UNCHANGED badLocations
  PROVE  ChecksOK'
  <1>1. 0 \in 0..MaxRedirects
    BY RequestAssumption
  <1> QED
    BY <1>1 DEF Reported, Done, HttpIInv, IInv, TypeOK, ChecksOK, UnderWay

(* The report of an answer: evaluateBodyAssertion decides. *)
LEMMA AnsweredOK ==
  ASSUME HttpIInv, NEW c \in Checks, Answered(c)
  PROVE  ChecksOK' /\ ReportOK'
  <1>1. ChecksOK'
    BY DoneOK DEF Answered, RecordSuccess
  <1>2. PICK expected \in BOOLEAN, body \in Bodies \cup {"unread"} :
          report' = [asserted |-> Asserted[c], expected |-> expected, body |-> body,
                     status |-> IF expected /\ (body = "unread" \/ EvaluateBodyAssertion(Asserted[c], body))
                                THEN "up" ELSE "degraded"]
    BY DEF Answered
  <1>3. Asserted[c] \in SUBSET Assertions
    BY RequestAssumption
  <1>4. report' \in Report
    BY <1>2, <1>3 DEF Report
  <1>5. UpIsAsserted'
    BY <1>2 DEF UpIsAsserted, EvaluateBodyAssertion
  <1> QED
    BY <1>1, <1>4, <1>5 DEF ReportOK

LEMMA ExitOK ==
  ASSUME HttpIInv, NEW c \in Checks, BadLocation(c)
  PROVE  ChecksOK' /\ ReportOK'
  <1>1. 0 \in 0..MaxRedirects /\ badLocations' \in 0..MaxBadLocations
    BY RequestAssumption DEF BadLocation, HttpIInv, ChecksOK
  <1>2. ChecksOK'
    BY <1>1 DEF BadLocation, ProcessExits, ChecksOK, UnderWay
  <1> QED
    BY <1>2, NothingReported DEF BadLocation

(* A check that is turned away, and the host, change nobody's phase. *)
LEMMA AsideOK ==
  ASSUME HttpIInv, Aside,
         \A c \in Checks : UnderWay(c)' <=> UnderWay(c)
  PROVE  ChecksOK' /\ ReportOK'
  BY NothingReported DEF Aside, HttpIInv, ChecksOK

LEMMA AsideIsAside ==
  ASSUME HttpIInv,
         \/ \E c \in Checks : Skip(c) \/ EndSkipped(c) \/ FailUnasked(c)
         \/ \E c \in Editable : EditUrl(c)
         \/ CoolDown \/ HostFails \/ HostRecovers
  PROVE  \A c \in Checks : UnderWay(c)' <=> UnderWay(c)
  <1>1. ASSUME NEW c \in Checks, Skip(c) \/ EndSkipped(c)
        PROVE  \A d \in Checks : UnderWay(d)' <=> UnderWay(d)
    BY <1>1 DEF Skip, Asks, EndSkipped, Reported, HttpIInv, IInv, TypeOK, UnderWay
  <1>2. CASE CoolDown
    BY <1>2 DEF CoolDown, UnderWay
  <1>3. CASE HostFails
    BY <1>3 DEF HostFails, Saw, UnderWay, HttpIInv, IInv, TypeOK
  <1>4. CASE HostRecovers
    BY <1>4 DEF HostRecovers, Saw, UnderWay, HttpIInv, IInv, TypeOK
  <1>5. ASSUME UNCHANGED check
        PROVE  \A d \in Checks : UnderWay(d)' <=> UnderWay(d)
    BY <1>5 DEF UnderWay
  <1>6. (\E c \in Checks : FailUnasked(c)) \/ (\E c \in Editable : EditUrl(c)) => UNCHANGED check
    BY DEF FailUnasked, EditUrl
  <1> QED
    BY <1>1, <1>2, <1>3, <1>4, <1>5, <1>6

LEMMA HttpInductive == HttpIInv /\ [HttpNext]_httpVars => HttpIInv'
  <1> SUFFICES ASSUME HttpIInv, [HttpNext]_httpVars PROVE HttpIInv'
    OBVIOUS
  <1>1. IInv'
    BY StepsAreSteps, Inductive DEF HttpIInv, httpVars, vars
  <1>2. ASSUME NEW c \in Checks, Check(c) \/ Step(c) \/ Redirected(c) \/ BadLocation(c)
        PROVE  ChecksOK' /\ ReportOK'
    <2>1. CASE Broken(c)
      <3>1. ChecksOK'
        BY <2>1, DoneOK DEF Broken, RecordFailure
      <3> QED
        BY <2>1, <3>1, NothingReported DEF Broken
    <2> QED
      BY <1>2, <2>1, CheckOK, AwaitOK, AnsweredOK, ExitOK DEF Step
  <1>3. ASSUME NEW c \in Checks, (Skip(c) \/ EndSkipped(c) \/ FailUnasked(c)) /\ Aside
        PROVE  ChecksOK' /\ ReportOK'
    BY <1>3, AsideOK, AsideIsAside
  <1>4. CASE (CoolDown \/ HostFails \/ HostRecovers) /\ Aside
    <2>1. ChecksOK' /\ ReportOK'
      BY <1>4, AsideOK, AsideIsAside
    <2> QED
      BY <1>1, <2>1 DEF HttpIInv
  <1>5. CASE UNCHANGED httpVars
    <2>1. ChecksOK'
      BY <1>5 DEF httpVars, vars, HttpIInv, ChecksOK, UnderWay
    <2>2. ReportOK'
      BY <1>5 DEF httpVars, HttpIInv, ReportOK, UpIsAsserted
    <2> QED
      BY <1>1, <2>1, <2>2 DEF HttpIInv
  <1>6. ASSUME NEW c \in Editable, EditUrl(c) /\ Aside
        PROVE  ChecksOK' /\ ReportOK'
    BY <1>6, AsideOK, AsideIsAside
  <1> QED
    BY <1>1, <1>2, <1>3, <1>4, <1>5, <1>6 DEF HttpNext, HttpIInv

(* Whatever the awaits of the checks end with, the circuit is closed below *)
(* the threshold only and never stuck half open, and a check reports a     *)
(* host as up only if it is as asserted (check, isOpen, recordFailure).    *)
THEOREM HttpInvHolds == HttpSpec => []HttpInv
  <1>1. HttpIInv => HttpInv
    BY DEF HttpIInv, IInv, ChecksOK, ReportOK, HttpInv, HttpTypeOK
  <1> QED
    BY <1>1, HttpInitially, HttpInductive, PTL DEF HttpSpec
=============================================================================
