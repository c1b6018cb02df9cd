-------------------------- MODULE CheckJobs_proofs --------------------------
(* What the check workers and the queue hold to, for any number of jobs    *)
(* and processes, and any number of failures, crashes and restarts; and    *)
(* the scheduler that fills the queue, for any number of instances and     *)
(* monitors.                                                               *)
EXTENDS CheckJobs, SchedulerLoop, Integers, FiniteSetTheorems, TLAPS

EvaluatedOK == \A d \in deliveries : d.step = "evaluated" => evaluated[d.job] >= 1

(* Every receive makes one delivery. *)
OneEach ==
    /\ \A d \in deliveries : d.nth <= receives[d.job]
    /\ \A d, e \in deliveries : d.job = e.job /\ d.nth = e.nth => d = e

(* The receives of job j whose delivery may still be evaluated.            *)
Pending(j) == {n \in 1..receives[j] :
                 \E d \in deliveries : d.job = j /\ d.nth = n /\ d.step # "evaluated"}

Counted == \A j \in Jobs : evaluated[j] + Cardinality(Pending(j)) <= receives[j]

(* Until the first failure every process is up, and a job is visible or in *)
(* the hands of exactly one process, until it is evaluated and deleted.    *)
Clean ==
    faults = 0 =>
      /\ \A p \in Processes : proc[p] = "up"
      /\ \A d \in deliveries : Current(d)
      /\ \A j \in Jobs : place[j] = "inFlight" => \E d \in deliveries : d.job = j
      /\ \A j \in Jobs : \/ evaluated[j] = 0
                         \/ /\ evaluated[j] = 1
                            /\ \/ place[j] = "deleted"
                               \/ \E d \in deliveries : d.job = j /\ d.step = "evaluated"

IInv == TypeOK /\ NoJobLost /\ EvaluatedOK /\ OneEach /\ Counted /\ Clean
Places == {"visible", "inFlight", "deleted", "dead"}

-----------------------------------------------------------------------------
(* Sets of receives *)

LEMMA CountLess ==
  ASSUME NEW n \in Nat, NEW S \in SUBSET (1..n), NEW T \in SUBSET S
  PROVE  /\ Cardinality(S) \in Nat /\ Cardinality(T) \in Nat
         /\ Cardinality(T) <= Cardinality(S)
  <1>1. IsFiniteSet(S)
    <2>1. IsFiniteSet(1..n)
      BY FS_Interval
    <2> QED
      BY <2>1, FS_Subset
  <1> QED
    BY <1>1, FS_Subset, FS_CardinalityType

LEMMA CountOneLess ==
  ASSUME NEW n \in Nat, NEW S \in SUBSET (1..n), NEW x \in S, NEW T \in SUBSET (S \ {x})
  PROVE  Cardinality(T) + 1 <= Cardinality(S)
  <1>1. IsFiniteSet(S)
    <2>1. IsFiniteSet(1..n)
      BY FS_Interval
    <2> QED
      BY <2>1, FS_Subset
  <1>2. IsFiniteSet(S \ {x}) /\ Cardinality(S \ {x}) = Cardinality(S) - 1
    BY <1>1, FS_RemoveElement
  <1>3. Cardinality(T) <= Cardinality(S \ {x})
    BY <1>2, FS_Subset
  <1>4. Cardinality(S) \in Nat /\ Cardinality(T) \in Nat
    BY <1>1, <1>2, FS_CardinalityType, FS_Subset
  <1> QED
    BY <1>2, <1>3, <1>4

LEMMA CountOneMore ==
  ASSUME NEW n \in Nat, NEW S \in SUBSET (1..n), NEW x, NEW T \in SUBSET (S \cup {x})
  PROVE  Cardinality(T) <= Cardinality(S) + 1
  <1>1. IsFiniteSet(S)
    <2>1. IsFiniteSet(1..n)
      BY FS_Interval
    <2> QED
      BY <2>1, FS_Subset
  <1>2. IsFiniteSet(S \cup {x}) /\ Cardinality(S \cup {x}) <= Cardinality(S) + 1
    <2>1. Cardinality(S) \in Nat
      BY <1>1, FS_CardinalityType
    <2> QED
      <3>1. /\ IsFiniteSet(S \cup {x})
            /\ Cardinality(S \cup {x}) = IF x \in S THEN Cardinality(S) ELSE Cardinality(S) + 1
        BY <1>1, FS_AddElement, Zenon
      <3> QED
        BY <2>1, <3>1
  <1>3. Cardinality(T) <= Cardinality(S \cup {x})
    BY <1>2, FS_Subset
  <1>4. Cardinality(S) \in Nat /\ Cardinality(T) \in Nat /\ Cardinality(S \cup {x}) \in Nat
    BY <1>1, <1>2, FS_CardinalityType, FS_Subset
  <1> QED
    BY <1>2, <1>3, <1>4

LEMMA Initially == Init => IInv
  <1> SUFFICES ASSUME Init PROVE IInv
    OBVIOUS
  <1>1. TypeOK
    BY JobsAssumption DEF Init, TypeOK
  <1>2. ASSUME NEW j \in Jobs
        PROVE  evaluated[j] + Cardinality(Pending(j)) <= receives[j]
    <2>1. evaluated[j] = 0 /\ receives[j] = 0 /\ Pending(j) = {}
      BY DEF Init, Pending
    <2> QED
      BY <2>1, FS_EmptySet
  <1> QED
    BY <1>1, <1>2 DEF Init, IInv, NoJobLost, EvaluatedOK, OneEach, Counted, Clean

LEMMA Types ==
  ASSUME TypeOK
  PROVE  /\ place \in [Jobs -> Places]
         /\ receives \in [Jobs -> Nat] /\ \A j \in Jobs : receives[j] <= MaxReceives
         /\ evaluated \in [Jobs -> Nat] /\ \A j \in Jobs : evaluated[j] <= MaxReceives
         /\ \A d \in deliveries : d \in Delivery /\ d.job \in Jobs /\ d.by \in Processes
                                    /\ d.nth \in 1..MaxReceives
         /\ MaxReceives \in Nat
  BY JobsAssumption DEF TypeOK, Delivery, Places

(* Every delivery that may be evaluated has been received. *)
LEMMA PendingFinite ==
  ASSUME TypeOK, NEW j \in Jobs
  PROVE  /\ Pending(j) \in SUBSET (1..receives[j])
         /\ Cardinality(Pending(j)) \in Nat
         /\ receives[j] \in Nat /\ evaluated[j] \in Nat
  <1>1. receives[j] \in Nat /\ evaluated[j] \in Nat
    BY Types
  <1>2. Pending(j) \in SUBSET (1..receives[j])
    BY DEF Pending
  <1> QED
    BY <1>1, <1>2, CountLess

-----------------------------------------------------------------------------
(* The steps that only end deliveries.  What they do to the places of the  *)
(* jobs, and whether they keep Clean, is a matter of each step.            *)
LEMMA EndsDeliveries ==
  ASSUME IInv, deliveries' \subseteq deliveries, UNCHANGED <<rigid, receives, evaluated>>,
         place' \in [Jobs -> Places],
         proc' \in [Processes -> {"up", "lastPoll", "stopping", "down"}],
         draining' \in [Processes -> SUBSET (Jobs \X (1..MaxReceives))],
         faults' \in Nat,
         \A j \in Jobs \ malformed : place'[j] = "deleted" => place[j] = "deleted" \/ evaluated[j] >= 1,
         Clean'
  PROVE  IInv'
  <1>1. /\ TypeOK /\ NoJobLost /\ EvaluatedOK /\ OneEach /\ Counted
        /\ UNCHANGED <<cloud, malformed, receives, evaluated>>
    BY DEF IInv, rigid
  <1>2. TypeOK'
    BY <1>1 DEF TypeOK, Places
  <1>3. NoJobLost'
    BY <1>1 DEF NoJobLost
  <1>4. EvaluatedOK' /\ OneEach'
    BY <1>1 DEF EvaluatedOK, OneEach
  <1>5. Counted'
    <2> SUFFICES ASSUME NEW j \in Jobs
                 PROVE  evaluated'[j] + Cardinality(Pending(j)') <= receives'[j]
      BY DEF Counted
    <2>1. Pending(j)' \in SUBSET Pending(j)
      BY <1>1 DEF Pending
    <2>2. /\ Pending(j) \in SUBSET (1..receives[j]) /\ receives[j] \in Nat /\ evaluated[j] \in Nat
          /\ evaluated[j] + Cardinality(Pending(j)) <= receives[j]
      BY <1>1, PendingFinite DEF Counted
    <2>3. /\ Cardinality(Pending(j)) \in Nat /\ Cardinality(Pending(j)') \in Nat
          /\ Cardinality(Pending(j)') <= Cardinality(Pending(j))
      BY <2>1, <2>2, CountLess
    <2> QED
      BY <1>1, <2>2, <2>3
  <1> QED
    BY <1>2, <1>3, <1>4, <1>5 DEF IInv

(* A failure, after which Clean says nothing. *)
LEMMA FaultIsUnclean ==
  ASSUME TypeOK, Fault
  PROVE  faults' \in Nat /\ Clean'
  BY DEF TypeOK, Fault, Clean

(* Until the first failure, a delivery is the only one of its job. *)
LEMMA CleanFacts ==
  ASSUME IInv, faults = 0, NEW d \in deliveries
  PROVE  /\ Current(d) /\ place[d.job] = "inFlight"
         /\ \A e \in deliveries : e.job = d.job => e = d
         /\ evaluated[d.job] = IF d.step = "evaluated" THEN 1 ELSE 0
  <1>1. /\ d.job \in Jobs /\ OneEach /\ EvaluatedOK /\ Clean
        /\ \A e \in deliveries : Current(e)
    BY Types DEF IInv, Clean
  <1>2. Current(d) /\ place[d.job] = "inFlight"
    BY <1>1 DEF Current
  <1>3. \A e \in deliveries : e.job = d.job => e = d
    BY <1>1, <1>2 DEF Current, OneEach
  <1>4. d.step = "evaluated" => evaluated[d.job] >= 1
    BY <1>1 DEF EvaluatedOK
  <1>5. evaluated[d.job] = 0 \/ (evaluated[d.job] = 1 /\ d.step = "evaluated")
    BY <1>1, <1>2, <1>3 DEF Clean
  <1> QED
    BY <1>2, <1>3, <1>4, <1>5

(* A delivery ends, and its job is not in flight any more. *)
LEMMA SettleIsClean ==
  ASSUME IInv, NEW d \in deliveries, Settle(d),
         NEW x \in Places \ {"inFlight"}, place' = [place EXCEPT ![d.job] = x],
         d.step = "evaluated" => x = "deleted",
         UNCHANGED <<receives, evaluated, proc, faults>>
  PROVE  Clean'
  <1> SUFFICES ASSUME faults = 0
               PROVE  Clean'
    BY DEF Clean
  <1>1. /\ place \in [Jobs -> Places] /\ evaluated \in [Jobs -> Nat] /\ Clean /\ d.job \in Jobs
        /\ deliveries' = deliveries \ {d}
        /\ \A e \in deliveries : e.job \in Jobs
    BY Types DEF IInv, Settle
  <1>2. /\ \A e \in deliveries : e.job = d.job => e = d
        /\ evaluated[d.job] = IF d.step = "evaluated" THEN 1 ELSE 0
    BY CleanFacts
  <1>3. \A e \in deliveries' : e \in deliveries /\ e.job # d.job /\ place'[e.job] = place[e.job]
    BY <1>1, <1>2
  <1>4. \A e \in deliveries' : Current(e)'
    BY <1>1, <1>3 DEF Clean, Current
  <1>5. \A j \in Jobs : place'[j] = "inFlight" => \E e \in deliveries' : e.job = j
    BY <1>1 DEF Clean
  <1>6. ASSUME NEW j \in Jobs
        PROVE  \/ evaluated[j] = 0
               \/ /\ evaluated[j] = 1
                  /\ \/ place'[j] = "deleted"
                     \/ \E e \in deliveries' : e.job = j /\ e.step = "evaluated"
    <2>1. CASE j = d.job
      BY <1>1, <1>2, <2>1
    <2>2. CASE j # d.job
      BY <1>1, <2>2 DEF Clean
    <2> QED
      BY <2>1, <2>2
  <1> QED
    BY <1>1, <1>4, <1>5, <1>6 DEF Clean

(* A job goes back, or stays where it is. *)
LEMMA GiveBackPlaces ==
  ASSUME TypeOK, NEW d \in deliveries, GiveBack(d)
  PROVE  /\ place' \in [Jobs -> Places]
         /\ \A j \in Jobs : place'[j] = "deleted" => place[j] = "deleted"
  BY Types DEF GiveBack, Places

LEMMA WrongRegionInv ==
  ASSUME IInv, NEW d \in deliveries, WrongRegion(d)
  PROVE  IInv'
  <1>1. /\ TypeOK /\ Settle(d) /\ GiveBack(d) /\ d.step = "running"
        /\ UNCHANGED <<rigid, receives, evaluated, proc, draining, faults>>
    BY DEF WrongRegion, IInv
  <1>2. Clean'
    <2>1. CASE faults = 0
      <3>1. place' = [place EXCEPT ![d.job] = "visible"]
        BY <1>1, <2>1, CleanFacts DEF GiveBack
      <3> QED
        BY <1>1, <3>1, SettleIsClean DEF Places
    <2>2. CASE faults # 0
      BY <1>1, <2>2 DEF Clean
    <2> QED
      BY <2>1, <2>2
  <1> QED
    BY <1>1, <1>2, GiveBackPlaces, EndsDeliveries DEF Settle, TypeOK

LEMMA CheckFailsInv ==
  ASSUME IInv, NEW d \in deliveries, CheckFails(d)
  PROVE  IInv'
  <1>1. /\ TypeOK /\ Settle(d) /\ GiveBack(d) /\ Fault
        /\ UNCHANGED <<rigid, receives, evaluated, proc, draining>>
    BY DEF CheckFails, IInv
  <1>2. faults' \in Nat /\ Clean'
    BY <1>1, FaultIsUnclean
  <1> QED
    BY <1>1, <1>2, GiveBackPlaces, EndsDeliveries DEF Settle, TypeOK

LEMMA DeleteMessageInv ==
  ASSUME IInv, NEW d \in deliveries, DeleteMessage(d)
  PROVE  IInv'
  <1>1. /\ TypeOK /\ Settle(d) /\ d.job \in Jobs /\ place \in [Jobs -> Places]
        /\ d.step = "evaluated" \/ d.job \in malformed
        /\ \/ place' = [place EXCEPT ![d.job] =
                            IF @ \in {"inFlight", "visible"} THEN "deleted" ELSE @]
           \/ ~Current(d) /\ UNCHANGED place
        /\ UNCHANGED <<rigid, receives, evaluated, proc, draining, faults>>
    BY Types DEF DeleteMessage, IInv
  <1>2. place' \in [Jobs -> Places]
    BY <1>1 DEF Places
  <1>3. \A j \in Jobs \ malformed :
           place'[j] = "deleted" => place[j] = "deleted" \/ evaluated[j] >= 1
    BY <1>1 DEF IInv, EvaluatedOK
  <1>4. Clean'
    <2>1. CASE faults = 0
      <3>1. place' = [place EXCEPT ![d.job] = "deleted"]
        BY <1>1, <2>1, CleanFacts
      <3> QED
        BY <1>1, <3>1, SettleIsClean DEF Places
    <2>2. CASE faults # 0
      BY <1>1, <2>2 DEF Clean
    <2> QED
      BY <2>1, <2>2
  <1> QED
    BY <1>1, <1>2, <1>3, <1>4, EndsDeliveries DEF Settle, TypeOK

(* A process ends, after a failure. *)
LEMMA GoneInv ==
  ASSUME IInv, NEW p \in Processes, Gone(p), UNCHANGED <<rigid, place, receives, evaluated>>,
         faults' \in Nat, Clean'
  PROVE  IInv'
  <1>1. /\ TypeOK /\ deliveries' \subseteq deliveries /\ place' \in [Jobs -> Places]
        /\ proc' \in [Processes -> {"up", "lastPoll", "stopping", "down"}]
        /\ draining' \in [Processes -> SUBSET (Jobs \X (1..MaxReceives))]
    BY DEF IInv, Gone, TypeOK, Places
  <1> QED
    BY <1>1, EndsDeliveries

LEMMA LockLostInv ==
  ASSUME IInv, NEW d \in deliveries, LockLost(d)
  PROVE  IInv'
  <1>1. TypeOK /\ d.by \in Processes /\ ~Current(d) /\ faults' = faults /\ faults \in Nat
    BY Types DEF IInv, LockLost, Refused, TypeOK
  <1>2. faults # 0
    BY <1>1, CleanFacts
  <1> QED
    BY <1>1, <1>2, GoneInv DEF LockLost, Clean

LEMMA SettleRejectsInv ==
  ASSUME IInv, NEW d \in deliveries, SettleRejects(d)
  PROVE  IInv'
  <1>1. TypeOK /\ d.by \in Processes /\ Fault
    BY Types DEF IInv, SettleRejects
  <1> QED
    BY <1>1, FaultIsUnclean, GoneInv DEF SettleRejects

(* stop, the end of the last poll, a restart *)
LEMMA ProcInv ==
  ASSUME IInv, NEW p \in Processes, Stop(p) \/ EndPoll(p) \/ Restart(p)
  PROVE  IInv'
  <1>1. /\ TypeOK /\ UNCHANGED <<rigid, place, receives, evaluated, deliveries>>
        /\ \A d \in deliveries : d.job \in Jobs /\ d.nth \in 1..MaxReceives
    BY Types DEF IInv, Stop, EndPoll, Restart
  <1>2. {<<d.job, d.nth>> : d \in HeldBy(p)} \in SUBSET (Jobs \X (1..MaxReceives))
    BY <1>1 DEF HeldBy
  <1>3. draining' \in [Processes -> SUBSET (Jobs \X (1..MaxReceives))]
    BY <1>1, <1>2 DEF Stop, EndPoll, Restart, TypeOK
  <1>4. /\ place' \in [Jobs -> Places]
        /\ proc' \in [Processes -> {"up", "lastPoll", "stopping", "down"}]
    BY <1>1 DEF Stop, EndPoll, Restart, TypeOK, Places
  <1>5. faults' \in Nat /\ Clean'
    <2>1. CASE Stop(p)
      BY <1>1, <2>1, FaultIsUnclean DEF Stop
    <2>2. CASE EndPoll(p) \/ Restart(p)
      <3>1. proc[p] # "up" /\ faults' = faults /\ faults \in Nat
        BY <1>1, <2>2 DEF EndPoll, Restart, TypeOK
      <3> QED
        BY <3>1 DEF IInv, Clean
    <2> QED
      BY <2>1, <2>2
  <1> QED
    BY <1>1, <1>3, <1>4, <1>5, EndsDeliveries

LEMMA EndsInv ==
  ASSUME IInv, NEW p \in Processes, Exit(p) \/ ForceExit(p) \/ Crash(p)
  PROVE  IInv'
  <1>1. TypeOK /\ Gone(p) /\ UNCHANGED <<rigid, place, receives, evaluated>>
    BY DEF IInv, Exit, ForceExit, Crash
  <1>2. faults' \in Nat /\ Clean'
    <2>1. CASE Exit(p)
      <3>1. proc[p] # "up" /\ faults' = faults /\ faults \in Nat
        BY <1>1, <2>1 DEF Exit, TypeOK
      <3> QED
        BY <3>1 DEF IInv, Clean
    <2>2. CASE ForceExit(p) \/ Crash(p)
      BY <1>1, <2>2, FaultIsUnclean DEF ForceExit, Crash
    <2> QED
      BY <2>1, <2>2
  <1> QED
    BY <1>1, <1>2, GoneInv

(* Until the first failure, no visibility timeout lapses, and a job that   *)
(* was evaluated is never dead.                                            *)
LEMMA QueueInv ==
  ASSUME IInv, NEW j \in Jobs, Queue(j)
  PROVE  IInv'
  <1>1. /\ TypeOK /\ place \in [Jobs -> Places]
        /\ \E x \in {"visible", "dead"} : place' = [place EXCEPT ![j] = x]
        /\ UNCHANGED <<rigid, receives, evaluated, deliveries, proc, draining>>
    BY Types DEF IInv, Queue, Lapse, Redrive
  <1>2. /\ place' \in [Jobs -> Places]
        /\ \A k \in Jobs : place'[k] = "deleted" => place[k] = "deleted"
    BY <1>1 DEF Places
  <1>3. faults' \in Nat /\ Clean'
    <2>1. CASE Lapse(j) /\ \E d \in deliveries : d.job = j /\ Current(d)
      BY <1>1, <2>1, FaultIsUnclean DEF Lapse
    <2>2. CASE Lapse(j) /\ ~\E d \in deliveries : d.job = j /\ Current(d)
      <3>1. faults' = faults /\ faults \in Nat /\ place[j] = "inFlight"
        BY <1>1, <2>2 DEF Lapse, TypeOK
      <3>2. faults # 0
        BY <2>2, <3>1 DEF IInv, Clean
      <3> QED
        BY <3>1, <3>2 DEF Clean
    <2>3. CASE Redrive(j)
      <3>1. /\ faults' = faults /\ faults \in Nat /\ place[j] = "visible"
            /\ place' = [place EXCEPT ![j] = "dead"]
        BY <1>1, <2>3 DEF Redrive, TypeOK
      <3> SUFFICES ASSUME faults = 0
                   PROVE  Clean'
        BY <3>1 DEF Clean
      <3>2. \A d \in deliveries : d.job # j /\ d.job \in Jobs
        BY <1>1, <3>1, CleanFacts, Types
      <3>3. /\ \A d \in deliveries : Current(d)'
            /\ \A k \in Jobs : place'[k] = "inFlight" => place[k] = "inFlight"
            /\ \A k \in Jobs : place[k] = "deleted" => place'[k] = "deleted"
        BY <1>1, <3>1, <3>2 DEF IInv, Clean, Current
      <3> QED
        BY <1>1, <3>3 DEF IInv, Clean
    <2> QED
      BY <2>1, <2>2, <2>3 DEF Queue
  <1> QED
    BY <1>1, <1>2, <1>3, EndsDeliveries DEF TypeOK

-----------------------------------------------------------------------------
(* A job gets its permit. *)
LEMMA StartInv ==
  ASSUME IInv, NEW d \in deliveries, Start(d)
  PROVE  IInv'
  <1> DEFINE e == [d EXCEPT !.step = "running"]
  <1>1. /\ TypeOK /\ d \in Delivery /\ d.step = "queued"
        /\ deliveries' = (deliveries \ {d}) \cup {e}
        /\ UNCHANGED <<cloud, malformed, place, receives, evaluated, proc, draining, faults>>
    BY DEF IInv, TypeOK, Start, Move, rigid
  <1>2. /\ e \in Delivery /\ e.job = d.job /\ e.nth = d.nth /\ e.step = "running"
    BY <1>1 DEF Delivery
  <1> HIDE DEF e
  <1>3. TypeOK' /\ NoJobLost'
    BY <1>1, <1>2 DEF IInv, TypeOK, NoJobLost
  <1>4. EvaluatedOK'
    BY <1>1, <1>2 DEF IInv, EvaluatedOK
  <1>5. OneEach'
    BY <1>1, <1>2 DEF IInv, OneEach
  <1>6. ASSUME NEW j \in Jobs PROVE Pending(j)' = Pending(j)
    BY <1>1, <1>2 DEF Pending
  <1>7. Counted'
    BY <1>1, <1>6 DEF IInv, Counted
  <1>8. Clean'
    <2> SUFFICES ASSUME faults = 0 PROVE Clean'
      BY <1>1 DEF Clean
    <2>1. \A x \in deliveries' : Current(x)'
      BY <1>1, <1>2 DEF IInv, Clean, Current
    <2>2. \A j \in Jobs : (\E x \in deliveries : x.job = j) => \E x \in deliveries' : x.job = j
      BY <1>1, <1>2
    <2>3. \A x \in deliveries : x.step = "evaluated" => x \in deliveries'
      BY <1>1
    <2> QED
      BY <1>1, <2>1, <2>2, <2>3 DEF IInv, Clean
  <1> QED
    BY <1>3, <1>4, <1>5, <1>7, <1>8 DEF IInv

(* A job is evaluated, once for this receive. *)
LEMMA ExecuteCheckInv ==
  ASSUME IInv, NEW d \in deliveries, ExecuteCheck(d)
  PROVE  IInv'
  <1> DEFINE e == [d EXCEPT !.step = "evaluated"]
  <1>1. /\ TypeOK /\ OneEach /\ d \in Delivery /\ d.step = "running" /\ d.job \in Jobs
        /\ deliveries' = (deliveries \ {d}) \cup {e}
        /\ evaluated' = [evaluated EXCEPT ![d.job] = @ + 1]
        /\ UNCHANGED <<cloud, malformed, place, receives, proc, draining, faults>>
    BY Types DEF IInv, TypeOK, ExecuteCheck, Move, rigid
  <1>2. /\ e \in Delivery /\ e.job = d.job /\ e.nth = d.nth /\ e.step = "evaluated"
    BY <1>1 DEF Delivery
  <1> HIDE DEF e
  <1>3. /\ evaluated \in [Jobs -> Nat] /\ receives \in [Jobs -> Nat]
        /\ \A j \in Jobs : receives[j] <= MaxReceives
        /\ MaxReceives \in Nat
    BY <1>1, Types
  <1>4. \A j \in Jobs : evaluated'[j] = IF j = d.job THEN evaluated[j] + 1 ELSE evaluated[j]
    BY <1>1, <1>3
  <1>5. Counted'
    <2> SUFFICES ASSUME NEW j \in Jobs
                 PROVE  evaluated'[j] + Cardinality(Pending(j)') <= receives'[j]
      BY DEF Counted
    <2>1. /\ Pending(j) \in SUBSET (1..receives[j]) /\ receives[j] \in Nat /\ evaluated[j] \in Nat
          /\ Cardinality(Pending(j)) \in Nat
          /\ evaluated[j] + Cardinality(Pending(j)) <= receives[j]
      BY <1>1, PendingFinite DEF IInv, Counted
    <2>2. CASE j = d.job
      <3>1. d.nth \in Pending(j)
        <4>1. d.nth \in 1..receives[j]
          BY <1>1, <2>1, <2>2 DEF OneEach, Delivery
        <4> QED
          BY <1>1, <2>2, <4>1 DEF Pending
      <3>2. Pending(j)' \in SUBSET (Pending(j) \ {d.nth})
        BY <1>1, <1>2, <2>2 DEF Pending, OneEach
      <3>3. Cardinality(Pending(j)') + 1 <= Cardinality(Pending(j))
        BY <2>1, <3>1, <3>2, CountOneLess
      <3>4. Cardinality(Pending(j)') \in Nat
        BY <2>1, <3>2, CountLess
      <3> QED
        BY <1>1, <1>4, <2>1, <2>2, <3>3, <3>4
    <2>3. CASE j # d.job
      <3>1. Pending(j)' = Pending(j)
        BY <1>1, <1>2, <2>3 DEF Pending
      <3> QED
        BY <1>1, <1>4, <2>1, <2>3, <3>1
    <2> QED
      BY <2>2, <2>3
  <1>6. TypeOK'
    <2>1. ASSUME NEW j \in Jobs PROVE evaluated'[j] \in 0..MaxReceives
      <3>1. /\ Pending(j)' \in SUBSET (1..receives'[j])
            /\ evaluated'[j] + Cardinality(Pending(j)') <= receives'[j]
        BY <1>5 DEF Counted, Pending
      <3>2. Cardinality(Pending(j)') \in Nat
        BY <1>1, <1>3, <3>1, CountLess
      <3> QED
        BY <1>1, <1>3, <1>4, <3>1, <3>2
    <2>2. evaluated' \in [Jobs -> 0..MaxReceives]
      BY <1>1, <1>3, <2>1
    <2> QED
      BY <1>1, <1>2, <2>2 DEF TypeOK
  <1>7. NoJobLost' /\ EvaluatedOK'
    BY <1>1, <1>2, <1>3, <1>4, Types DEF IInv, NoJobLost, EvaluatedOK
  <1>8. OneEach'
    BY <1>1, <1>2 DEF OneEach
  <1>9. Clean'
    <2> SUFFICES ASSUME faults = 0 PROVE Clean'
      BY <1>1 DEF Clean
    <2>1. evaluated[d.job] = 0
      BY <1>1, CleanFacts
    <2>2. \A x \in deliveries' : Current(x)'
      BY <1>1, <1>2 DEF IInv, Clean, Current
    <2>3. \A j \in Jobs : (\E x \in deliveries : x.job = j) => \E x \in deliveries' : x.job = j
      BY <1>1, <1>2
    <2>4. \A x \in deliveries : x.step = "evaluated" => x \in deliveries'
      BY <1>1
    <2>5. evaluated'[d.job] = 1 /\ e \in deliveries'
      BY <1>1, <1>4, <2>1
    <2> QED
      BY <1>1, <1>2, <1>4, <2>2, <2>3, <2>4, <2>5 DEF IInv, Clean
  <1> QED
    BY <1>5, <1>6, <1>7, <1>8, <1>9 DEF IInv

(* A poll returns a job, which nobody else has in hand until a failure.    *)
LEMMA ReceiveInv ==
  ASSUME IInv, NEW p \in Processes, NEW j \in Jobs, Receive(p, j)
  PROVE  IInv'
  <1> DEFINE e == [job |-> j, by |-> p, nth |-> receives[j] + 1, step |-> "queued"]
  <1>1. /\ TypeOK /\ OneEach /\ EvaluatedOK /\ NoJobLost
        /\ place[j] = "visible" /\ receives[j] < MaxReceives
        /\ place' = [place EXCEPT ![j] = "inFlight"]
        /\ receives' = [receives EXCEPT ![j] = @ + 1]
        /\ UNCHANGED <<cloud, malformed, evaluated, proc, draining, faults>>
    BY DEF IInv, Receive, rigid
  <1>2. PICK k : k = e
    OBVIOUS
  <1>3. /\ place \in [Jobs -> Places] /\ receives \in [Jobs -> Nat] /\ evaluated \in [Jobs -> Nat]
        /\ receives[j] \in Nat /\ MaxReceives \in Nat
        /\ \A d \in deliveries : d \in Delivery /\ d.job \in Jobs /\ d.nth \in 1..MaxReceives
    BY <1>1, Types
  <1>4. k.job = j /\ k.nth = receives[j] + 1 /\ k.step = "queued" /\ k \in Delivery
    BY <1>1, <1>2, <1>3 DEF Delivery
  <1>5. deliveries' = deliveries \cup {k}
    BY <1>2 DEF Receive
  <1> HIDE DEF e
  <1>6. /\ \A i \in Jobs : place'[i] = IF i = j THEN "inFlight" ELSE place[i]
        /\ \A i \in Jobs : receives'[i] = IF i = j THEN receives[j] + 1 ELSE receives[i]
    BY <1>1, <1>3
  <1>7. TypeOK' /\ NoJobLost' /\ EvaluatedOK'
    BY <1>1, <1>3, <1>4, <1>5, <1>6 DEF TypeOK, NoJobLost, EvaluatedOK
  <1>8. OneEach'
    BY <1>1, <1>3, <1>4, <1>5, <1>6 DEF OneEach
  <1>9. Counted'
    <2> SUFFICES ASSUME NEW i \in Jobs
                 PROVE  evaluated'[i] + Cardinality(Pending(i)') <= receives'[i]
      BY DEF Counted
    <2>1. /\ Pending(i) \in SUBSET (1..receives[i]) /\ receives[i] \in Nat /\ evaluated[i] \in Nat
          /\ Cardinality(Pending(i)) \in Nat
          /\ evaluated[i] + Cardinality(Pending(i)) <= receives[i]
      BY <1>1, PendingFinite DEF IInv, Counted
    <2>2. CASE i = j
      <3>1. Pending(i)' \in SUBSET (Pending(i) \cup {receives[j] + 1})
        BY <1>1, <1>3, <1>4, <1>5, <1>6, <2>2 DEF Pending, OneEach
      <3>2. Cardinality(Pending(i)') <= Cardinality(Pending(i)) + 1
        BY <2>1, <3>1, CountOneMore
      <3>3. Pending(i)' \in SUBSET (1..receives'[i]) /\ receives'[i] \in Nat
        BY <1>6, <2>1, <2>2 DEF Pending
      <3>4. Cardinality(Pending(i)') \in Nat
        BY <3>3, CountLess
      <3> QED
        BY <1>1, <1>6, <2>1, <2>2, <3>2, <3>4
    <2>3. CASE i # j
      <3>1. Pending(i)' = Pending(i)
        BY <1>4, <1>5, <1>6, <2>3 DEF Pending
      <3> QED
        BY <1>1, <1>6, <2>1, <2>3, <3>1
    <2> QED
      BY <2>2, <2>3
  <1>10. Clean'
    <2> SUFFICES ASSUME faults = 0 PROVE Clean'
      BY <1>1 DEF Clean
    <2>1. \A d \in deliveries : d.job # j
      BY <1>1, CleanFacts
    <2>2. \A x \in deliveries' : Current(x)'
      BY <1>3, <1>4, <1>5, <1>6, <2>1 DEF IInv, Clean, Current
    <2>3. \A i \in Jobs : place'[i] = "inFlight" => \E x \in deliveries' : x.job = i
      BY <1>4, <1>5, <1>6 DEF IInv, Clean
    <2>4. \A i \in Jobs : place[i] = "deleted" => place'[i] = "deleted"
      BY <1>1, <1>6
    <2> QED
      BY <1>1, <1>5, <2>2, <2>3, <2>4 DEF IInv, Clean
  <1> QED
    BY <1>7, <1>8, <1>9, <1>10 DEF IInv

-----------------------------------------------------------------------------
LEMMA Inductive == IInv /\ [Next]_vars => IInv'
  <1> SUFFICES ASSUME IInv, [Next]_vars PROVE IInv'
    OBVIOUS
  <1>1. ASSUME NEW p \in Processes, NEW j \in Jobs, Receive(p, j) PROVE IInv'
    BY <1>1, ReceiveInv
  <1>2. ASSUME NEW d \in deliveries, Process(d) PROVE IInv'
    BY <1>2, StartInv, WrongRegionInv, ExecuteCheckInv, DeleteMessageInv, LockLostInv DEF Process
  <1>3. ASSUME NEW d \in deliveries, CheckFails(d) \/ SettleRejects(d) PROVE IInv'
    BY <1>3, CheckFailsInv, SettleRejectsInv
  <1>4. ASSUME NEW p \in Processes,
               Stop(p) \/ EndPoll(p) \/ Exit(p) \/ ForceExit(p) \/ Crash(p) \/ Restart(p)
        PROVE  IInv'
    BY <1>4, ProcInv, EndsInv
  <1>5. ASSUME NEW j \in Jobs, Queue(j) PROVE IInv'
    BY <1>5, QueueInv
  <1>6. CASE UNCHANGED vars
    BY <1>6 DEF vars, rigid, IInv, TypeOK, NoJobLost, EvaluatedOK, OneEach, Counted, Pending,
                Clean, Current
  <1> QED
    BY <1>1, <1>2, <1>3, <1>4, <1>5, <1>6 DEF Next

LEMMA Invariance == Spec => []IInv
  BY Initially, Inductive, PTL DEF Spec

(* Whatever crashes, restarts, lapses and late deletes there are, a job of *)
(* the queue is deleted only after a worker checked it, or if it cannot be *)
(* parsed.                                                                 *)
THEOREM JobsInvHolds == Spec => []JobsInv
  <1>1. IInv => JobsInv
    BY DEF IInv, JobsInv
  <1> QED
    BY <1>1, Invariance, PTL

(* Until the first failure no result is evaluated twice, however many      *)
(* processes poll the queue.                                               *)
THEOREM EvaluatedOnceHolds == Spec => []EvaluatedOnce
  <1>1. IInv => EvaluatedOnce
    <2> SUFFICES ASSUME IInv, faults = 0, NEW j \in Jobs
                 PROVE  evaluated[j] <= 1
      BY DEF EvaluatedOnce
    <2>1. evaluated[j] = 0 \/ evaluated[j] = 1
      BY DEF IInv, Clean
    <2> QED
      BY <2>1
  <1> QED
    BY <1>1, Invariance, PTL

-----------------------------------------------------------------------------
(* The scheduler: the lock and last_checked_at neither repeat nor lose a   *)
(* check.                                                                  *)

(* A tick under way holds the lock. *)
OneTick == \A s \in Schedulers : tick[s].step # "idle" => lock = s

(* A tick with monitors found has found some. *)
FoundSome == \A s \in Schedulers : At(s, "found") => tick[s].found # {}

(* What was found is due until the same tick moves last_checked_at. *)
FoundIsDue == \A s \in Schedulers : At(s, "found") => \A m \in tick[s].found : due[m]

(* A monitor that is due has not been sent, and one in the hands of an     *)
(* instance is not due, has not been sent, and is in no other hands.       *)
NothingTwice ==
    /\ \A m \in Monitors : due[m] => sent[m] = 0
    /\ \A s \in Schedulers : \A m \in LeftOver(s) : ~due[m] /\ sent[m] = 0
    /\ \A s, t \in Schedulers : s # t => LeftOver(s) \cap LeftOver(t) = {}
    /\ \A m \in Monitors : sent[m] <= 1

InTime == OneTick /\ FoundIsDue /\ NothingTwice

LoopIInv == LoopTypeOK /\ FoundSome /\ NoCheckLost /\ (~late => InTime)

-----------------------------------------------------------------------------
LEMMA LanesPositive ==
  ASSUME NEW S \in SUBSET Monitors
  PROVE  Lanes(S) \in Nat /\ (S # {} => Lanes(S) > 0)
  <1>1. IsFiniteSet(S) /\ Cardinality(S) \in Nat
    BY SchedulerAssumption, FS_Subset, FS_CardinalityType
  <1>2. S # {} => Cardinality(S) # 0
    BY <1>1, FS_EmptySet
  <1> QED
    BY <1>1, <1>2, SchedulerAssumption DEF Lanes

LEMMA LoopInitially == LoopInit => LoopIInv
  <1> SUFFICES ASSUME LoopInit PROVE LoopIInv
    OBVIOUS
  <1>1. IdleTick.step = "idle"
        /\ IdleTick \in [step : Steps, found : SUBSET Monitors, rejected : BOOLEAN]
    BY DEF IdleTick, Steps
  <1>2. LoopTypeOK
    <2>1. due \in [Monitors -> BOOLEAN]
      BY Zenon DEF LoopInit
    <2>2. sent \in [Monitors -> 0..2] /\ lanes \in [Schedulers -> Nat]
      BY DEF LoopInit
    <2> QED
      BY <1>1, <2>1, <2>2 DEF LoopInit, LoopTypeOK
  <1>3. \A s \in Schedulers : tick[s].step = "idle" /\ LeftOver(s) = {}
    BY <1>1 DEF LoopInit, LeftOver
  <1> QED
    BY <1>2, <1>3 DEF LoopInit, LoopIInv, FoundSome, NoCheckLost, InTime, OneTick, FoundIsDue,
                      NothingTwice, At

(* A step that leaves due, sent and the hands of the instances alone, and  *)
(* moves the tick of one instance on.                                      *)
LEMMA QuietStep ==
  ASSUME LoopIInv, NEW s \in Schedulers,
         NEW k \in [step : Steps, found : SUBSET Monitors, rejected : BOOLEAN],
         tick' = [tick EXCEPT ![s] = k],
         k.step = "found" => k.found # {} /\ \A m \in k.found : due[m],
         lock' \in Schedulers \cup {Free, Stale},
         ~late => \A t \in Schedulers : tick'[t].step # "idle" => lock' = t,
         UNCHANGED <<due, sent, todo, lanes, late, loopFaults>>
  PROVE  LoopIInv'
  <1>1. \A t \in Schedulers : tick'[t] = IF t = s THEN k ELSE tick[t]
    BY DEF LoopIInv, LoopTypeOK
  <1>2. LoopTypeOK'
    BY DEF LoopIInv, LoopTypeOK
  <1>3. FoundSome' /\ (~late' => FoundIsDue')
    BY <1>1 DEF LoopIInv, FoundSome, InTime, FoundIsDue, At
  <1>4. NoCheckLost' /\ (~late' => NothingTwice')
    BY DEF LoopIInv, NoCheckLost, InTime, NothingTwice, LeftOver
  <1>5. ~late' => OneTick'
    BY DEF OneTick
  <1> QED
    BY <1>2, <1>3, <1>4, <1>5 DEF LoopIInv, InTime

LEMMA AcquireInv ==
  ASSUME LoopIInv, NEW s \in Schedulers, Acquire(s)
  PROVE  LoopIInv'
  <1> DEFINE k == [tick[s] EXCEPT !.step = "locked"]
  <1>1. /\ k \in [step : Steps, found : SUBSET Monitors, rejected : BOOLEAN]
        /\ k.step = "locked" /\ tick' = [tick EXCEPT ![s] = k]
    BY DEF Acquire, Goto, LoopIInv, LoopTypeOK, Steps
  <1>2. ~late => \A t \in Schedulers : tick[t].step = "idle"
    BY SchedulerAssumption DEF Acquire, LoopIInv, InTime, OneTick
  <1>3. ~late => \A t \in Schedulers : tick'[t].step # "idle" => lock' = t
    BY <1>1, <1>2 DEF Acquire, LoopIInv, LoopTypeOK
  <1> QED
    BY <1>1, <1>3, QuietStep DEF Acquire

LEMMA FindDueInv ==
  ASSUME LoopIInv, NEW s \in Schedulers, FindDue(s)
  PROVE  LoopIInv'
  <1> DEFINE found == {m \in Monitors : due[m]}
             k == [tick[s] EXCEPT !.step = IF found = {} THEN "release" ELSE "found",
                                  !.found = found]
  <1>1. /\ k \in [step : Steps, found : SUBSET Monitors, rejected : BOOLEAN]
        /\ k.found = found /\ (k.step = "found" => found # {})
        /\ tick' = [tick EXCEPT ![s] = k]
    BY DEF FindDue, LoopIInv, LoopTypeOK, Steps
  <1>2. ~late => \A t \in Schedulers : tick'[t].step # "idle" => lock' = t
    BY DEF FindDue, At, LoopIInv, LoopTypeOK, InTime, OneTick
  <1> QED
    BY <1>1, <1>2, QuietStep, ZenonT(40) DEF FindDue, LoopIInv, LoopTypeOK

LEMMA EndingInv ==
  ASSUME LoopIInv, NEW s \in Schedulers, EndSending(s) \/ CheckOwner(s) \/ Release(s)
  PROVE  LoopIInv'
  <1>1. PICK k \in [step : Steps, found : SUBSET Monitors, rejected : BOOLEAN] :
          /\ tick' = [tick EXCEPT ![s] = k]
          /\ k.step # "found"
          /\ Release(s) => k.step = "idle"
    <2>1. CASE EndSending(s)
      <3> DEFINE k == [tick[s] EXCEPT !.step = "release"]
      <3>1. /\ k \in [step : Steps, found : SUBSET Monitors, rejected : BOOLEAN]
            /\ k.step = "release" /\ ~Release(s)
        BY <2>1 DEF EndSending, Release, At, LoopIInv, LoopTypeOK, Steps
      <3>2. tick' = [tick EXCEPT ![s] = k]
        BY <2>1 DEF EndSending, Goto
      <3> QED
        BY <3>1, <3>2
    <2>2. CASE CheckOwner(s)
      <3> DEFINE k == [IdleTick EXCEPT !.step = IF lock = s THEN "owned" ELSE "idle"]
      <3>1. /\ k \in [step : Steps, found : SUBSET Monitors, rejected : BOOLEAN]
            /\ k.step \in {"owned", "idle"} /\ ~Release(s)
        BY <2>2 DEF CheckOwner, Release, At, IdleTick, Steps
      <3>2. tick' = [tick EXCEPT ![s] = k]
        BY <2>2 DEF CheckOwner
      <3> QED
        BY <3>1, <3>2
    <2>3. CASE Release(s)
      <3> DEFINE k == [tick[s] EXCEPT !.step = "idle"]
      <3>1. /\ k \in [step : Steps, found : SUBSET Monitors, rejected : BOOLEAN]
            /\ k.step = "idle"
        BY DEF LoopIInv, LoopTypeOK, Steps
      <3>2. tick' = [tick EXCEPT ![s] = k]
        BY <2>3 DEF Release, Goto
      <3> QED
        BY <3>1, <3>2
    <2> QED
      BY <2>1, <2>2, <2>3
  <1>2. /\ lock' \in Schedulers \cup {Free, Stale}
        /\ UNCHANGED <<due, sent, todo, lanes, late, loopFaults>>
    BY DEF EndSending, CheckOwner, Release, LoopIInv, LoopTypeOK
  <1>3. ~late => \A t \in Schedulers : tick'[t].step # "idle" => lock' = t
    BY <1>1 DEF EndSending, CheckOwner, Release, At, LoopIInv, LoopTypeOK, InTime, OneTick
  <1> QED
    BY <1>1, <1>2, <1>3, QuietStep

LEMMA UpdateLastCheckedAtInv ==
  ASSUME LoopIInv, NEW s \in Schedulers, UpdateLastCheckedAt(s)
  PROVE  LoopIInv'
  <1> DEFINE found == tick[s].found
             k == [tick[s] EXCEPT !.step = "sending"]
             n == Lanes(found) + IF LeftOver(s) = {} THEN 0 ELSE lanes[s]
  <1>1. /\ found \in SUBSET Monitors /\ found # {} /\ lanes[s] \in Nat
        /\ k \in [step : Steps, found : SUBSET Monitors, rejected : BOOLEAN]
        /\ k.step = "sending" /\ tick' = [tick EXCEPT ![s] = k]
    BY DEF UpdateLastCheckedAt, Goto, LoopIInv, LoopTypeOK, FoundSome, Steps
  <1>2. n \in Nat /\ n > 0
    BY <1>1, LanesPositive
  <1>3. LeftOver(s) \in SUBSET Monitors
    BY DEF LeftOver, LoopIInv, LoopTypeOK
  <1>4. /\ due' = [m \in Monitors |-> due[m] /\ m \notin found]
        /\ todo' = [todo EXCEPT ![s] = LeftOver(s) \cup found]
        /\ lanes' = [lanes EXCEPT ![s] = n]
        /\ UNCHANGED <<lock, sent, late, loopFaults>>
    BY DEF UpdateLastCheckedAt
  <1> HIDE DEF n, k
  <1>5. LoopTypeOK'
    BY <1>1, <1>2, <1>3, <1>4 DEF LoopIInv, LoopTypeOK
  <1>6. \A t \in Schedulers : tick'[t] = IF t = s THEN k ELSE tick[t]
    BY <1>1 DEF LoopIInv, LoopTypeOK
  <1>7. \A t \in Schedulers :
           LeftOver(t)' = IF t = s THEN LeftOver(s) \cup found ELSE LeftOver(t)
    BY <1>2, <1>4 DEF LoopIInv, LoopTypeOK, LeftOver
  <1>8. FoundSome'
    BY <1>1, <1>6 DEF LoopIInv, FoundSome, At
  <1>9. NoCheckLost'
    BY <1>4, <1>7 DEF LoopIInv, LoopTypeOK, NoCheckLost
  <1>10. ASSUME ~late PROVE InTime'
    <2>1. OneTick'
      BY <1>1, <1>4, <1>6, <1>10 DEF UpdateLastCheckedAt, At, LoopIInv, InTime, OneTick
    <2>2. \A t \in Schedulers : t # s => tick[t].step # "found"
      BY <1>10 DEF UpdateLastCheckedAt, At, LoopIInv, InTime, OneTick
    <2>3. FoundIsDue'
      BY <1>1, <1>6, <2>2 DEF FoundIsDue, At
    <2>4. \A m \in found : due[m] /\ sent[m] = 0
      BY <1>1, <1>10 DEF UpdateLastCheckedAt, LoopIInv, InTime, FoundIsDue, NothingTwice
    <2>5. \A m \in Monitors : due'[m] => sent'[m] = 0
      BY <1>4, <1>10 DEF LoopIInv, InTime, NothingTwice
    <2>6. \A t \in Schedulers : \A m \in LeftOver(t)' : ~due'[m] /\ sent'[m] = 0
      <3> SUFFICES ASSUME NEW t \in Schedulers, NEW m \in LeftOver(t)'
                   PROVE  ~due'[m] /\ sent'[m] = 0
        OBVIOUS
      <3>1. CASE m \in found
        BY <1>1, <1>4, <2>4, <3>1
      <3>2. CASE m \notin found
        <4>1. m \in LeftOver(t) /\ m \in Monitors
          BY <1>7, <3>2 DEF LeftOver, LoopIInv, LoopTypeOK
        <4> QED
          BY <1>4, <1>10, <4>1 DEF LoopIInv, InTime, NothingTwice
      <3> QED
        BY <3>1, <3>2
    <2>7. \A t \in Schedulers : t # s => found \cap LeftOver(t) = {}
      BY <1>10, <2>4 DEF LoopIInv, InTime, NothingTwice
    <2>8. \A t, u \in Schedulers : t # u => LeftOver(t)' \cap LeftOver(u)' = {}
      BY <1>7, <1>10, <2>7 DEF LoopIInv, InTime, NothingTwice
    <2> QED
      BY <1>4, <1>10, <2>1, <2>3, <2>5, <2>6, <2>8 DEF LoopIInv, InTime, NothingTwice
  <1> QED
    BY <1>4, <1>5, <1>8, <1>9, <1>10 DEF LoopIInv

(* A lane of s is done with m, whether or not its jobs were accepted. *)
LEMMA LaneStep ==
  ASSUME LoopIInv, NEW s \in Schedulers, NEW m \in Monitors,
         EnqueueChecks(s, m) \/ EnqueueFails(s, m)
  PROVE  LoopIInv'
  <1>1. /\ m \in todo[s] /\ lanes[s] > 0 /\ m \in LeftOver(s)
        /\ todo' = [todo EXCEPT ![s] = @ \ {m}]
        /\ UNCHANGED <<lock, due, late>>
    BY DEF EnqueueChecks, EnqueueFails, LeftOver, LoopIInv, LoopTypeOK
  <1>2. /\ lanes' \in [Schedulers -> Nat]
        /\ \A t \in Schedulers : t # s => lanes'[t] = lanes[t]
        /\ EnqueueChecks(s, m) => lanes' = lanes
    BY <1>1 DEF EnqueueChecks, EnqueueFails, LoopIInv, LoopTypeOK
  <1>3. /\ sent' \in [Monitors -> 0..2]
        /\ \A k \in Monitors : k # m => sent'[k] = sent[k]
        /\ sent'[m] <= sent[m] + 1 /\ sent'[m] >= sent[m]
        /\ EnqueueChecks(s, m) => sent'[m] >= 1
    <2>1. sent \in [Monitors -> 0..2]
      BY DEF LoopIInv, LoopTypeOK
    <2>2. CASE Count(m)
      BY <2>1, <2>2 DEF Count
    <2>3. CASE EnqueueFails(s, m) /\ UNCHANGED sent
      BY <2>1, <2>3, <1>1 DEF EnqueueFails, EnqueueChecks, LoopIInv, LoopTypeOK
    <2> QED
      BY <2>2, <2>3 DEF EnqueueChecks, EnqueueFails
  <1>4. /\ tick' \in [Schedulers -> [step : Steps, found : SUBSET Monitors, rejected : BOOLEAN]]
        /\ \A t \in Schedulers : tick'[t].step = tick[t].step /\ tick'[t].found = tick[t].found
    <2>1. CASE EnqueueChecks(s, m)
      BY <2>1 DEF EnqueueChecks, LoopIInv, LoopTypeOK
    <2>2. CASE EnqueueFails(s, m)
      <3> DEFINE k == [tick[s] EXCEPT !.rejected = At(s, "sending")]
      <3>1. k \in [step : Steps, found : SUBSET Monitors, rejected : BOOLEAN]
            /\ k.step = tick[s].step /\ k.found = tick[s].found
        BY DEF At, LoopIInv, LoopTypeOK
      <3>2. tick' = [tick EXCEPT ![s] = k]
        BY <2>2 DEF EnqueueFails
      <3> HIDE DEF k
      <3> QED
        BY <3>1, <3>2 DEF LoopIInv, LoopTypeOK
    <2> QED
      BY <2>1, <2>2
  <1>5. loopFaults' \in Nat /\ (loopFaults' = 0 => EnqueueChecks(s, m) /\ loopFaults = 0)
    BY DEF EnqueueChecks, EnqueueFails, LoopIInv, LoopTypeOK
  <1>6. LoopTypeOK'
    BY <1>1, <1>2, <1>3, <1>4, <1>5 DEF LoopIInv, LoopTypeOK
  <1>7. \A t \in Schedulers :
           /\ LeftOver(t)' \subseteq LeftOver(t) \ (IF t = s THEN {m} ELSE {})
           /\ EnqueueChecks(s, m) => LeftOver(t) \subseteq LeftOver(t)' \cup {m}
    <2>1. \A t \in Schedulers : todo'[t] = IF t = s THEN todo[s] \ {m} ELSE todo[t]
      BY <1>1 DEF LoopIInv, LoopTypeOK
    <2> QED
      BY <1>1, <1>2, <2>1 DEF LeftOver
  <1>8. FoundSome'
    BY <1>4 DEF LoopIInv, FoundSome, At
  <1>9. NoCheckLost'
    BY <1>1, <1>3, <1>5, <1>7 DEF LoopIInv, NoCheckLost, LoopTypeOK
  <1>10. ASSUME ~late PROVE InTime'
    <2>1. OneTick' /\ FoundIsDue'
      BY <1>1, <1>4, <1>10 DEF LoopIInv, InTime, OneTick, FoundIsDue, At
    <2>2. ~due[m] /\ sent[m] = 0 /\ \A t \in Schedulers : t # s => m \notin LeftOver(t)
      BY <1>1, <1>10 DEF LoopIInv, InTime, NothingTwice
    <2>3. \A k \in Monitors : (due'[k] => sent'[k] = 0) /\ sent'[k] <= 1
      BY <1>1, <1>3, <1>10, <2>2 DEF LoopIInv, LoopTypeOK, InTime, NothingTwice
    <2>4. \A t \in Schedulers : m \notin LeftOver(t)' /\ LeftOver(t)' \subseteq LeftOver(t)
      BY <1>7, <2>2
    <2>5. \A t \in Schedulers : LeftOver(t) \subseteq Monitors
      BY DEF LoopIInv, LoopTypeOK, LeftOver
    <2>6. \A t \in Schedulers : \A k \in LeftOver(t)' : ~due'[k] /\ sent'[k] = 0
      BY <1>1, <1>3, <1>10, <2>4, <2>5 DEF LoopIInv, InTime, NothingTwice
    <2>7. \A t, u \in Schedulers : t # u => LeftOver(t)' \cap LeftOver(u)' = {}
      BY <1>10, <2>4 DEF LoopIInv, InTime, NothingTwice
    <2> QED
      BY <2>1, <2>3, <2>6, <2>7 DEF InTime, NothingTwice
  <1> QED
    BY <1>1, <1>6, <1>8, <1>9, <1>10 DEF LoopIInv

LEMMA DieInv ==
  ASSUME LoopIInv, NEW s \in Schedulers, Die(s)
  PROVE  LoopIInv'
  <1>1. /\ IdleTick.step = "idle" /\ IdleTick.found = {}
        /\ IdleTick \in [step : Steps, found : SUBSET Monitors, rejected : BOOLEAN]
    BY DEF IdleTick, Steps
  <1>2. loopFaults' \in Nat /\ loopFaults' # 0
    BY DEF Die, LoopIInv, LoopTypeOK
  <1>3. LoopTypeOK'
    BY <1>1, <1>2 DEF Die, LoopIInv, LoopTypeOK
  <1>4. \A t \in Schedulers : tick'[t] = IF t = s THEN IdleTick ELSE tick[t]
    BY DEF Die, LoopIInv, LoopTypeOK
  <1>5. \A t \in Schedulers : LeftOver(t)' = IF t = s THEN {} ELSE LeftOver(t)
    BY DEF Die, LoopIInv, LoopTypeOK, LeftOver
  <1>6. FoundSome' /\ NoCheckLost'
    BY <1>1, <1>2, <1>4 DEF LoopIInv, FoundSome, NoCheckLost, At
  <1>7. ~late' => InTime'
    <2>1. ~late => OneTick' /\ FoundIsDue'
      BY <1>1, <1>4 DEF Die, LoopIInv, InTime, OneTick, FoundIsDue, At
    <2>2. ~late => NothingTwice'
      BY <1>5 DEF Die, LoopIInv, InTime, NothingTwice
    <2> QED
      BY <2>1, <2>2 DEF Die, InTime
  <1> QED
    BY <1>3, <1>6, <1>7 DEF LoopIInv

LEMMA ExpireInv ==
  ASSUME LoopIInv, Expire
  PROVE  LoopIInv'
  <1>1. LoopTypeOK' /\ FoundSome' /\ NoCheckLost'
    BY DEF Expire, LoopIInv, LoopTypeOK, FoundSome, NoCheckLost, LeftOver, At
  <1>2. ASSUME ~late' PROVE InTime'
    <2>1. ~late /\ lock = Stale
      BY <1>2 DEF Expire
    <2>2. OneTick'
      BY <2>1, SchedulerAssumption DEF Expire, LoopIInv, InTime, OneTick
    <2> QED
      BY <2>1, <2>2 DEF Expire, LoopIInv, InTime, FoundIsDue, NothingTwice, LeftOver, At
  <1> QED
    BY <1>1, <1>2 DEF LoopIInv

LEMMA BecomeDueInv ==
  ASSUME LoopIInv, NEW m \in Monitors, BecomeDue(m)
  PROVE  LoopIInv'
  <1>1. LoopTypeOK' /\ FoundSome'
    BY DEF BecomeDue, LoopIInv, LoopTypeOK, FoundSome, At
  <1>2. NoCheckLost'
    BY DEF BecomeDue, LoopIInv, LoopTypeOK, NoCheckLost, LeftOver
  <1>3. ASSUME ~late' PROVE InTime'
    <2>1. ~late /\ \A s \in Schedulers : m \notin LeftOver(s)
      BY <1>3 DEF BecomeDue, InHand
    <2>2. OneTick' /\ FoundIsDue'
      BY <2>1 DEF BecomeDue, LoopIInv, LoopTypeOK, InTime, OneTick, FoundIsDue, At
    <2>3. \A s \in Schedulers : LeftOver(s)' = LeftOver(s) /\ LeftOver(s) \subseteq Monitors
      BY DEF BecomeDue, LeftOver, LoopIInv, LoopTypeOK
    <2>4. \A k \in Monitors : /\ k # m => due'[k] = due[k] /\ sent'[k] = sent[k]
                              /\ k = m => sent'[k] = 0
      BY DEF BecomeDue, LoopIInv, LoopTypeOK
    <2>5. NothingTwice
      BY <2>1 DEF LoopIInv, InTime
    <2>6. ASSUME NEW k \in Monitors PROVE (due'[k] => sent'[k] = 0) /\ sent'[k] <= 1
      <3>1. CASE k = m
        BY <2>4, <3>1
      <3>2. CASE k # m
        <4>1. due'[k] = due[k] /\ sent'[k] = sent[k]
          BY <2>4, <3>2
        <4> QED
          BY <2>5, <4>1 DEF NothingTwice
      <3> QED
        BY <3>1, <3>2
    <2>7. \A s \in Schedulers : \A k \in LeftOver(s)' : ~due'[k] /\ sent'[k] = 0
      BY <2>1, <2>3, <2>4, <2>5 DEF NothingTwice
    <2>8. \A s, t \in Schedulers : s # t => LeftOver(s)' \cap LeftOver(t)' = {}
      BY <2>3, <2>5 DEF NothingTwice
    <2> QED
      BY <2>2, <2>6, <2>7, <2>8 DEF InTime, NothingTwice
  <1> QED
    BY <1>1, <1>2, <1>3 DEF LoopIInv

LEMMA LoopInductive == LoopIInv /\ [LoopNext]_loopVars => LoopIInv'
  <1> SUFFICES ASSUME LoopIInv, [LoopNext]_loopVars PROVE LoopIInv'
    OBVIOUS
  <1>1. ASSUME NEW s \in Schedulers, Tick(s) PROVE LoopIInv'
    BY <1>1, AcquireInv, FindDueInv, UpdateLastCheckedAtInv, LaneStep, EndingInv DEF Tick
  <1>2. ASSUME NEW s \in Schedulers, Die(s) PROVE LoopIInv'
    BY <1>2, DieInv
  <1>3. ASSUME NEW s \in Schedulers, NEW m \in Monitors, EnqueueFails(s, m) PROVE LoopIInv'
    BY <1>3, LaneStep
  <1>4. CASE Expire
    BY <1>4, ExpireInv
  <1>5. ASSUME NEW m \in Monitors, BecomeDue(m) PROVE LoopIInv'
    BY <1>5, BecomeDueInv
  <1>6. CASE UNCHANGED loopVars
    BY <1>6 DEF loopVars, LoopIInv, LoopTypeOK, FoundSome, NoCheckLost, InTime, OneTick, FoundIsDue,
                NothingTwice, LeftOver, At
  <1> QED
    BY <1>1, <1>2, <1>3, <1>4, <1>5, <1>6 DEF LoopNext

LEMMA LoopInvariance == LoopSpec => []LoopIInv
  BY LoopInitially, LoopInductive, PTL DEF LoopSpec

(* A monitor is checked at most once in an interval as long as ticks end   *)
(* within the lock's time to live, and as long as nothing failed none      *)
(* whose last_checked_at was moved is forgotten (tick).                    *)
THEOREM SchedulerInvHolds == LoopSpec => []SchedulerInv
  <1>1. LoopIInv => SchedulerInv
    BY DEF LoopIInv, InTime, NothingTwice, SchedulerInv, CheckedOnce
  <1> QED
    BY <1>1, LoopInvariance, PTL
=============================================================================
