------------------------------ MODULE CheckJobs ------------------------------
(***************************************************************************)
(* Check jobs from the queue to their end: worker processes poll SQS or    *)
(* Azure Service Bus, run the jobs under a semaphore, delete them or give  *)
(* them back, and stop, are killed and start again.  The queue counts      *)
(* receives and moves a job to the dead letter queue after MaxReceives of  *)
(* them.  With SQS a late delete may still work and a late give back is an *)
(* error that is ignored; Service Bus refuses both once the lock is lost,  *)
(* and AzureCheckWorker lets the second error end the process.             *)
(***************************************************************************)
EXTENDS Naturals, FiniteSets

CONSTANTS
    Processes,        \* worker processes
    Jobs,             \* check jobs on the queue
    RegionOf,         \* WORKER_REGION of a process
    JobRegion,        \* the region a job is for
    Clouds,           \* the values of CLOUD: "aws", "azure"
    Malformed,        \* sets of jobs that may be unparseable
    MaxConcurrency,   \* WORKER_MAX_CONCURRENCY
    MaxReceives,      \* maxReceiveCount of the queue
    MaxFaults,        \* failures, lapses and exits of processes (a bound)
    TimersFire        \* are the processes up for longer than forceExit's 30 s?

ASSUME JobsAssumption ==
    /\ MaxConcurrency \in Nat \ {0} /\ MaxReceives \in Nat \ {0}
    /\ MaxFaults \in Nat
    /\ TimersFire \in BOOLEAN
    /\ Clouds \subseteq {"aws", "azure"} /\ Malformed \subseteq SUBSET Jobs

VARIABLES
    cloud,        \* of all processes and of the queue; never changes
    malformed,    \* jobs that are no JSON; never changes
    place,        \* where a job is
    receives,     \* how often it was received
    evaluated,    \* how often a worker has checked and evaluated it
    deliveries,   \* the jobs in the hands of processes
    proc,         \* the state of a process
    draining,     \* the deliveries whose end disconnect() awaits
    faults

rigid == <<cloud, malformed>>
vars == <<rigid, place, receives, evaluated, deliveries, proc, draining, faults>>

(* A delivery: the nth receive of a job.  Its receipt handle is current as *)
(* long as the job was not received again.                                 *)
Delivery == [job : Jobs, by : Processes, nth : 1..MaxReceives,
             step : {"queued", "running", "evaluated"}]

TypeOK ==
    /\ cloud \in Clouds /\ malformed \in Malformed
    /\ place \in [Jobs -> {"visible", "inFlight", "deleted", "dead"}]
    /\ receives \in [Jobs -> 0..MaxReceives]
    /\ evaluated \in [Jobs -> 0..MaxReceives]
    /\ deliveries \subseteq Delivery
    /\ proc \in [Processes -> {"up", "lastPoll", "stopping", "down"}]
    /\ draining \in [Processes -> SUBSET (Jobs \X (1..MaxReceives))]
    /\ faults \in Nat

Init ==
    /\ cloud \in Clouds /\ malformed \in Malformed
    /\ place = [j \in Jobs |-> "visible"]
    /\ receives = [j \in Jobs |-> 0]
    /\ evaluated = [j \in Jobs |-> 0]
    /\ deliveries = {}
    /\ proc = [p \in Processes |-> "up"]
    /\ draining = [p \in Processes |-> {}]
    /\ faults = 0

Current(d)  == place[d.job] = "inFlight" /\ d.nth = receives[d.job]
HeldBy(p)   == {d \in deliveries : d.by = p}
RunningOn(p) == {d \in HeldBy(p) : d.step # "queued"}
Foreign(d)   == d.job \notin malformed /\ RegionOf[d.by] # JobRegion[d.job]
Ours(d)      == d.job \notin malformed /\ RegionOf[d.by] = JobRegion[d.job]
Move(d, s)  == deliveries' = (deliveries \ {d}) \cup {[d EXCEPT !.step = s]}
Settle(d)   == deliveries' = deliveries \ {d}

(* The process is gone, with every job it had in hand. *)
Gone(p) ==
    /\ deliveries' = deliveries \ HeldBy(p)
    /\ proc' = [proc EXCEPT ![p] = "down"]
    /\ draining' = [draining EXCEPT ![p] = {}]

Fault == faults < MaxFaults /\ faults' = faults + 1

-----------------------------------------------------------------------------
(* Mutant: a poll that leaves the job visible to others. *)
ReceiveVisible(p, j) ==
    /\ proc[p] \in {"up", "lastPoll"}
    /\ place[j] = "visible" /\ receives[j] < MaxReceives
    /\ receives' = [receives EXCEPT ![j] = @ + 1]
    /\ deliveries' = deliveries \cup
                       {[job |-> j, by |-> p, nth |-> receives[j] + 1, step |-> "queued"]}
    /\ UNCHANGED <<rigid, place, evaluated, proc, draining, faults>>

(* poll: the job is in flight and waits for a permit of the semaphore.  A  *)
(* process that was told to stop still gets what its last long poll        *)
(* returns.                                                                *)
Receive(p, j) ==
    /\ proc[p] \in {"up", "lastPoll"}
    /\ place[j] = "visible" /\ receives[j] < MaxReceives
    /\ place' = [place EXCEPT ![j] = "inFlight"]
    /\ receives' = [receives EXCEPT ![j] = @ + 1]
    /\ deliveries' = deliveries \cup
                       {[job |-> j, by |-> p, nth |-> receives[j] + 1, step |-> "queued"]}
    /\ UNCHANGED <<rigid, evaluated, proc, draining, faults>>

(* semaphore.run *)
Start(d) ==
    /\ d.step = "queued"
    /\ Cardinality(RunningOn(d.by)) < MaxConcurrency
    /\ Move(d, "running")
    /\ UNCHANGED <<rigid, place, receives, evaluated, proc, draining, faults>>

(* Service Bus: the lock is lost, complete and abandon are refused. *)
Refused(d) == cloud = "azure" /\ ~Current(d)

(* ChangeMessageVisibility to 0, or an error that is ignored: the job is   *)
(* back if the handle is still current.                                    *)
GiveBack(d) == place' = [place EXCEPT ![d.job] = IF Current(d) THEN "visible" ELSE @]

(* Mutant: a job of another region is deleted. *)
DropWrongRegion(d) ==
    /\ d.step = "running" /\ Foreign(d) /\ ~Refused(d)
    /\ place' = [place EXCEPT ![d.job] = IF Current(d) THEN "deleted" ELSE @]
    /\ Settle(d)
    /\ UNCHANGED <<rigid, receives, evaluated, proc, draining, faults>>

(* Mutant: the permit is not released. *)
WrongRegionLeaks(d) ==
    /\ d.step = "running" /\ Foreign(d) /\ ~Refused(d)
    /\ GiveBack(d)
    /\ UNCHANGED <<rigid, receives, evaluated, deliveries, proc, draining, faults>>

WrongRegion(d) ==
    /\ d.step = "running" /\ Foreign(d) /\ ~Refused(d)
    /\ GiveBack(d)
    /\ Settle(d)
    /\ UNCHANGED <<rigid, receives, evaluated, proc, draining, faults>>

(* executeCheck: the check never throws, so it ends with an evaluation.    *)
ExecuteCheck(d) ==
    /\ d.step = "running" /\ Ours(d)
    /\ evaluated' = [evaluated EXCEPT ![d.job] = @ + 1]
    /\ Move(d, "evaluated")
    /\ UNCHANGED <<rigid, place, receives, proc, draining, faults>>

(* deleteMessage, after the evaluation or of a job that cannot be parsed:  *)
(* with SQS a handle that is not current any more may still work.          *)
DeleteMessage(d) ==
    /\ d.step = "evaluated" \/ (d.step = "running" /\ d.job \in malformed)
    /\ ~Refused(d)
    /\ \/ place' = [place EXCEPT ![d.job] =
                      IF @ \in {"inFlight", "visible"} THEN "deleted" ELSE @]
       \/ ~Current(d) /\ UNCHANGED place
    /\ Settle(d)
    /\ UNCHANGED <<rigid, receives, evaluated, proc, draining, faults>>

(* An exception in executeCheck, or in the delete after it: the job is     *)
(* given back, even if it was evaluated.                                   *)
CheckFails(d) ==
    /\ d.step \in {"running", "evaluated"} /\ Ours(d) /\ ~Refused(d)
    /\ Fault
    /\ GiveBack(d)
    /\ Settle(d)
    /\ UNCHANGED <<rigid, receives, evaluated, proc, draining>>

(* The delete is refused and then the abandon, outside any try: the job    *)
(* rejects, and unhandledRejection ends the process.                       *)
LockLost(d) ==
    /\ d.step = "evaluated" \/ (d.step = "running" /\ ~Ours(d))
    /\ Refused(d)
    /\ Gone(d.by)
    /\ UNCHANGED <<rigid, place, receives, evaluated, faults>>

(* So does an abandon, or the delete of an unparseable job, that fails.    *)
SettleRejects(d) ==
    /\ d.step # "queued" /\ (cloud = "azure" \/ d.job \in malformed)
    /\ Fault
    /\ Gone(d.by)
    /\ UNCHANGED <<rigid, place, receives, evaluated>>

-----------------------------------------------------------------------------
(* stop() and disconnect(): the jobs that are active now are awaited.      *)
Stop(p) ==
    /\ proc[p] = "up"
    /\ Fault
    /\ proc' = [proc EXCEPT ![p] = "lastPoll"]
    /\ draining' = [draining EXCEPT ![p] = {<<d.job, d.nth>> : d \in HeldBy(p)}]
    /\ UNCHANGED <<rigid, place, receives, evaluated, deliveries>>

(* The long poll that was under way has returned and start() ends. *)
EndPoll(p) ==
    /\ proc[p] = "lastPoll"
    /\ proc' = [proc EXCEPT ![p] = "stopping"]
    /\ UNCHANGED <<rigid, place, receives, evaluated, deliveries, draining, faults>>

Drained(p) == \A d \in HeldBy(p) : <<d.job, d.nth>> \notin draining[p]

(* The drained process exits; a job of the last poll goes with it. *)
Exit(p) ==
    /\ proc[p] \in {"lastPoll", "stopping"}
    /\ Drained(p)
    /\ Gone(p)
    /\ UNCHANGED <<rigid, place, receives, evaluated, faults>>

(* The forceExit timer, which is armed when the process starts. *)
ForceExit(p) ==
    /\ TimersFire /\ proc[p] # "down"
    /\ Fault
    /\ Gone(p)
    /\ UNCHANGED <<rigid, place, receives, evaluated>>

(* A job that waits 60 s for its permit rejects, nothing handles that, and *)
(* unhandledRejection exits; so does a crash.                              *)
Crash(p) ==
    /\ proc[p] # "down"
    /\ Fault
    /\ Gone(p)
    /\ UNCHANGED <<rigid, place, receives, evaluated>>

Restart(p) ==
    /\ proc[p] = "down"
    /\ proc' = [proc EXCEPT ![p] = "up"]
    /\ UNCHANGED <<rigid, place, receives, evaluated, deliveries, draining, faults>>

-----------------------------------------------------------------------------
(* The queue *)

(* VisibilityTimeout: nobody gave the job back, or it takes too long.      *)
Lapse(j) ==
    /\ place[j] = "inFlight"
    /\ IF \E d \in deliveries : d.job = j /\ Current(d) THEN Fault ELSE UNCHANGED faults
    /\ place' = [place EXCEPT ![j] = "visible"]
    /\ UNCHANGED <<rigid, receives, evaluated, deliveries, proc, draining>>

Redrive(j) ==
    /\ place[j] = "visible" /\ receives[j] = MaxReceives
    /\ place' = [place EXCEPT ![j] = "dead"]
    /\ UNCHANGED <<rigid, receives, evaluated, deliveries, proc, draining, faults>>

-----------------------------------------------------------------------------
Process(d) == Start(d) \/ WrongRegion(d) \/ ExecuteCheck(d) \/ DeleteMessage(d) \/ LockLost(d)

Queue(j) == Lapse(j) \/ Redrive(j)

Next ==
    \/ \E p \in Processes, j \in Jobs : Receive(p, j)
    \/ \E d \in deliveries : Process(d) \/ CheckFails(d) \/ SettleRejects(d)
    \/ \E p \in Processes : Stop(p) \/ EndPoll(p) \/ Exit(p) \/ ForceExit(p)
                              \/ Crash(p) \/ Restart(p)
    \/ \E j \in Jobs : Queue(j)

Spec == Init /\ [][Next]_vars

(* A process that is up polls and handles its jobs, is started again by    *)
(* the orchestrator, and the queue keeps its timers.                       *)
Fairness ==
    /\ WF_vars(\E p \in Processes, j \in Jobs : Receive(p, j))
    /\ \A p \in Processes : WF_vars(\E d \in HeldBy(p) : Process(d))
    /\ \A p \in Processes : WF_vars(Restart(p)) /\ WF_vars(Exit(p))
    /\ \A j \in Jobs : WF_vars(Queue(j))

FairSpec == Spec /\ Fairness

-----------------------------------------------------------------------------
(* A job leaves the queue by being checked: crashes, restarts and workers  *)
(* of other regions lose none.  (A dead letter is not lost.)               *)
NoJobLost == \A j \in Jobs \ malformed : place[j] = "deleted" => evaluated[j] >= 1

(* A result is evaluated twice, and counts as two failures in a row, only  *)
(* after a failure, a lapse of a job in hand or an exit.                   *)
EvaluatedOnce == faults = 0 => \A j \in Jobs : evaluated[j] <= 1

(* Every job ends, deleted or on the dead letter queue. *)
JobsSettle == \A j \in Jobs : <>(place[j] \in {"deleted", "dead"})

(* With the types: what is in the queue and in the hands of processes      *)
(* accounts for every job (processMessage).                                *)
JobsInv == TypeOK /\ NoJobLost
=============================================================================
