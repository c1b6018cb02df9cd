--------------------------- MODULE SchedulerLoop ---------------------------
(***************************************************************************)
(* The scheduler: instances that tick under one Redis lock with a time to  *)
(* live, claim the monitors that are due by moving their last_checked_at,  *)
(* and then put a check job for each of them on the queue.                 *)
(***************************************************************************)
EXTENDS Naturals, FiniteSets

CONSTANTS
    Schedulers,       \* running instances
    Monitors,         \* active monitors
    Concurrency,      \* ENQUEUE_CONCURRENCY
    Free,             \* no value under scheduler:lock
    Stale,            \* the lock value of an instance that died
    MaxLoopFaults     \* crashes and failed sends (a bound)

ASSUME SchedulerAssumption ==
    /\ Free \notin Schedulers /\ Stale \notin Schedulers /\ Free # Stale
    /\ Concurrency \in Nat \ {0}
    /\ MaxLoopFaults \in Nat
    /\ IsFiniteSet(Monitors)

VARIABLES
    lock,      \* the value under scheduler:lock
    due,       \* last_checked_at is more than an interval ago
    sent,      \* sends of the monitor's jobs since it was last due; 2 is "more"
    tick,      \* per instance: the step of its tick and what it read
    todo,      \* per instance: monitors that pLimit has not handled
    lanes,     \* per instance: the workers of pLimit that still run
    late,      \* has a tick outlived LOCK_TTL_MS, or a send its monitor's interval?
    loopFaults

loopVars == <<lock, due, sent, tick, todo, lanes, late, loopFaults>>

Steps == {"idle", "locked", "found", "sending", "release", "owned"}

IdleTick == [step |-> "idle", found |-> {}, rejected |-> FALSE]

LoopTypeOK ==
    /\ lock \in Schedulers \cup {Free, Stale}
    /\ due \in [Monitors -> BOOLEAN]
    /\ sent \in [Monitors -> 0..2]
    /\ tick \in [Schedulers -> [step : Steps, found : SUBSET Monitors, rejected : BOOLEAN]]
    /\ todo \in [Schedulers -> SUBSET Monitors]
    /\ lanes \in [Schedulers -> Nat]
    /\ late \in BOOLEAN
    /\ loopFaults \in Nat

LoopInit ==
    /\ lock = Free
    /\ due = [m \in Monitors |-> TRUE]
    /\ sent = [m \in Monitors |-> 0]
    /\ tick = [s \in Schedulers |-> IdleTick]
    /\ todo = [s \in Schedulers |-> {}]
    /\ lanes = [s \in Schedulers |-> 0]
    /\ late = FALSE
    /\ loopFaults = 0

At(s, step)   == tick[s].step = step
Goto(s, step) == tick' = [tick EXCEPT ![s].step = step]

-----------------------------------------------------------------------------
(* Mutant: SET without NX. *)
AcquireAnyway(s) ==
    /\ At(s, "idle")
    /\ lock' = s
    /\ Goto(s, "locked")
    /\ UNCHANGED <<due, sent, todo, lanes, late, loopFaults>>

(* SET scheduler:lock <value> PX 15000 NX; with the lock taken the tick is *)
(* over.                                                                   *)
Acquire(s) ==
    /\ At(s, "idle")
    /\ lock = Free
    /\ lock' = s
    /\ Goto(s, "locked")
    /\ UNCHANGED <<due, sent, todo, lanes, late, loopFaults>>

FindDue(s) ==
    LET found == {m \in Monitors : due[m]} IN
    /\ At(s, "locked")
    /\ tick' = [tick EXCEPT ![s].step = IF found = {} THEN "release" ELSE "found",
                            ![s].found = found]
    /\ UNCHANGED <<lock, due, sent, todo, lanes, late, loopFaults>>

Lanes(S) == IF Cardinality(S) < Concurrency THEN Cardinality(S) ELSE Concurrency

(* What an earlier tick of s is still sending: a send that failed ended    *)
(* that tick, not its other lanes.                                         *)
LeftOver(s) == IF lanes[s] = 0 THEN {} ELSE todo[s]

(* updateLastCheckedAt of the monitors found, then pLimit starts. *)
UpdateLastCheckedAt(s) ==
    /\ At(s, "found")
    /\ due' = [m \in Monitors |-> due[m] /\ m \notin tick[s].found]
    /\ todo' = [todo EXCEPT ![s] = LeftOver(s) \cup tick[s].found]
    /\ lanes' = [lanes EXCEPT ![s] = Lanes(tick[s].found)
                                       + IF LeftOver(s) = {} THEN 0 ELSE lanes[s]]
    /\ Goto(s, "sending")
    /\ UNCHANGED <<lock, sent, late, loopFaults>>

Count(m) == sent' = [sent EXCEPT ![m] = IF @ < 2 THEN @ + 1 ELSE 2]

(* A lane of pLimit sends the jobs of monitor m and takes the next one. *)
EnqueueChecks(s, m) ==
    /\ m \in todo[s] /\ lanes[s] > 0
    /\ todo' = [todo EXCEPT ![s] = @ \ {m}]
    /\ Count(m)
    /\ UNCHANGED <<lock, due, tick, lanes, late, loopFaults>>

(* Some batch of m's jobs is rejected (others may have been accepted): the *)
(* lane ends, and Promise.all rejects while the other lanes go on.         *)
EnqueueFails(s, m) ==
    /\ m \in todo[s] /\ lanes[s] > 0
    /\ loopFaults < MaxLoopFaults
    /\ loopFaults' = loopFaults + 1
    /\ todo' = [todo EXCEPT ![s] = @ \ {m}]
    /\ lanes' = [lanes EXCEPT ![s] = @ - 1]
    /\ tick' = [tick EXCEPT ![s].rejected = At(s, "sending")]
    /\ Count(m) \/ UNCHANGED sent
    /\ UNCHANGED <<lock, due, late>>

(* pLimit is over, or has rejected. *)
EndSending(s) ==
    /\ At(s, "sending")
    /\ todo[s] = {} \/ tick[s].rejected
    /\ Goto(s, "release")
    /\ UNCHANGED <<lock, due, sent, todo, lanes, late, loopFaults>>

(* finally: GET scheduler:lock ... *)
CheckOwner(s) ==
    /\ At(s, "release")
    /\ tick' = [tick EXCEPT ![s] = [IdleTick EXCEPT !.step =
                                      IF lock = s THEN "owned" ELSE "idle"]]
    /\ UNCHANGED <<lock, due, sent, todo, lanes, late, loopFaults>>

(* ... and then DEL, whoever holds it by now. *)
Release(s) ==
    /\ At(s, "owned")
    /\ lock' = Free
    /\ Goto(s, "idle")
    /\ UNCHANGED <<due, sent, todo, lanes, late, loopFaults>>

-----------------------------------------------------------------------------
(* The instance dies anywhere (both of its timers and its signals end it)  *)
(* and is started again with a new lock value.                             *)
Die(s) ==
    /\ loopFaults < MaxLoopFaults
    /\ loopFaults' = loopFaults + 1
    /\ tick' = [tick EXCEPT ![s] = IdleTick]
    /\ todo' = [todo EXCEPT ![s] = {}]
    /\ lanes' = [lanes EXCEPT ![s] = 0]
    /\ lock' = IF lock = s THEN Stale ELSE lock
    /\ UNCHANGED <<due, sent, late>>

(* Mutant: the lock has no time to live. *)
NeverExpires == FALSE /\ UNCHANGED loopVars

(* PX: the lock of an instance that died expires, and that of a tick which *)
(* takes longer than LOCK_TTL_MS.                                          *)
Expire ==
    /\ lock # Free
    /\ lock' = Free
    /\ late' = (late \/ lock # Stale)
    /\ UNCHANGED <<due, sent, tick, todo, lanes, loopFaults>>

(* What instance s has found, and not yet handed over to the queue. *)
InHand(s) == LeftOver(s) \cup tick[s].found

(* An interval (30 s or more) has passed since last_checked_at. *)
BecomeDue(m) ==
    /\ ~due[m]
    /\ due' = [due EXCEPT ![m] = TRUE]
    /\ sent' = [sent EXCEPT ![m] = 0]
    /\ late' = (late \/ \E s \in Schedulers : m \in InHand(s))
    /\ UNCHANGED <<lock, tick, todo, lanes, loopFaults>>

-----------------------------------------------------------------------------
Tick(s) ==
    \/ Acquire(s) \/ FindDue(s) \/ UpdateLastCheckedAt(s)
    \/ \E m \in Monitors : EnqueueChecks(s, m)
    \/ EndSending(s) \/ CheckOwner(s) \/ Release(s)

LoopNext ==
    \/ \E s \in Schedulers : Tick(s) \/ Die(s)
    \/ \E s \in Schedulers, m \in Monitors : EnqueueFails(s, m)
    \/ Expire
    \/ \E m \in Monitors : BecomeDue(m)

LoopSpec == LoopInit /\ [][LoopNext]_loopVars

(* start() ticks for ever, a send is answered, and Redis expires keys.     *)
LoopFairness == (\A s \in Schedulers : WF_loopVars(Tick(s))) /\ WF_loopVars(Expire)

LoopFairSpec == LoopSpec /\ LoopFairness

-----------------------------------------------------------------------------
(* As long as ticks end within the lock's time to live, no monitor is      *)
(* checked twice in an interval, whatever instances there are and wherever *)
(* they crash: the lock covers findDue and updateLastCheckedAt.            *)
CheckedOnce == ~late => \A m \in Monitors : sent[m] <= 1

(* As long as nothing failed, a monitor whose last_checked_at was moved    *)
(* has its jobs on the queue or in the hands of an instance.               *)
NoCheckLost ==
    loopFaults = 0 =>
        \A m \in Monitors :
            ~due[m] => sent[m] >= 1 \/ \E s \in Schedulers : m \in LeftOver(s)

(* A monitor that is due is claimed: neither a crashed owner of the lock   *)
(* nor a tick that failed stops the others for good.                       *)
DueIsClaimed == \A m \in Monitors : due[m] ~> ~due[m]

(* With the types: the lock and last_checked_at together neither repeat    *)
(* nor lose a check (tick).                                                *)
SchedulerInv == LoopTypeOK /\ CheckedOnce /\ NoCheckLost
=============================================================================
