------------------------- MODULE CheckResultBatcher -------------------------
(***************************************************************************)
(* The batcher of check results in a worker process: results queue up      *)
(* until a timer or a full batch flushes them in one multi-row INSERT, and *)
(* drain() is what shutdown waits for.  Each function runs to its end      *)
(* without an await, but inserts are under way between them.               *)
(***************************************************************************)
EXTENDS WorkerConfig, FiniteSets, SequencesExt

VARIABLES
    queue,        \* the results of jobs that wait to be flushed
    timer,        \* is the flush timer armed?
    inFlight,     \* batches whose INSERT has not been answered
    promise,      \* the promise that enqueue returned for a result
    rows,         \* check_results
    drain,        \* the call of drain()
    awaited,      \* the batches it waits for
    promised,     \* the results that were pending when it was called
    faults

vars == <<queue, timer, inFlight, promise, rows, drain, awaited, promised, faults>>

Unsettled == {r \in Jobs : promise[r] = "pending"}

(* No INSERT has more than MaxBatchSize rows. *)
TypeOK ==
    /\ queue \in Seq(Jobs) /\ Len(queue) < MaxBatchSize
    /\ timer \in BOOLEAN
    /\ \A b \in inFlight : b \subseteq Jobs /\ Cardinality(b) \in 1..MaxBatchSize
    /\ promise \in [Jobs -> {"none", "pending", "resolved", "rejected"}]
    /\ rows \subseteq Jobs
    /\ drain \in {"notCalled", "waiting", "returned"}
    /\ awaited \subseteq SUBSET Jobs
    /\ promised \subseteq Jobs
    /\ faults \in 0..MaxFaults

Init ==
    /\ queue = <<>>
    /\ timer = FALSE
    /\ inFlight = {}
    /\ promise = [r \in Jobs |-> "none"]
    /\ rows = {}
    /\ drain = "notCalled"
    /\ awaited = {}
    /\ promised = {}
    /\ faults = 0

-----------------------------------------------------------------------------
(* enqueue: a full queue is flushed at once (scheduleFlush(true)), which   *)
(* clears the timer; otherwise the timer is armed if it is not.            *)
Enqueue(r) ==
    LET q == Append(queue, r) IN
    /\ promise[r] = "none"
    /\ promise' = [promise EXCEPT ![r] = "pending"]
    /\ IF Len(q) >= MaxBatchSize
       THEN /\ inFlight' = inFlight \cup {ToSet(SubSeq(q, 1, MaxBatchSize))}
            /\ queue' = SubSeq(q, MaxBatchSize + 1, Len(q))
            /\ timer' = FALSE
       ELSE /\ queue' = q
            /\ timer' = TRUE
            /\ UNCHANGED inFlight
    /\ UNCHANGED <<rows, drain, awaited, promised, faults>>

Batches == IF queue = <<>> THEN {} ELSE {ToSet(queue)}

(* FLUSH_INTERVAL_MS after the timer was armed: scheduleFlush(false).      *)
TimerFires ==
    /\ timer
    /\ timer' = FALSE
    /\ inFlight' = inFlight \cup Batches
    /\ queue' = <<>>
    /\ UNCHANGED <<promise, rows, drain, awaited, promised, faults>>

Settle(b, outcome) ==
    /\ inFlight' = inFlight \ {b}
    /\ promise' = [r \in Jobs |-> IF r \in b THEN outcome ELSE promise[r]]
    /\ UNCHANGED <<queue, timer, drain, awaited, promised>>

(* doInsert: one statement, whose foreign keys all have to hold. *)
DoInsert(b) ==
    /\ b \cap Orphans = {}
    /\ rows' = rows \cup b
    /\ Settle(b, "resolved")
    /\ UNCHANGED faults

(* Mutant: a batch that failed is dropped, and its callers are not told. *)
FailsUntold(b) ==
    /\ b \cap Orphans = {}
    /\ faults < MaxFaults
    /\ faults' = faults + 1
    /\ inFlight' = inFlight \ {b}
    /\ UNCHANGED <<queue, timer, promise, rows, drain, awaited, promised>>

(* doInsert fails, or commits and its answer is lost: every result of the  *)
(* batch is rejected.                                                      *)
DoInsertFails(b) ==
    /\ b \cap Orphans = {}
    /\ faults < MaxFaults
    /\ faults' = faults + 1
    /\ rows' \in {rows, rows \cup b}
    /\ Settle(b, "rejected")

(* A row that refers to a deleted monitor fails the whole statement. *)
DoInsertOrphans(b) ==
    /\ b \cap Orphans # {}
    /\ UNCHANGED <<rows, faults>>
    /\ Settle(b, "rejected")

(* Mutant: what is in flight is read before the rest is flushed. *)
DrainSnapshotsFirst ==
    /\ drain = "notCalled"
    /\ drain' = "waiting"
    /\ timer' = FALSE
    /\ queue' = <<>>
    /\ inFlight' = inFlight \cup Batches
    /\ awaited' = inFlight
    /\ promised' = Unsettled
    /\ UNCHANGED <<promise, rows, faults>>

(* drain, up to its await *)
DrainCall ==
    /\ drain = "notCalled"
    /\ drain' = "waiting"
    /\ timer' = FALSE
    /\ queue' = <<>>
    /\ inFlight' = inFlight \cup Batches
    /\ awaited' = inFlight'
    /\ promised' = Unsettled
    /\ UNCHANGED <<promise, rows, faults>>

DrainReturn ==
    /\ drain = "waiting"
    /\ awaited \cap inFlight = {}
    /\ drain' = "returned"
    /\ UNCHANGED <<queue, timer, inFlight, promise, rows, awaited, promised, faults>>

(* The caller has seen its promise settled: a later call is a new result.  *)
Forget(r) ==
    /\ promise[r] \in {"resolved", "rejected"}
    /\ promise' = [promise EXCEPT ![r] = "none"]
    /\ rows' = rows \ {r}
    /\ promised' = promised \ {r}
    /\ UNCHANGED <<queue, timer, inFlight, drain, awaited, faults>>

-----------------------------------------------------------------------------
Answer(b) == DoInsert(b) \/ DoInsertFails(b) \/ DoInsertOrphans(b)

Next ==
    \/ \E r \in Jobs : Enqueue(r) \/ Forget(r)
    \/ TimerFires
    \/ \E b \in inFlight : Answer(b)
    \/ DrainCall \/ DrainReturn

Spec == Init /\ [][Next]_vars

-----------------------------------------------------------------------------
(* Nothing waits without a timer to flush it, also after a full batch, and *)
(* a drain that crossed other calls: a result is never forgotten.          *)
QueueHasTimer == queue # <<>> <=> timer

(* A result whose promise is pending is in the queue once or in one batch, *)
(* and no other result is: none is inserted twice, none falls between.     *)
PendingInOnePlace ==
    \A r \in Jobs :
        LET queued  == {k \in DOMAIN queue : queue[k] = r}
            batched == {b \in inFlight : r \in b}
        IN  Cardinality(queued) + Cardinality(batched)
              = IF promise[r] = "pending" THEN 1 ELSE 0

(* The job of a result is deleted only if its row is in check_results.     *)
ResolvedIsInserted == \A r \in Jobs : promise[r] = "resolved" => r \in rows

(* "Waits for all in-flight inserts to settle": when drain() returns, all  *)
(* that was enqueued before it was called has been inserted or rejected.   *)
DrainAwaits == drain = "returned" => promised \cap Unsettled = {}
=============================================================================
