---------------------------- MODULE WorkerProcess ----------------------------
(***************************************************************************)
(* The life of one worker process: jobs that a poll brings wait for a      *)
(* permit of the semaphore and hold it until the batcher has inserted the  *)
(* result of their check, also while the process is shut down.  What       *)
(* happens to the messages of the jobs is in CheckJobs.                    *)
(***************************************************************************)
EXTENDS WorkerConfig, Sequences, FiniteSets

VARIABLES
    permits, waiting, inside,                       \* of the semaphore
    queue, timer, inFlight, promise, rows, drain,   \* of the batcher
    awaited, promised, faults,
    process,      \* "lastPoll": told to stop, its last long poll is out
    lasting,      \* the jobs whose end disconnect() awaits
    late          \* history: the jobs that came with the last poll

semaphore == <<permits, waiting, inside>>
batcher   == <<queue, timer, inFlight, promise, rows, drain, awaited, promised, faults>>
vars      == <<semaphore, batcher, process, lasting, late>>

S == INSTANCE Semaphore WITH queue <- waiting
B == INSTANCE CheckResultBatcher

Active == inside \cup S!Waiting
Runs   == process # "ended"

TypeOK ==
    /\ S!TypeOK /\ B!TypeOK
    /\ process \in {"up", "lastPoll", "stopping", "ended"}
    /\ lasting \subseteq Active /\ late \subseteq Active

Init ==
    /\ S!Init /\ B!Init
    /\ process = "up"
    /\ lasting = {} /\ late = {}

-----------------------------------------------------------------------------
(* A poll returns a job: semaphore.run. *)
Arrive(j) ==
    /\ process \in {"up", "lastPoll"} /\ promise[j] = "none"
    /\ S!Acquire(j) \/ S!Enqueue(j)
    /\ late' = IF process = "lastPoll" THEN late \cup {j} ELSE late
    /\ UNCHANGED <<batcher, process, lasting>>

Gone(j) == lasting' = lasting \ {j} /\ late' = late \ {j}

(* processMessage: a job that cannot be parsed or is for another region    *)
(* frees its permit at once.                                               *)
Skip(j) ==
    /\ Runs
    /\ promise[j] = "none" /\ S!Release(j)
    /\ Gone(j)
    /\ UNCHANGED <<batcher, process>>

(* executeCheck: the result of the check is enqueued ...                   *)
Execute(j) ==
    /\ Runs
    /\ j \in inside /\ B!Enqueue(j)
    /\ UNCHANGED <<semaphore, process, lasting, late>>

(* Mutant: a result that was rejected is inserted again. *)
JobRetries(j) ==
    /\ Runs
    /\ j \in inside /\ promise[j] = "rejected"
    /\ promise' = [promise EXCEPT ![j] = "pending"]
    /\ inFlight' = inFlight \cup {{j}}
    /\ UNCHANGED <<semaphore, queue, timer, rows, drain, awaited, promised, faults, process, lasting, late>>

(* ... and, inserted or not, ends the job, which frees its permit.         *)
JobEnds(j) ==
    /\ Runs
    /\ S!Release(j) /\ B!Forget(j)
    /\ Gone(j)
    /\ UNCHANGED process

(* executeCheck rejects with setex or publish: the job ends although its   *)
(* result is still in the batcher, ...                                     *)
RedisFails(j) ==
    /\ Runs
    /\ j \in Severed
    /\ promise[j] = "pending" /\ S!Release(j)
    /\ Gone(j)
    /\ UNCHANGED <<batcher, process>>

(* ... whose answer nobody waits for. *)
Unheard(j) ==
    /\ Runs
    /\ j \notin inside /\ B!Forget(j)
    /\ UNCHANGED <<semaphore, process, lasting, late>>

TimerFires ==
    /\ Runs
    /\ B!TimerFires
    /\ UNCHANGED <<semaphore, process, lasting, late>>

(* The database answers the INSERT that has the result of the job. *)
Inserted(j) ==
    /\ Runs
    /\ \E b \in inFlight : j \in b /\ B!Answer(b)
    /\ UNCHANGED <<semaphore, process, lasting, late>>

(* A job that has waited too long rejects.  The promise of its finally()   *)
(* rejects with it, and unhandledRejection ends the process.               *)
GiveUp(j) ==
    /\ Runs
    /\ S!TimeOut(j)
    /\ process' = "ended"
    /\ Gone(j)
    /\ UNCHANGED batcher

-----------------------------------------------------------------------------
(* Mutant: only the jobs that hold a permit are awaited. *)
StopAwaitsInside ==
    /\ process = "up"
    /\ process' = "lastPoll"
    /\ lasting' = inside
    /\ UNCHANGED <<semaphore, batcher, late>>

(* stop(), and disconnect() up to its first await *)
Stop ==
    /\ process = "up"
    /\ process' = "lastPoll"
    /\ lasting' = Active
    /\ UNCHANGED <<semaphore, batcher, late>>

LastPollReturns ==
    /\ process = "lastPoll"
    /\ process' = "stopping"
    /\ UNCHANGED <<semaphore, batcher, lasting, late>>

(* The active jobs have ended: the batcher is drained, ...                 *)
Drain ==
    /\ process \in {"lastPoll", "stopping"} /\ lasting = {}
    /\ B!DrainCall
    /\ UNCHANGED <<semaphore, process, lasting, late>>

(* ... and the process exits. *)
Exit ==
    /\ Runs
    /\ B!DrainReturn
    /\ process' = "ended"
    /\ UNCHANGED <<semaphore, lasting, late>>

-----------------------------------------------------------------------------
Next ==
    \/ \E j \in Jobs :
          \/ Arrive(j) \/ Skip(j) \/ Execute(j) \/ Inserted(j) \/ JobEnds(j)
          \/ RedisFails(j) \/ Unheard(j) \/ GiveUp(j)
    \/ TimerFires
    \/ Stop \/ LastPollReturns \/ Drain \/ Exit

Spec == Init /\ [][Next]_vars

(* Timers fire, a check and a job end unless they hang, and the database   *)
(* answers.                                                                *)
Fairness ==
    /\ \A j \in Jobs : WF_vars(GiveUp(j)) /\ WF_vars(Inserted(j))
    /\ \A j \in Jobs \ Hangs : WF_vars(Skip(j) \/ Execute(j) \/ JobEnds(j))
    /\ WF_vars(TimerFires)
    /\ WF_vars(Exit)

FairSpec == Spec /\ Fairness

-----------------------------------------------------------------------------
(* The two components as this process uses them behave as they promise on  *)
(* their own: no step of the process does to one what its own operations   *)
(* could not.                                                              *)
ImplementsComponents == S!Spec /\ B!Spec

(* A process that exits in order cuts no job off that was active when it   *)
(* was stopped: only what the last poll brought.                           *)
ActiveAreAwaited == drain = "returned" => Active \subseteq late

(* A job that does not hang ends, whatever the others and the database do, *)
(* although no full batch may ever come together; and one that waits gets  *)
(* its permit even behind jobs that hang ("can never become permanently    *)
(* deadlocked even if a job hangs", Semaphore.ts:4), or the process ends.  *)
EveryJobEnds ==
    \A j \in Jobs :
        /\ j \in S!Waiting ~> (j \notin S!Waiting \/ ~Runs)
        /\ j \notin Hangs => (j \in Active ~> (j \notin Active \/ ~Runs))

(* The process gives its parts no occasion to lose anything: no permit and *)
(* no waiting job, no result between the queue and an INSERT, no batch     *)
(* that drain leaves behind (Semaphore, CheckResultBatcher as CheckWorker  *)
(* uses them).                                                             *)
ProcessInv ==
    /\ TypeOK
    /\ S!PermitsConserved /\ S!QueueConsistent
    /\ B!QueueHasTimer /\ B!PendingInOnePlace
    /\ B!ResolvedIsInserted /\ B!DrainAwaits
=============================================================================
