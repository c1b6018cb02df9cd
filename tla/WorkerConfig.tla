---------------------------- MODULE WorkerConfig ----------------------------
(* The settings of a worker process and what can happen to its jobs. *)
EXTENDS Naturals

CONSTANTS
    Jobs,             \* the jobs a process can have in hand at once: each
                      \* calls run() once and enqueues at most one result
    MaxConcurrency,   \* WORKER_MAX_CONCURRENCY
    Hangs,            \* jobs that may never return
    Severed,          \* jobs that may lose Redis
    MaxBatchSize,     \* MAX_BATCH_SIZE of the batcher
    Orphans,          \* jobs whose monitor was deleted meanwhile
    MaxFaults         \* failures of the database (a bound)

ASSUME SemaphoreAssumption ==
    /\ MaxConcurrency \in Nat \ {0}
    /\ Hangs \subseteq Jobs /\ Severed \subseteq Jobs

ASSUME BatcherAssumption ==
    /\ Orphans \subseteq Jobs
    /\ MaxBatchSize \in Nat \ {0}
    /\ MaxFaults \in Nat
=============================================================================
