----------------------------- MODULE Semaphore -----------------------------
(***************************************************************************)
(* The counting semaphore that bounds the check jobs of a worker process:  *)
(* permits, and a FIFO queue of callers each of which gives up after a     *)
(* timeout.                                                                *)
(***************************************************************************)
EXTENDS WorkerConfig, Sequences, FiniteSets, SequencesExt

VARIABLES
    permits,
    queue,      \* callers waiting, in order of arrival
    inside      \* callers that hold a permit

vars == <<permits, queue, inside>>

Waiting == {queue[k] : k \in DOMAIN queue}

TypeOK ==
    /\ permits \in 0..MaxConcurrency
    /\ queue \in Seq(Jobs)
    /\ inside \subseteq Jobs

Init ==
    /\ permits = MaxConcurrency
    /\ queue = <<>>
    /\ inside = {}

(* acquire with a permit left *)
Acquire(c) ==
    /\ c \notin inside \cup Waiting
    /\ permits > 0
    /\ permits' = permits - 1
    /\ inside' = inside \cup {c}
    /\ UNCHANGED queue

(* acquire without one *)
Enqueue(c) ==
    /\ c \notin inside \cup Waiting
    /\ permits = 0
    /\ queue' = Append(queue, c)
    /\ UNCHANGED <<permits, inside>>

(* acquireTimeoutMs have passed: the caller leaves the queue and rejects.  *)
TimeOut(c) ==
    /\ \E k \in DOMAIN queue : queue[k] = c /\ queue' = RemoveAt(queue, k)
    /\ UNCHANGED <<permits, inside>>

(* release, in the finally of run(): the permit goes to the first in the   *)
(* queue, or back.                                                         *)
Release(c) ==
    /\ c \in inside
    /\ IF queue # <<>>
       THEN /\ inside' = (inside \ {c}) \cup {Head(queue)}
            /\ queue' = Tail(queue)
            /\ UNCHANGED permits
       ELSE /\ inside' = inside \ {c}
            /\ permits' = permits + 1
            /\ UNCHANGED queue

Next == \E c \in Jobs : Acquire(c) \/ Enqueue(c) \/ TimeOut(c) \/ Release(c)

Spec == Init /\ [][Next]_vars

-----------------------------------------------------------------------------
(* No permit is lost or made: handing over, giving up and releasing keep   *)
(* the number of jobs and of free permits at MaxConcurrency.               *)
PermitsConserved == permits + Cardinality(inside) = MaxConcurrency

(* No caller waits while a permit is free, none waits twice, and none that *)
(* waits is inside: release never wakes a caller that is gone.             *)
QueueConsistent ==
    /\ permits > 0 => queue = <<>>
    /\ \A j, k \in DOMAIN queue : queue[j] = queue[k] => j = k
    /\ Waiting \cap inside = {}

(* "Resolves permits in FIFO order": who comes in has no one before it.    *)
NoOvertaking ==
    [][\A c \in inside' \ inside : \A d \in Waiting :
          \/ c = d
          \/ \E j, k \in DOMAIN queue : j < k /\ queue[j] = c /\ queue[k] = d]_vars
=============================================================================
