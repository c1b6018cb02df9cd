------------------------ MODULE WorkerProcess_proofs ------------------------
(* A worker process uses its semaphore and its batcher as they allow, for  *)
(* any number of jobs, permits and batches; so what they promise on their  *)
(* own holds of the process.                                               *)
EXTENDS WorkerProcess, FiniteSetTheorems, TLAPS

(* Either part counts sets as everyone does. *)
LEMMA SameCardinality == \A T : S!Cardinality(T) = Cardinality(T) /\ B!Cardinality(T) = Cardinality(T)
  <1>1. ASSUME NEW T PROVE S!Cardinality(T) = Cardinality(T)
    BY DEF S!Cardinality, Cardinality
  <1>2. ASSUME NEW T PROVE B!Cardinality(T) = Cardinality(T)
    BY DEF B!Cardinality, Cardinality
  <1> QED
    BY <1>1, <1>2

-----------------------------------------------------------------------------
(* The permits of the semaphore, for any number of callers and permits. *)
SInv == S!TypeOK /\ IsFiniteSet(inside) /\ S!PermitsConserved /\ S!QueueConsistent

LEMMA SemaphoreInitially == S!Init => SInv
  <1> SUFFICES ASSUME S!Init PROVE SInv
    OBVIOUS
  <1>1. IsFiniteSet(inside) /\ Cardinality(inside) = 0
    BY FS_EmptySet DEF S!Init
  <1> QED
    BY SameCardinality, <1>1, SemaphoreAssumption
       DEF S!Init, SInv, S!TypeOK, S!PermitsConserved, S!QueueConsistent, S!Waiting

LEMMA AcquireInv == ASSUME SInv, NEW c \in Jobs, S!Acquire(c) PROVE SInv'
  <1>1. IsFiniteSet(inside') /\ Cardinality(inside') = Cardinality(inside) + 1
    BY FS_AddElement DEF SInv, S!Acquire
  <1>2. permits' \in 0..MaxConcurrency /\ S!PermitsConserved'
    BY SameCardinality, <1>1, FS_CardinalityType, SemaphoreAssumption
       DEF SInv, S!TypeOK, S!PermitsConserved, S!Acquire
  <1> QED
    BY <1>1, <1>2 DEF SInv, S!TypeOK, S!QueueConsistent, S!Waiting, S!Acquire

LEMMA EnqueueInv == ASSUME SInv, NEW c \in Jobs, S!Enqueue(c) PROVE SInv'
  <1>1. S!TypeOK' /\ IsFiniteSet(inside') /\ S!PermitsConserved'
    BY DEF SInv, S!TypeOK, S!PermitsConserved, S!Enqueue
  <1>2. /\ Len(waiting') = Len(waiting) + 1
        /\ \A k \in 1..Len(waiting) : waiting'[k] = waiting[k]
        /\ waiting'[Len(waiting) + 1] = c
    BY DEF SInv, S!TypeOK, S!Enqueue
  <1>3. \A k \in 1..Len(waiting) : waiting[k] # c
    BY DEF S!Enqueue, S!Waiting, SInv, S!TypeOK
  <1>4. S!QueueConsistent'
    BY <1>2, <1>3 DEF SInv, S!TypeOK, S!QueueConsistent, S!Waiting, S!Enqueue
  <1> QED
    BY <1>1, <1>4 DEF SInv

(* What S!RemoveAt leaves of a sequence. *)
LEMMA RemoveAtProperties ==
    ASSUME NEW T, NEW s \in Seq(T), NEW n \in 1..Len(s)
    PROVE  /\ S!RemoveAt(s, n) \in Seq(T)
           /\ Len(S!RemoveAt(s, n)) = Len(s) - 1
           /\ \A k \in 1..(Len(s) - 1) :
                 S!RemoveAt(s, n)[k] = IF k < n THEN s[k] ELSE s[k + 1]
  <1> DEFINE front == SubSeq(s, 1, n - 1)
             back  == SubSeq(s, n + 1, Len(s))
  <1>1. /\ front \in Seq(T) /\ Len(front) = n - 1
        /\ \A k \in 1..(n - 1) : front[k] = s[k]
    OBVIOUS
  <1>2. /\ back \in Seq(T) /\ Len(back) = Len(s) - n
        /\ \A k \in 1..(Len(s) - n) : back[k] = s[n + k]
    OBVIOUS
  <1>3. S!RemoveAt(s, n) = front \o back
    BY DEF S!RemoveAt
  <1> HIDE DEF front, back
  <1>4. front \o back \in Seq(T) /\ Len(front \o back) = Len(s) - 1
    BY <1>1, <1>2
  <1>5. ASSUME NEW k \in 1..(Len(s) - 1)
        PROVE  (front \o back)[k] = IF k < n THEN s[k] ELSE s[k + 1]
    <2>1. CASE k < n
      BY <1>1, <1>2, <2>1
    <2>2. CASE ~(k < n)
      <3>1. (front \o back)[k] = back[k - (n - 1)]
        BY <1>1, <1>2, <2>2
      <3> QED
        BY <1>2, <2>2, <3>1
    <2> QED
      BY <2>1, <2>2
  <1> QED
    BY <1>3, <1>4, <1>5

LEMMA TimeOutInv == ASSUME SInv, NEW c \in Jobs, S!TimeOut(c) PROVE SInv'
  <1>1. PICK n \in DOMAIN waiting : waiting' = S!RemoveAt(waiting, n)
    BY DEF S!TimeOut
  <1>2. /\ waiting' \in Seq(Jobs) /\ Len(waiting') = Len(waiting) - 1
        /\ \A k \in 1..(Len(waiting) - 1) : waiting'[k] = IF k < n THEN waiting[k] ELSE waiting[k + 1]
    BY <1>1, RemoveAtProperties DEF SInv, S!TypeOK
  <1>3. S!TypeOK' /\ IsFiniteSet(inside') /\ S!PermitsConserved'
    BY <1>2 DEF SInv, S!TypeOK, S!PermitsConserved, S!TimeOut
  <1> DEFINE from(k) == IF k < n THEN k ELSE k + 1
  <1>4. \A k \in DOMAIN waiting' : from(k) \in DOMAIN waiting /\ waiting'[k] = waiting[from(k)]
    BY <1>1, <1>2 DEF SInv, S!TypeOK
  <1>5. \A j, k \in DOMAIN waiting' : from(j) = from(k) => j = k
    BY <1>2
  <1>6. permits' > 0 => waiting' = <<>>
    BY <1>1 DEF SInv, S!TypeOK, S!QueueConsistent, S!TimeOut
  <1> HIDE DEF from
  <1>7. S!QueueConsistent'
    <2>1. ASSUME NEW j \in DOMAIN waiting', NEW k \in DOMAIN waiting', waiting'[j] = waiting'[k]
          PROVE  j = k
      BY <1>4, <1>5, <2>1 DEF SInv, S!QueueConsistent
    <2>2. S!Waiting' \subseteq S!Waiting
      BY <1>4 DEF S!Waiting
    <2>3. S!Waiting' \cap inside' = {}
      BY <2>2 DEF SInv, S!QueueConsistent, S!TimeOut
    <2> QED
      BY <1>6, <2>1, <2>3 DEF S!QueueConsistent
  <1> QED
    BY <1>3, <1>7 DEF SInv

LEMMA ReleaseInv == ASSUME SInv, NEW c \in Jobs, S!Release(c) PROVE SInv'
  <1>1. /\ IsFiniteSet(inside \ {c})
        /\ Cardinality(inside \ {c}) = Cardinality(inside) - 1
        /\ Cardinality(inside) \in Nat /\ Cardinality(inside \ {c}) \in Nat
    BY FS_RemoveElement, FS_CardinalityType DEF SInv, S!Release
  <1>2. CASE waiting = <<>>
    <2>1. inside' = inside \ {c} /\ permits' = permits + 1 /\ waiting' = waiting
      BY <1>2 DEF S!Release
    <2>2. permits' \in 0..MaxConcurrency /\ S!PermitsConserved'
      BY SameCardinality, <1>1, <2>1, SemaphoreAssumption DEF SInv, S!TypeOK, S!PermitsConserved
    <2>3. S!TypeOK' /\ IsFiniteSet(inside')
      BY <1>1, <2>1, <2>2 DEF SInv, S!TypeOK
    <2>4. S!QueueConsistent'
      BY <1>2, <2>1 DEF SInv, S!QueueConsistent, S!Waiting
    <2> QED
      BY <2>2, <2>3, <2>4 DEF SInv
  <1>3. CASE waiting # <<>>
    <2>1. /\ waiting' = Tail(waiting) /\ permits' = permits
          /\ inside' = (inside \ {c}) \cup {Head(waiting)}
      BY <1>3 DEF S!Release
    <2>2. Len(waiting) \in Nat \ {0} /\ 1 \in DOMAIN waiting /\ Head(waiting) = waiting[1]
      BY <1>3 DEF SInv, S!TypeOK
    <2>3. waiting' \in Seq(Jobs) /\ Len(waiting') = Len(waiting) - 1
      BY <1>3, <2>1 DEF SInv, S!TypeOK
    <2>4. \A k \in DOMAIN waiting' : k + 1 \in DOMAIN waiting /\ waiting'[k] = waiting[k + 1]
      BY <1>3, <2>1, <2>3 DEF SInv, S!TypeOK
    <2>5. waiting[1] \in Jobs
      BY <2>2 DEF SInv, S!TypeOK
    <2>6. waiting[1] \notin inside
      BY <2>2 DEF SInv, S!QueueConsistent, S!Waiting
    <2>7. IsFiniteSet(inside') /\ Cardinality(inside') = Cardinality(inside)
      <3> DEFINE rest == inside \ {c}
      <3>1. waiting[1] \notin rest
        BY <2>6
      <3>2. inside' = rest \cup {waiting[1]}
        BY <2>1, <2>2
      <3>3. IsFiniteSet(rest) /\ Cardinality(rest) + 1 = Cardinality(inside)
        BY <1>1
      <3> HIDE DEF rest
      <3>4. IsFiniteSet(rest \cup {waiting[1]})
            /\ Cardinality(rest \cup {waiting[1]}) = Cardinality(rest) + 1
        BY <3>1, <3>3, FS_AddElement
      <3> QED
        BY <3>2, <3>3, <3>4
    <2>8. S!TypeOK' /\ S!PermitsConserved'
      BY SameCardinality, <2>1, <2>2, <2>3, <2>5, <2>7 DEF SInv, S!TypeOK, S!PermitsConserved
    <2>9. permits' = 0
      BY <1>3, <2>1 DEF SInv, S!TypeOK, S!QueueConsistent
    <2>10. ASSUME NEW j \in DOMAIN waiting', NEW k \in DOMAIN waiting', waiting'[j] = waiting'[k]
           PROVE  j = k
      <3>1. j + 1 = k + 1
        BY <2>4, <2>10 DEF SInv, S!QueueConsistent
      <3> QED
        BY <2>3, <3>1
    <2>11. ASSUME NEW k \in DOMAIN waiting' PROVE waiting'[k] \notin inside'
      <3>1. k + 1 \in DOMAIN waiting /\ waiting'[k] = waiting[k + 1] /\ k + 1 # 1
        BY <2>3, <2>4
      <3>2. waiting[k + 1] \notin inside /\ waiting[k + 1] # waiting[1]
        BY <2>2, <3>1 DEF SInv, S!QueueConsistent, S!Waiting
      <3> QED
        BY <2>1, <2>2, <3>1, <3>2
    <2>12. S!QueueConsistent'
      BY <2>9, <2>10, <2>11 DEF S!QueueConsistent, S!Waiting
    <2> QED
      BY <2>7, <2>8, <2>12 DEF SInv
  <1> QED
    BY <1>2, <1>3

LEMMA SemaphoreInductive == SInv /\ [S!Next]_(S!vars) => SInv'
  <1> SUFFICES ASSUME SInv, [S!Next]_(S!vars) PROVE SInv'
    OBVIOUS
  <1>1. CASE UNCHANGED S!vars
    BY <1>1 DEF S!vars, SInv, S!TypeOK, S!PermitsConserved, S!QueueConsistent, S!Waiting
  <1> QED
    BY <1>1, AcquireInv, EnqueueInv, TimeOutInv, ReleaseInv DEF S!Next

LEMMA SemaphoreInvariance == S!Spec => []SInv
  BY SemaphoreInitially, SemaphoreInductive, PTL DEF S!Spec

(* No permit is ever lost or made, however callers give up and release. *)
THEOREM PermitsAreConserved == S!Spec => []S!PermitsConserved
  <1>1. SInv => S!PermitsConserved
    BY DEF SInv
  <1> QED
    BY <1>1, SemaphoreInvariance, PTL

(* No caller waits beside a free permit, twice, or while it is inside. *)
THEOREM QueueIsConsistent == S!Spec => []S!QueueConsistent
  <1>1. SInv => S!QueueConsistent
    BY DEF SInv
  <1> QED
    BY <1>1, SemaphoreInvariance, PTL

(* The semaphore is FIFO: who comes in overtakes nobody who waits. *)
THEOREM FirstInFirstOut == S!Spec => S!NoOvertaking
  <1>1. SInv /\ [S!Next]_(S!vars) =>
          [\A c \in inside' \ inside : \A d \in S!Waiting :
              \/ c = d
              \/ \E j, k \in DOMAIN waiting : j < k /\ waiting[j] = c /\ waiting[k] = d]_(S!vars)
    <2> SUFFICES ASSUME SInv, S!Next, NEW c \in inside' \ inside, NEW d \in S!Waiting
                 PROVE  \/ c = d
                        \/ \E j, k \in DOMAIN waiting : j < k /\ waiting[j] = c /\ waiting[k] = d
      OBVIOUS
    <2>1. PICK k \in DOMAIN waiting : waiting[k] = d
      BY DEF S!Waiting
    <2>2. \E e \in Jobs : S!Release(e)
      BY <2>1 DEF S!Next, S!Acquire, S!Enqueue, S!TimeOut, SInv, S!QueueConsistent, S!TypeOK
    <2>3. c = waiting[1] /\ 1 \in DOMAIN waiting
      BY <2>1, <2>2 DEF S!Release, SInv, S!TypeOK
    <2> QED
      BY <2>1, <2>3 DEF SInv, S!TypeOK
  <1> QED
    BY <1>1, SemaphoreInvariance, PTL DEF S!Spec, S!NoOvertaking

-----------------------------------------------------------------------------
(* The results of the batcher, for any batch size. *)
Queued == B!ToSet(queue)

(* No result is in the queue twice. *)
QueuedOnce == \A j, k \in DOMAIN queue : queue[j] = queue[k] => j = k

(* The pending results are those in the queue or in flight. *)
PendingIsPlaced ==
    \A r \in Jobs :
        promise[r] = "pending" <=> (r \in Queued \/ \E b \in inFlight : r \in b)

(* The queue and the batches in flight have no result in common. *)
BatchesApart ==
    /\ \A b \in inFlight : IsFiniteSet(b) /\ b \cap Queued = {}
    /\ \A b, c \in inFlight : b \cap c # {} => b = c

(* What drain() was called for has been enqueued, and what of it is still  *)
(* pending is in a batch that drain() awaits.                              *)
DrainCovers ==
    /\ \A r \in promised : promise[r] # "none"
    /\ drain = "waiting" =>
          \A r \in promised :
              promise[r] = "pending" => \E b \in inFlight \cap awaited : r \in b

BInv ==
    /\ B!TypeOK /\ B!QueueHasTimer /\ B!ResolvedIsInserted /\ B!DrainAwaits
    /\ QueuedOnce /\ PendingIsPlaced /\ BatchesApart /\ DrainCovers

LEMMA BatcherInitially == B!Init => BInv
  <1> SUFFICES ASSUME B!Init PROVE BInv
    OBVIOUS
  <1>1. queue = <<>> /\ Len(queue) = 0 /\ DOMAIN queue = {} /\ queue \in Seq(Jobs)
    BY DEF B!Init
  <1>2. B!TypeOK
    <2>1. MaxBatchSize \in Nat \ {0} /\ 0 \in 0..MaxFaults
      BY BatcherAssumption
    <2>2. promise \in [Jobs -> {"none", "pending", "resolved", "rejected"}]
      BY DEF B!Init
    <2>3. Len(queue) < MaxBatchSize
      BY <1>1, <2>1
    <2> QED
      BY <1>1, <2>1, <2>2, <2>3, Zenon DEF B!Init, B!TypeOK
  <1>3. QueuedOnce /\ Queued = {}
    BY <1>1 DEF QueuedOnce, Queued, B!ToSet
  <1> QED
    BY <1>2, <1>3
       DEF B!Init, BInv, B!QueueHasTimer, B!ResolvedIsInserted, B!DrainAwaits, B!Unsettled,
           PendingIsPlaced, BatchesApart, DrainCovers

(* A batch made of a queue of at most MaxBatchSize results fits one INSERT. *)
LEMMA BatchFits ==
    ASSUME NEW s \in Seq(Jobs), s # <<>>, Len(s) <= MaxBatchSize
    PROVE  /\ B!ToSet(s) \subseteq Jobs /\ IsFiniteSet(B!ToSet(s))
           /\ B!Cardinality(B!ToSet(s)) \in 1..MaxBatchSize
  <1> DEFINE T == B!ToSet(s)
  <1>1. Len(s) \in Nat /\ DOMAIN s = 1..Len(s) /\ s \in [1..Len(s) -> T]
    BY DEF B!ToSet
  <1>2. s \in Surjection(1..Len(s), T)
    BY <1>1 DEF Surjection, B!ToSet
  <1>3. IsFiniteSet(1..Len(s)) /\ Cardinality(1..Len(s)) = Len(s)
    BY <1>1, FS_Interval
  <1>4. T \subseteq Jobs /\ s[1] \in T
    BY <1>1 DEF B!ToSet
  <1> HIDE DEF T
  <1>5. IsFiniteSet(T) /\ Cardinality(T) <= Len(s)
    BY <1>2, <1>3, FS_Surjection
  <1>6. Cardinality(T) \in Nat /\ Cardinality(T) # 0
    BY <1>4, <1>5, FS_EmptySet, FS_CardinalityType
  <1>7. Cardinality(T) \in 1..MaxBatchSize
    BY <1>1, <1>5, <1>6, BatcherAssumption
  <1> QED
    BY <1>4, <1>5, <1>7, SameCardinality DEF T

(* What enqueue does to the queue is to append, and to flush when it is    *)
(* full, which leaves nothing.                                             *)
LEMMA EnqueueCases ==
    ASSUME BInv, NEW r \in Jobs, B!Enqueue(r)
    PROVE  /\ Append(queue, r) \in Seq(Jobs)
           /\ B!ToSet(Append(queue, r)) = Queued \cup {r}
           /\ \/ /\ Len(queue) + 1 < MaxBatchSize
                 /\ queue' = Append(queue, r) /\ timer' = TRUE /\ inFlight' = inFlight
              \/ /\ queue' = <<>> /\ timer' = FALSE
                 /\ inFlight' = inFlight \cup {Queued \cup {r}}
                 /\ Len(queue) + 1 = MaxBatchSize
  <1> DEFINE q == Append(queue, r)
  <1>1. /\ q \in Seq(Jobs) /\ Len(q) = Len(queue) + 1 /\ Len(queue) \in Nat
        /\ \A k \in 1..Len(queue) : q[k] = queue[k]
        /\ q[Len(queue) + 1] = r
    BY DEF BInv, B!TypeOK
  <1>2. Len(queue) < MaxBatchSize
    BY DEF BInv, B!TypeOK
  <1>3. B!ToSet(q) = Queued \cup {r}
    <2>1. DOMAIN q = 1..(Len(queue) + 1) /\ DOMAIN queue = 1..Len(queue)
      BY <1>1 DEF BInv, B!TypeOK
    <2> QED
      BY <1>1, <2>1 DEF Queued, B!ToSet
  <1>4. CASE Len(q) >= MaxBatchSize
    <2>1. Len(q) = MaxBatchSize
      BY <1>1, <1>2, <1>4, BatcherAssumption
    <2>2. SubSeq(q, 1, Len(q)) = q /\ SubSeq(q, Len(q) + 1, Len(q)) = <<>>
      BY <1>1
    <2> QED
      BY <1>1, <1>3, <1>4, <2>1, <2>2 DEF B!Enqueue
  <1>5. CASE ~(Len(q) >= MaxBatchSize)
    BY <1>1, <1>3, <1>5, BatcherAssumption DEF B!Enqueue
  <1> QED
    BY <1>4, <1>5

LEMMA BatcherEnqueue == ASSUME BInv, NEW r \in Jobs, B!Enqueue(r) PROVE BInv'
  <1>1. /\ promise[r] = "none" /\ promise' = [promise EXCEPT ![r] = "pending"]
        /\ UNCHANGED <<rows, drain, awaited, promised, faults>>
    BY DEF B!Enqueue
  <1>2. promise \in [Jobs -> {"none", "pending", "resolved", "rejected"}]
    BY DEF BInv, B!TypeOK
  <1>3. r \notin Queued /\ \A b \in inFlight : r \notin b
    BY <1>1 DEF BInv, PendingIsPlaced
  <1>4. r \notin promised
    BY <1>1 DEF BInv, DrainCovers
  <1>5. /\ promise' \in [Jobs -> {"none", "pending", "resolved", "rejected"}]
        /\ \A s \in Jobs : promise'[s] = IF s = r THEN "pending" ELSE promise[s]
    BY <1>1, <1>2
  <1>6. B!ResolvedIsInserted'
    BY <1>1, <1>5 DEF BInv, B!ResolvedIsInserted
  <1>7. B!DrainAwaits'
    BY <1>1, <1>4, <1>5 DEF BInv, B!DrainAwaits, B!Unsettled, B!TypeOK
  <1>8. DrainCovers'
    <2>1. inFlight \subseteq inFlight'
      BY EnqueueCases
    <2> QED
      BY <1>1, <1>4, <1>5, <2>1 DEF BInv, DrainCovers, B!TypeOK
  <1>9. CASE /\ Len(queue) + 1 < MaxBatchSize
             /\ queue' = Append(queue, r) /\ timer' = TRUE /\ inFlight' = inFlight
    <2>1. /\ queue' \in Seq(Jobs) /\ Len(queue') = Len(queue) + 1 /\ Len(queue) \in Nat
          /\ \A k \in 1..Len(queue) : queue'[k] = queue[k]
          /\ queue'[Len(queue) + 1] = r
      BY <1>9 DEF BInv, B!TypeOK
    <2>2. Queued' = Queued \cup {r}
      BY <1>9, EnqueueCases DEF Queued
    <2>3. B!TypeOK'
      BY <1>1, <1>5, <1>9, <2>1 DEF BInv, B!TypeOK
    <2>4. QueuedOnce'
      <3>1. \A k \in 1..Len(queue) : queue[k] # r
        BY <1>3, <2>1 DEF Queued, B!ToSet, BInv, B!TypeOK
      <3> QED
        BY <2>1, <3>1 DEF BInv, B!TypeOK, QueuedOnce
    <2>5. PendingIsPlaced'
      BY <1>3, <1>5, <1>9, <2>2 DEF BInv, PendingIsPlaced
    <2>6. BatchesApart'
      BY <1>3, <1>9, <2>2 DEF BInv, BatchesApart
    <2>7. B!QueueHasTimer'
      BY <1>9, <2>1 DEF B!QueueHasTimer
    <2> QED
      BY <1>6, <1>7, <1>8, <2>3, <2>4, <2>5, <2>6, <2>7 DEF BInv
  <1>10. CASE /\ queue' = <<>> /\ timer' = FALSE
              /\ inFlight' = inFlight \cup {Queued \cup {r}}
              /\ Len(queue) + 1 = MaxBatchSize
    <2>1. /\ Queued \cup {r} \subseteq Jobs /\ IsFiniteSet(Queued \cup {r})
          /\ B!Cardinality(Queued \cup {r}) \in 1..MaxBatchSize
      <3>1. /\ Append(queue, r) \in Seq(Jobs) /\ Append(queue, r) # <<>>
            /\ Len(Append(queue, r)) <= MaxBatchSize
        BY <1>10, BatcherAssumption DEF BInv, B!TypeOK
      <3>2. B!ToSet(Append(queue, r)) = Queued \cup {r}
        BY EnqueueCases
      <3> QED
        BY <3>1, <3>2, BatchFits
    <2>2. queue' \in Seq(Jobs) /\ Len(queue') = 0 /\ DOMAIN queue' = {} /\ Queued' = {}
      BY <1>10 DEF Queued, B!ToSet
    <2>3. B!TypeOK'
      <3>1. \A b \in inFlight' : b \subseteq Jobs /\ B!Cardinality(b) \in 1..MaxBatchSize
        BY <1>10, <2>1 DEF BInv, B!TypeOK
      <3>2. Len(queue') < MaxBatchSize
        BY <2>2, BatcherAssumption
      <3> QED
        BY <1>1, <1>5, <1>10, <2>2, <3>1, <3>2 DEF BInv, B!TypeOK
    <2>4. QueuedOnce'
      BY <2>2 DEF QueuedOnce
    <2>5. PendingIsPlaced'
      <3> SUFFICES ASSUME NEW s \in Jobs
                   PROVE  promise'[s] = "pending" <=> \E b \in inFlight' : s \in b
        BY <2>2 DEF PendingIsPlaced
      <3>1. (\E b \in inFlight' : s \in b)
              <=> (s = r \/ s \in Queued \/ \E b \in inFlight : s \in b)
        BY <1>10
      <3> QED
        BY <1>5, <3>1 DEF BInv, PendingIsPlaced
    <2>6. BatchesApart'
      <3>1. ASSUME NEW b \in inFlight PROVE b \cap (Queued \cup {r}) = {}
        BY <1>3 DEF BInv, BatchesApart
      <3>2. \A b \in inFlight' : IsFiniteSet(b)
        BY <1>10, <2>1 DEF BInv, BatchesApart
      <3>3. ASSUME NEW b \in inFlight', NEW c \in inFlight', b \cap c # {} PROVE b = c
        BY <1>10, <3>1, <3>3 DEF BInv, BatchesApart
      <3> QED
        BY <2>2, <3>2, <3>3 DEF BatchesApart
    <2>7. B!QueueHasTimer'
      BY <1>10 DEF B!QueueHasTimer
    <2> QED
      BY <1>6, <1>7, <1>8, <2>3, <2>4, <2>5, <2>6, <2>7 DEF BInv
  <1> QED
    BY <1>9, <1>10, EnqueueCases

(* A flush moves the whole queue into one batch. *)
LEMMA Flush ==
    ASSUME BInv, timer' = FALSE, inFlight' = inFlight \cup B!Batches, queue' = <<>>,
           UNCHANGED <<promise, faults, rows>>
    PROVE  /\ queue' \in Seq(Jobs) /\ Len(queue') < MaxBatchSize
           /\ \A b \in inFlight' : b \subseteq Jobs /\ B!Cardinality(b) \in 1..MaxBatchSize
           /\ B!QueueHasTimer' /\ QueuedOnce' /\ PendingIsPlaced' /\ BatchesApart'
           /\ \A r \in Jobs : promise[r] = "pending" => \E b \in inFlight' : r \in b
  <1>1. queue' \in Seq(Jobs) /\ Len(queue') = 0 /\ DOMAIN queue' = {} /\ Queued' = {}
    BY DEF Queued, B!ToSet
  <1>2. B!Batches = IF queue = <<>> THEN {} ELSE {Queued}
    BY DEF B!Batches, Queued
  <1>3. queue = <<>> => Queued = {}
    BY DEF Queued, B!ToSet
  <1>4. queue # <<>> => /\ Queued \subseteq Jobs /\ IsFiniteSet(Queued)
                        /\ B!Cardinality(Queued) \in 1..MaxBatchSize
    BY BatchFits, BatcherAssumption DEF BInv, B!TypeOK, Queued
  <1>5. \A b \in inFlight' : b \subseteq Jobs /\ B!Cardinality(b) \in 1..MaxBatchSize
    BY <1>2, <1>4 DEF BInv, B!TypeOK
  <1>6. \A r \in Jobs : promise[r] = "pending" <=> \E b \in inFlight' : r \in b
    BY <1>2, <1>3 DEF BInv, PendingIsPlaced
  <1>7. PendingIsPlaced'
    BY <1>1, <1>6 DEF PendingIsPlaced
  <1>8. BatchesApart'
    BY <1>1, <1>2, <1>4 DEF BInv, BatchesApart
  <1>9. B!QueueHasTimer' /\ QueuedOnce' /\ Len(queue') < MaxBatchSize
    BY <1>1, BatcherAssumption DEF B!QueueHasTimer, QueuedOnce
  <1> QED
    BY <1>1, <1>5, <1>6, <1>7, <1>8, <1>9

LEMMA BatcherTimerFires == ASSUME BInv, B!TimerFires PROVE BInv'
  <1>1. /\ timer' = FALSE /\ inFlight' = inFlight \cup B!Batches /\ queue' = <<>>
        /\ UNCHANGED <<promise, rows, drain, awaited, promised, faults>>
    BY DEF B!TimerFires
  <1>2. /\ queue' \in Seq(Jobs) /\ Len(queue') < MaxBatchSize
        /\ \A b \in inFlight' : b \subseteq Jobs /\ B!Cardinality(b) \in 1..MaxBatchSize
        /\ B!QueueHasTimer' /\ QueuedOnce' /\ PendingIsPlaced' /\ BatchesApart'
    BY <1>1, Flush
  <1>3. B!TypeOK'
    BY <1>1, <1>2 DEF BInv, B!TypeOK
  <1>4. B!ResolvedIsInserted' /\ B!DrainAwaits' /\ DrainCovers'
    BY <1>1 DEF BInv, B!ResolvedIsInserted, B!DrainAwaits, B!Unsettled, DrainCovers
  <1> QED
    BY <1>2, <1>3, <1>4 DEF BInv

LEMMA BatcherDrainCall == ASSUME BInv, B!DrainCall PROVE BInv'
  <1>1. /\ timer' = FALSE /\ inFlight' = inFlight \cup B!Batches /\ queue' = <<>>
        /\ drain' = "waiting" /\ awaited' = inFlight' /\ promised' = B!Unsettled
        /\ UNCHANGED <<promise, rows, faults>>
    BY DEF B!DrainCall
  <1>2. /\ queue' \in Seq(Jobs) /\ Len(queue') < MaxBatchSize
        /\ \A b \in inFlight' : b \subseteq Jobs /\ B!Cardinality(b) \in 1..MaxBatchSize
        /\ B!QueueHasTimer' /\ QueuedOnce' /\ PendingIsPlaced' /\ BatchesApart'
        /\ \A r \in Jobs : promise[r] = "pending" => \E b \in inFlight' : r \in b
    BY <1>1, Flush
  <1>3. B!TypeOK'
    BY <1>1, <1>2 DEF BInv, B!TypeOK, B!Unsettled
  <1>4. B!ResolvedIsInserted' /\ B!DrainAwaits'
    BY <1>1 DEF BInv, B!ResolvedIsInserted, B!DrainAwaits
  <1>5. DrainCovers'
    BY <1>1, <1>2 DEF DrainCovers, B!Unsettled
  <1> QED
    BY <1>2, <1>3, <1>4, <1>5 DEF BInv

LEMMA BatcherDrainReturn == ASSUME BInv, B!DrainReturn PROVE BInv'
  <1>1. /\ drain = "waiting" /\ awaited \cap inFlight = {} /\ drain' = "returned"
        /\ UNCHANGED <<queue, timer, inFlight, promise, rows, awaited, promised, faults>>
    BY DEF B!DrainReturn
  <1>2. B!DrainAwaits'
    BY <1>1 DEF BInv, DrainCovers, B!DrainAwaits, B!Unsettled
  <1>3. Queued' = Queued
    BY <1>1 DEF Queued
  <1> QED
    BY <1>1, <1>2, <1>3
       DEF BInv, B!TypeOK, B!QueueHasTimer, B!ResolvedIsInserted, QueuedOnce,
           PendingIsPlaced, BatchesApart, DrainCovers

LEMMA BatcherForget == ASSUME BInv, NEW r \in Jobs, B!Forget(r) PROVE BInv'
  <1>1. /\ promise[r] \in {"resolved", "rejected"}
        /\ promise' = [promise EXCEPT ![r] = "none"]
        /\ rows' = rows \ {r} /\ promised' = promised \ {r}
        /\ UNCHANGED <<queue, timer, inFlight, drain, awaited, faults>>
    BY DEF B!Forget
  <1>2. /\ promise' \in [Jobs -> {"none", "pending", "resolved", "rejected"}]
        /\ \A s \in Jobs : promise'[s] = IF s = r THEN "none" ELSE promise[s]
    BY <1>1 DEF BInv, B!TypeOK
  <1>3. Queued' = Queued
    BY <1>1 DEF Queued
  <1>4. B!TypeOK'
    BY <1>1, <1>2 DEF BInv, B!TypeOK
  <1>5. PendingIsPlaced'
    BY <1>1, <1>2, <1>3 DEF BInv, PendingIsPlaced
  <1>6. B!ResolvedIsInserted'
    BY <1>1, <1>2 DEF BInv, B!ResolvedIsInserted
  <1>7. B!DrainAwaits' /\ DrainCovers'
    BY <1>1, <1>2 DEF BInv, B!TypeOK, B!DrainAwaits, B!Unsettled, DrainCovers
  <1>8. B!QueueHasTimer' /\ QueuedOnce' /\ BatchesApart'
    BY <1>1, <1>3 DEF BInv, B!QueueHasTimer, QueuedOnce, BatchesApart
  <1> QED
    BY <1>4, <1>5, <1>6, <1>7, <1>8 DEF BInv

(* Whatever the database answers, it settles one batch as a whole. *)
LEMMA BatcherAnswer == ASSUME BInv, NEW b \in inFlight, B!Answer(b) PROVE BInv'
  <1>1. PICK outcome \in {"resolved", "rejected"} :
          /\ B!Settle(b, outcome)
          /\ rows \subseteq rows' /\ rows' \subseteq rows \cup b
          /\ outcome = "resolved" => b \subseteq rows'
          /\ faults' \in 0..MaxFaults
    <2>1. faults \in 0..MaxFaults
      BY DEF BInv, B!TypeOK
    <2>2. CASE B!DoInsert(b)
      BY <2>1, <2>2 DEF B!DoInsert
    <2>3. CASE B!DoInsertFails(b)
      <3>1. faults' \in 0..MaxFaults
        BY <2>1, <2>3, BatcherAssumption DEF B!DoInsertFails
      <3> QED
        BY <2>3, <3>1 DEF B!DoInsertFails
    <2>4. CASE B!DoInsertOrphans(b)
      BY <2>1, <2>4 DEF B!DoInsertOrphans
    <2> QED
      BY <2>2, <2>3, <2>4 DEF B!Answer
  <1>2. /\ inFlight' = inFlight \ {b}
        /\ promise' = [r \in Jobs |-> IF r \in b THEN outcome ELSE promise[r]]
        /\ UNCHANGED <<queue, timer, drain, awaited, promised>>
    BY <1>1 DEF B!Settle
  <1>3. /\ promise' \in [Jobs -> {"none", "pending", "resolved", "rejected"}]
        /\ \A r \in Jobs : promise'[r] = IF r \in b THEN outcome ELSE promise[r]
    BY <1>2 DEF BInv, B!TypeOK
  <1>4. Queued' = Queued
    BY <1>2 DEF Queued
  <1>5. b \subseteq Jobs
    BY DEF BInv, B!TypeOK
  <1>6. B!TypeOK'
    BY <1>1, <1>2, <1>3, <1>5 DEF BInv, B!TypeOK
  <1>7. PendingIsPlaced'
    <2> SUFFICES ASSUME NEW r \in Jobs
                 PROVE  promise'[r] = "pending" <=> (r \in Queued \/ \E c \in inFlight' : r \in c)
      BY <1>4 DEF PendingIsPlaced
    <2>1. CASE r \in b
      BY <1>2, <1>3, <2>1 DEF BInv, BatchesApart
    <2>2. CASE r \notin b
      BY <1>2, <1>3, <2>2 DEF BInv, PendingIsPlaced
    <2> QED
      BY <2>1, <2>2
  <1>8. B!ResolvedIsInserted'
    BY <1>1, <1>3 DEF BInv, B!ResolvedIsInserted
  <1>9. B!DrainAwaits'
    BY <1>2, <1>3 DEF BInv, B!DrainAwaits, B!Unsettled
  <1>10. DrainCovers'
    BY <1>2, <1>3 DEF BInv, B!TypeOK, DrainCovers
  <1>11. B!QueueHasTimer' /\ QueuedOnce' /\ BatchesApart'
    BY <1>2, <1>4 DEF BInv, B!QueueHasTimer, QueuedOnce, BatchesApart
  <1> QED
    BY <1>6, <1>7, <1>8, <1>9, <1>10, <1>11 DEF BInv

LEMMA BatcherInductive == BInv /\ [B!Next]_(B!vars) => BInv'
  <1> SUFFICES ASSUME BInv, [B!Next]_(B!vars) PROVE BInv'
    OBVIOUS
  <1>1. CASE UNCHANGED B!vars
    BY <1>1 DEF B!vars, BInv, B!TypeOK, B!QueueHasTimer, B!ResolvedIsInserted,
                B!DrainAwaits, B!Unsettled, Queued, QueuedOnce, PendingIsPlaced,
                BatchesApart, DrainCovers
  <1>2. CASE B!Next
    BY <1>2, BatcherEnqueue, BatcherForget, BatcherTimerFires, BatcherAnswer,
       BatcherDrainCall, BatcherDrainReturn DEF B!Next
  <1> QED
    BY <1>1, <1>2

LEMMA BatcherInvariance == B!Spec => []BInv
  BY BatcherInitially, BatcherInductive, PTL DEF B!Spec

(* A pending result is in exactly one place, any other in none. *)
LEMMA InOnePlace == BInv => B!PendingInOnePlace
  <1> SUFFICES ASSUME BInv, NEW r \in Jobs
               PROVE  Cardinality({k \in DOMAIN queue : queue[k] = r})
                        + Cardinality({b \in inFlight : r \in b})
                        = IF promise[r] = "pending" THEN 1 ELSE 0
    BY SameCardinality DEF B!PendingInOnePlace
  <1> DEFINE queued  == {k \in DOMAIN queue : queue[k] = r}
             batched == {b \in inFlight : r \in b}
  <1>1. r \in Queued <=> queued # {}
    BY DEF Queued, B!ToSet
  <1>2. queued # {} => \E k : queued = {k}
    BY DEF BInv, QueuedOnce
  <1>3. batched # {} => \E b : batched = {b}
    BY DEF BInv, BatchesApart
  <1>4. queued = {} \/ batched = {}
    BY <1>1 DEF BInv, BatchesApart
  <1>5. promise[r] = "pending" <=> queued # {} \/ batched # {}
    BY <1>1 DEF BInv, PendingIsPlaced
  <1> HIDE DEF queued, batched
  <1>6. Cardinality(queued) = IF queued = {} THEN 0 ELSE 1
    BY <1>2, FS_Singleton, FS_EmptySet
  <1>7. Cardinality(batched) = IF batched = {} THEN 0 ELSE 1
    BY <1>3, FS_Singleton, FS_EmptySet
  <1>8. Cardinality(queued) + Cardinality(batched) = IF promise[r] = "pending" THEN 1 ELSE 0
    BY <1>4, <1>5, <1>6, <1>7
  <1> QED
    BY <1>8 DEF queued, batched

-----------------------------------------------------------------------------
(* The process starts with all permits free and nothing to insert. *)
LEMMA PartsBegin == Init => S!Init /\ B!Init
  BY DEF Init

(* A step of a process that does not concern the semaphore leaves it; any  *)
(* other is one call of it (processMessage, run).                          *)
LEMMA SemaphoreSteps == Next => [S!Next]_(S!vars)
  <1> SUFFICES ASSUME Next PROVE S!Next \/ UNCHANGED S!vars
    OBVIOUS
  <1>1. ASSUME NEW j \in Jobs, Arrive(j) \/ Skip(j) \/ JobEnds(j) \/ RedisFails(j) \/ GiveUp(j)
        PROVE  S!Next
    BY <1>1 DEF Arrive, Skip, JobEnds, RedisFails, GiveUp, S!Next
  <1>2. ASSUME NEW j \in Jobs, Execute(j) \/ Inserted(j) \/ Unheard(j)
        PROVE  UNCHANGED S!vars
    BY <1>2 DEF Execute, Inserted, Unheard, semaphore, S!vars
  <1>3. CASE TimerFires \/ Stop \/ LastPollReturns \/ Drain \/ Exit
    BY <1>3 DEF TimerFires, Stop, LastPollReturns, Drain, Exit, semaphore, S!vars
  <1> QED
    BY <1>1, <1>2, <1>3 DEF Next

(* Likewise of the batcher, whose answers a job that has lost Redis leaves *)
(* to nobody (executeCheck, disconnect).                                   *)
LEMMA BatcherSteps == Next => [B!Next]_(B!vars)
  <1> SUFFICES ASSUME Next PROVE B!Next \/ UNCHANGED B!vars
    OBVIOUS
  <1>1. ASSUME NEW j \in Jobs, Execute(j) \/ JobEnds(j) \/ Unheard(j)
        PROVE  B!Next
    BY <1>1 DEF Execute, JobEnds, Unheard, B!Next
  <1>2. ASSUME NEW j \in Jobs, Inserted(j)
        PROVE  B!Next
    BY <1>2 DEF Inserted, B!Next
  <1>3. ASSUME NEW j \in Jobs, Arrive(j) \/ Skip(j) \/ RedisFails(j) \/ GiveUp(j)
        PROVE  UNCHANGED B!vars
    BY <1>3 DEF Arrive, Skip, RedisFails, GiveUp, batcher, B!vars
  <1>4. CASE TimerFires \/ Drain \/ Exit
    BY <1>4 DEF TimerFires, Drain, Exit, B!Next
  <1>5. CASE Stop \/ LastPollReturns
    BY <1>5 DEF Stop, LastPollReturns, batcher, B!vars
  <1> QED
    BY <1>1, <1>2, <1>3, <1>4, <1>5 DEF Next

(* What a step leaves of the process it leaves of its parts. *)
LEMMA StuttersAreStutters == UNCHANGED vars => UNCHANGED S!vars /\ UNCHANGED B!vars
  BY DEF vars, semaphore, batcher, S!vars, B!vars

(* The process drives the semaphore and the batcher by their own           *)
(* operations only, whatever it is doing when it is stopped.               *)
THEOREM ProcessImplementsComponents == Spec => ImplementsComponents
  <1>1. [Next]_vars => [S!Next]_(S!vars) /\ [B!Next]_(B!vars)
    BY SemaphoreSteps, BatcherSteps, StuttersAreStutters
  <1> QED
    BY PartsBegin, <1>1, PTL DEF Spec, S!Spec, B!Spec, ImplementsComponents

(* What the process knows of its jobs when it is told to stop: each is one *)
(* that its end awaits or one that the last poll brought, and the batcher  *)
(* is drained only after all of the former.                                *)
StopInv ==
    /\ process \in {"up", "lastPoll", "stopping", "ended"}
    /\ lasting \subseteq Active /\ late \subseteq Active
    /\ process \in {"lastPoll", "stopping"} => Active \subseteq lasting \cup late
    /\ drain # "notCalled" => process # "up" /\ lasting = {} /\ Active \subseteq late

LEMMA ArriveActive ==
    ASSUME SInv, NEW j \in Jobs, S!Acquire(j) \/ S!Enqueue(j)
    PROVE  Active' = Active \cup {j}
  <1>1. CASE S!Acquire(j)
    BY <1>1 DEF S!Acquire, Active, S!Waiting
  <1>2. CASE S!Enqueue(j)
    <2>1. /\ Len(waiting') = Len(waiting) + 1 /\ Len(waiting) \in Nat
          /\ DOMAIN waiting = 1..Len(waiting) /\ DOMAIN waiting' = 1..(Len(waiting) + 1)
          /\ \A k \in 1..Len(waiting) : waiting'[k] = waiting[k]
          /\ waiting'[Len(waiting) + 1] = j
      BY <1>2 DEF SInv, S!TypeOK, S!Enqueue
    <2>2. S!Waiting' = S!Waiting \cup {j}
      BY <2>1 DEF S!Waiting
    <2> QED
      BY <1>2, <2>2 DEF Active, S!Enqueue
  <1> QED
    BY <1>1, <1>2

LEMMA ReleaseActive ==
    ASSUME SInv, NEW j \in Jobs, S!Release(j)
    PROVE  Active' = Active \ {j}
  <1>1. j \in inside /\ j \notin S!Waiting
    BY DEF SInv, S!QueueConsistent, S!Release
  <1>2. CASE waiting = <<>>
    BY <1>1, <1>2 DEF S!Release, Active, S!Waiting
  <1>3. CASE waiting # <<>>
    <2>1. /\ waiting' = Tail(waiting) /\ inside' = (inside \ {j}) \cup {waiting[1]}
          /\ Len(waiting) \in Nat \ {0} /\ DOMAIN waiting = 1..Len(waiting)
      BY <1>3 DEF SInv, S!TypeOK, S!Release
    <2>2. /\ DOMAIN waiting' = 1..(Len(waiting) - 1)
          /\ \A k \in 1..(Len(waiting) - 1) : waiting'[k] = waiting[k + 1]
      BY <1>3, <2>1 DEF SInv, S!TypeOK
    <2>3. S!Waiting = S!Waiting' \cup {waiting[1]}
      <3>1. ASSUME NEW k \in 1..Len(waiting), k # 1
            PROVE  waiting[k] \in S!Waiting'
        <4>1. k - 1 \in DOMAIN waiting' /\ waiting'[k - 1] = waiting[k]
          BY <2>1, <2>2, <3>1
        <4> QED
          BY <4>1 DEF S!Waiting
      <3>2. S!Waiting' \subseteq S!Waiting
        <4>1. \A k \in DOMAIN waiting' : k + 1 \in DOMAIN waiting
          BY <2>1, <2>2
        <4> QED
          BY <2>2, <4>1 DEF S!Waiting
      <3>3. 1 \in DOMAIN waiting
        BY <2>1
      <3> QED
        BY <2>1, <3>1, <3>2, <3>3 DEF S!Waiting
    <2> QED
      BY <1>1, <2>1, <2>3 DEF Active
  <1> QED
    BY <1>2, <1>3

LEMMA TimeOutActive ==
    ASSUME SInv, NEW j \in Jobs, S!TimeOut(j)
    PROVE  Active' = Active \ {j}
  <1>1. PICK n \in DOMAIN waiting : waiting[n] = j /\ waiting' = S!RemoveAt(waiting, n)
    BY DEF S!TimeOut
  <1>2. /\ DOMAIN waiting' = 1..(Len(waiting) - 1)
        /\ \A k \in 1..(Len(waiting) - 1) :
              waiting'[k] = IF k < n THEN waiting[k] ELSE waiting[k + 1]
        /\ DOMAIN waiting = 1..Len(waiting) /\ Len(waiting) \in Nat
    BY <1>1, RemoveAtProperties DEF SInv, S!TypeOK
  <1>3. inside' = inside /\ j \notin inside
    BY <1>1 DEF S!TimeOut, SInv, S!QueueConsistent, S!Waiting
  <1>4. S!Waiting' \subseteq S!Waiting \ {j}
    <2> SUFFICES ASSUME NEW k \in DOMAIN waiting' PROVE waiting'[k] \in S!Waiting \ {j}
      BY DEF S!Waiting
    <2>1. PICK m \in DOMAIN waiting : m # n /\ waiting'[k] = waiting[m]
      <3>1. CASE k < n
        BY <1>2, <3>1
      <3>2. CASE ~(k < n)
        <4>1. k + 1 \in DOMAIN waiting /\ k + 1 # n /\ waiting'[k] = waiting[k + 1]
          BY <1>1, <1>2, <3>2
        <4> QED
          BY <4>1
      <3> QED
        BY <3>1, <3>2
    <2> QED
      BY <1>1, <2>1 DEF SInv, S!QueueConsistent, S!Waiting
  <1>5. S!Waiting \ {j} \subseteq S!Waiting'
    <2> SUFFICES ASSUME NEW k \in DOMAIN waiting, waiting[k] # j PROVE waiting[k] \in S!Waiting'
      BY DEF S!Waiting
    <2>1. PICK m \in DOMAIN waiting' : waiting'[m] = waiting[k]
      <3>1. CASE k < n
        BY <1>1, <1>2, <3>1
      <3>2. CASE ~(k < n)
        <4>1. k # n
          BY <1>1
        <4>2. k - 1 \in DOMAIN waiting' /\ ~(k - 1 < n) /\ (k - 1) + 1 = k
          BY <1>1, <1>2, <3>2, <4>1
        <4>3. waiting'[k - 1] = waiting[k]
          BY <1>2, <4>2
        <4> QED
          BY <4>2, <4>3
      <3> QED
        BY <3>1, <3>2
    <2> QED
      BY <2>1 DEF S!Waiting
  <1> QED
    BY <1>3, <1>4, <1>5 DEF Active

LEMMA StopInitially == Init => StopInv
  BY DEF Init, B!Init, StopInv

(* Only drain() itself changes the state of drain(). *)
LEMMA StopJobs == ASSUME SInv, StopInv, NEW j \in Jobs,
                         \/ Arrive(j) \/ Skip(j) \/ Execute(j) \/ Inserted(j)
                         \/ JobEnds(j) \/ RedisFails(j) \/ Unheard(j) \/ GiveUp(j)
                  PROVE  StopInv'
  <1>1. drain' = drain
    BY DEF Arrive, Skip, Execute, Inserted, JobEnds, RedisFails, Unheard, GiveUp, batcher,
           B!Enqueue, B!Forget, B!Answer, B!DoInsert, B!DoInsertFails, B!DoInsertOrphans, B!Settle
  <1>2. CASE Arrive(j)
    <2>1. Active' = Active \cup {j}
      BY <1>2, ArriveActive DEF Arrive
    <2>2. process \in {"up", "lastPoll"} /\ process' = process /\ lasting' = lasting
          /\ late' = IF process = "lastPoll" THEN late \cup {j} ELSE late
      BY <1>2 DEF Arrive
    <2> QED
      BY <1>1, <2>1, <2>2 DEF StopInv
  <1>3. CASE Skip(j) \/ JobEnds(j) \/ RedisFails(j)
    <2>1. Active' = Active \ {j}
      BY <1>3, ReleaseActive DEF Skip, JobEnds, RedisFails
    <2>2. process' = process /\ lasting' = lasting \ {j} /\ late' = late \ {j}
      BY <1>3 DEF Skip, JobEnds, RedisFails, Gone
    <2> QED
      BY <1>1, <2>1, <2>2 DEF StopInv
  <1>4. CASE GiveUp(j)
    <2>1. Active' = Active \ {j}
      BY <1>4, TimeOutActive DEF GiveUp
    <2>2. process' = "ended" /\ lasting' = lasting \ {j} /\ late' = late \ {j}
      BY <1>4 DEF GiveUp, Gone
    <2> QED
      BY <1>1, <2>1, <2>2 DEF StopInv
  <1>5. CASE Execute(j) \/ Inserted(j) \/ Unheard(j)
    <2>1. UNCHANGED <<inside, waiting, process, lasting, late>>
      BY <1>5 DEF Execute, Inserted, Unheard, semaphore
    <2> QED
      BY <1>1, <2>1 DEF StopInv, Active, S!Waiting
  <1> QED
    BY <1>2, <1>3, <1>4, <1>5

LEMMA StopInductive == SInv /\ StopInv /\ [Next]_vars => StopInv'
  <1> SUFFICES ASSUME SInv, StopInv, [Next]_vars PROVE StopInv'
    OBVIOUS
  <1>1. CASE TimerFires
    BY <1>1 DEF TimerFires, B!TimerFires, semaphore, StopInv, Active, S!Waiting
  <1>2. CASE Stop
    BY <1>2 DEF Stop, semaphore, batcher, StopInv, Active, S!Waiting
  <1>3. CASE LastPollReturns
    BY <1>3 DEF LastPollReturns, semaphore, batcher, StopInv, Active, S!Waiting
  <1>4. CASE Drain
    BY <1>4 DEF Drain, B!DrainCall, semaphore, StopInv, Active, S!Waiting
  <1>5. CASE Exit
    BY <1>5 DEF Exit, B!DrainReturn, semaphore, StopInv, Active, S!Waiting
  <1>6. CASE UNCHANGED vars
    BY <1>6 DEF vars, semaphore, batcher, StopInv, Active, S!Waiting
  <1> QED
    BY <1>1, <1>2, <1>3, <1>4, <1>5, <1>6, StopJobs DEF Next

LEMMA Invariance == Spec => [](SInv /\ BInv /\ StopInv)
  <1>1. Spec => []SInv /\ []BInv
    BY ProcessImplementsComponents, SemaphoreInvariance, BatcherInvariance, PTL
       DEF ImplementsComponents
  <1> QED
    BY <1>1, StopInitially, StopInductive, PTL DEF Spec

(* The process gives neither part an occasion to lose a permit, a waiting  *)
(* job, a result or a batch.                                               *)
THEOREM ProcessInvHolds == Spec => []ProcessInv
  <1>1. SInv /\ BInv /\ StopInv => ProcessInv
    BY InOnePlace DEF SInv, BInv, StopInv, ProcessInv, TypeOK
  <1> QED
    BY <1>1, Invariance, PTL

(* A process that exits in order cuts off only what its last poll brought. *)
THEOREM ActiveAreAwaitedHolds == Spec => []ActiveAreAwaited
  <1>1. StopInv => ActiveAreAwaited
    BY DEF StopInv, ActiveAreAwaited
  <1> QED
    BY <1>1, Invariance, PTL
=============================================================================
