------------------------ MODULE AlertDelivery_proofs ------------------------
(* What people are told of an incident: what the alert workers and the     *)
(* queue hold to, for any number of alerts, channels and workers, and what *)
(* an open page hears and shows, for any number of incidents, connections  *)
(* and requests, with any number of failures of either.                    *)
EXTENDS AlertDelivery, IncidentList, Integers, FiniteSetTheorems, SequenceTheorems,
        WellFoundedInduction, TLAPS

AllLogged(a) == \A ch \in channels : <<a, ch>> \in log

(* A channel is to be notified, or was and awaits its log entry, or has    *)
(* failed, or is in the log; a dispatch that is over has logged them all.  *)
DeliveryOK(d) ==
    /\ d.left \cup d.unlogged \cup d.failed \subseteq channels
    /\ d.step # "send" => d.left = {} /\ d.unlogged = {} /\ d.failed = {}
    /\ d.step = "send" =>
          \A ch \in channels \ (d.left \cup d.unlogged \cup d.failed) : <<d.alert, ch>> \in log
    /\ \A ch \in d.unlogged \ Webhooks : notified[<<d.alert, ch>>] >= 1
    /\ d.step = "end" => d.alert \in Orphans \cup malformed \/ AllLogged(d.alert)

Recorded ==
    /\ \A a \in Alerts, ch \in Channels : <<a, ch>> \in log => notified[<<a, ch>>] >= 1
    /\ \A a \in Alerts \ (Orphans \cup malformed) : place[a] = "deleted" => AllLogged(a)

(* Every receive makes one delivery. *)
OneEach ==
    /\ \A d \in deliveries : d.nth <= receives[d.alert]
    /\ \A d, e \in deliveries : d.alert = e.alert /\ d.nth = e.nth => d = e

MayNotify(d, ch) == d.step = "load" \/ ch \in d.left

(* The receives of alert a whose delivery may still notify channel ch.     *)
Pending(a, ch) ==
    {n \in 1..receives[a] :
        \E d \in deliveries : d.alert = a /\ d.nth = n /\ MayNotify(d, ch)}

Counted == \A a \in Alerts, ch \in Channels :
              notified[<<a, ch>>] + Cardinality(Pending(a, ch)) <= receives[a]

(* An alert that may be received once more without a failure.              *)
MayReturn(a) ==
    \/ place[a] = "visible"
    \/ /\ place[a] = "inFlight"
       /\ \A d \in deliveries : d.alert = a /\ d.nth = receives[a] => d.failed # {}

(* Each receive after the first was paid for by a failure. *)
Paid == \A a \in Alerts :
           /\ receives[a] <= faults + 1
           /\ MayReturn(a) => receives[a] <= faults

IInv ==
    /\ TypeOK
    /\ \A d \in deliveries : DeliveryOK(d)
    /\ Recorded
    /\ OneEach
    /\ Counted
    /\ channels \cap Webhooks = {} => Paid

Places == {"visible", "inFlight", "deleted", "dead"}

-----------------------------------------------------------------------------
(* Sets of receives *)

LEMMA CountLess ==
  ASSUME NEW n \in Nat, NEW S \in SUBSET (1..n), NEW T \in SUBSET S
  PROVE  /\ Cardinality(S) \in Nat /\ Cardinality(T) \in Nat
         /\ Cardinality(T) <= Cardinality(S)
  <1>1. IsFiniteSet(S)
    <2>1. IsFiniteSet(1..n)
      BY FS_Interval
    <2> QED
      BY <2>1, FS_Subset
  <1> QED
    BY <1>1, FS_Subset, FS_CardinalityType

LEMMA CountOneLess ==
  ASSUME NEW n \in Nat, NEW S \in SUBSET (1..n), NEW x \in S, NEW T \in SUBSET (S \ {x})
  PROVE  Cardinality(T) + 1 <= Cardinality(S)
  <1>1. IsFiniteSet(S)
    <2>1. IsFiniteSet(1..n)
      BY FS_Interval
    <2> QED
      BY <2>1, FS_Subset
  <1>2. IsFiniteSet(S \ {x}) /\ Cardinality(S \ {x}) = Cardinality(S) - 1
    BY <1>1, FS_RemoveElement
  <1>3. Cardinality(T) <= Cardinality(S \ {x})
    BY <1>2, FS_Subset
  <1>4. Cardinality(S) \in Nat /\ Cardinality(T) \in Nat
    BY <1>1, <1>2, FS_CardinalityType, FS_Subset
  <1> QED
    BY <1>2, <1>3, <1>4

LEMMA CountOneMore ==
  ASSUME NEW n \in Nat, NEW S \in SUBSET (1..n), NEW x, NEW T \in SUBSET (S \cup {x})
  PROVE  Cardinality(T) <= Cardinality(S) + 1
  <1>1. IsFiniteSet(S)
    <2>1. IsFiniteSet(1..n)
      BY FS_Interval
    <2> QED
      BY <2>1, FS_Subset
  <1>2. IsFiniteSet(S \cup {x}) /\ Cardinality(S \cup {x}) <= Cardinality(S) + 1
    <2>1. Cardinality(S) \in Nat
      BY <1>1, FS_CardinalityType
    <2> QED
      <3>1. /\ IsFiniteSet(S \cup {x})
            /\ Cardinality(S \cup {x}) = IF x \in S THEN Cardinality(S) ELSE Cardinality(S) + 1
        BY <1>1, FS_AddElement, Zenon
      <3> QED
        BY <2>1, <3>1
  <1>3. Cardinality(T) <= Cardinality(S \cup {x})
    BY <1>2, FS_Subset
  <1>4. Cardinality(S) \in Nat /\ Cardinality(T) \in Nat /\ Cardinality(S \cup {x}) \in Nat
    BY <1>1, <1>2, FS_CardinalityType, FS_Subset
  <1> QED
    BY <1>2, <1>3, <1>4

LEMMA Initially == Init => IInv
  <1> SUFFICES ASSUME Init PROVE IInv
    OBVIOUS
  <1>1. TypeOK
    BY AlertAssumption DEF Init, TypeOK
  <1>2. ASSUME NEW a \in Alerts, NEW ch \in Channels
        PROVE  notified[<<a, ch>>] = 0 /\ Cardinality(Pending(a, ch)) = 0 /\ receives[a] = 0
    BY FS_EmptySet DEF Init, Pending
  <1>3. Counted
    <2> SUFFICES ASSUME NEW a \in Alerts, NEW ch \in Channels
                 PROVE  notified[<<a, ch>>] + Cardinality(Pending(a, ch)) <= receives[a]
      BY DEF Counted
    <2> QED
      BY <1>2
  <1>4. Paid
    BY DEF Init, Paid
  <1> QED
    BY <1>1, <1>3, <1>4 DEF Init, IInv, Recorded, OneEach

-----------------------------------------------------------------------------
(* A dispatch goes on: d becomes e, which notifies no channel that d would *)
(* not have, and a failure pays for what failed.                           *)
LEMMA BecomeStep ==
  ASSUME IInv, NEW d \in deliveries, NEW e \in Delivery,
         e.alert = d.alert, e.nth = d.nth, Become(d, e),
         UNCHANGED <<rigid, place, receives>>,
         log \subseteq log', log' \subseteq Alerts \X Channels,
         \A a \in Alerts, ch \in Channels : <<a, ch>> \in log' => <<a, ch>> \in log \/ notified[<<a, ch>>] >= 1,
         notified' \in [Alerts \X Channels -> Nat],
         \A a \in Alerts, ch \in Channels :
            \/ notified'[<<a, ch>>] = notified[<<a, ch>>]
            \/ /\ notified'[<<a, ch>>] = notified[<<a, ch>>] + 1
               /\ a = d.alert /\ MayNotify(d, ch) /\ ~MayNotify(e, ch),
         \A ch \in Channels : MayNotify(e, ch) => MayNotify(d, ch),
         DeliveryOK(e)',
         faults' \in 0..MaxFaults, faults' >= faults,
         channels \cap Webhooks = {} => e.failed = {} \/ d.failed # {} \/ faults' >= faults + 1
  PROVE  IInv'
  <1>1. /\ TypeOK /\ OneEach /\ Recorded /\ Counted /\ d \in Delivery
        /\ deliveries' = (deliveries \ {d}) \cup {e}
        /\ UNCHANGED <<cloud, malformed, channels, place, receives>>
    BY DEF IInv, TypeOK, Become, rigid
  <1>2. \A a \in Alerts : receives[a] \in 0..MaxReceives /\ receives'[a] = receives[a]
    BY <1>1 DEF TypeOK
  <1>3. \A a \in Alerts, ch \in Channels : notified[<<a, ch>>] \in Nat /\ notified'[<<a, ch>>] >= notified[<<a, ch>>]
    <2>1. \A x \in Alerts \X Channels : notified[x] \in Nat
      BY <1>1, AlertAssumption DEF TypeOK
    <2>2. \A a \in Alerts, ch \in Channels : notified[<<a, ch>>] \in Nat
      BY <2>1
    <2>3. ASSUME NEW a \in Alerts, NEW ch \in Channels
          PROVE  notified'[<<a, ch>>] >= notified[<<a, ch>>]
      <3>1. CASE notified'[<<a, ch>>] = notified[<<a, ch>>]
        BY <2>2, <3>1
      <3>2. CASE notified'[<<a, ch>>] = notified[<<a, ch>>] + 1
        BY <2>2, <3>2
      <3> QED
        BY <3>1, <3>2
    <2> QED
      BY <2>2, <2>3
  <1>4. OneEach'
    BY <1>1 DEF OneEach
  <1>5. Counted'
    <2> SUFFICES ASSUME NEW a \in Alerts, NEW ch \in Channels
                 PROVE  notified'[<<a, ch>>] + Cardinality(Pending(a, ch)') <= receives'[a]
      BY DEF Counted
    <2> DEFINE S == Pending(a, ch)
               T == Pending(a, ch)'
    <2>1. receives[a] \in Nat /\ S \in SUBSET (1..receives[a]) /\ T \in SUBSET S
      <3>1. ASSUME NEW n \in T PROVE n \in S
        <4>1. n \in 1..receives[a] /\ \E x \in deliveries' : x.alert = a /\ x.nth = n /\ MayNotify(x, ch)
          BY <1>2, <3>1 DEF Pending, MayNotify
        <4>2. \E x \in deliveries : x.alert = a /\ x.nth = n /\ MayNotify(x, ch)
          BY <1>1, <4>1
        <4> QED
          BY <4>1, <4>2 DEF Pending
      <3> QED
        BY <1>2, <3>1 DEF Pending
    <2>2. notified[<<a, ch>>] + Cardinality(S) <= receives[a] /\ notified[<<a, ch>>] \in Nat
      BY <1>1, <1>3 DEF Counted
    <2>3. CASE notified'[<<a, ch>>] = notified[<<a, ch>>]
      <3>1. Cardinality(S) \in Nat /\ Cardinality(T) \in Nat /\ Cardinality(T) <= Cardinality(S)
        BY <2>1, CountLess
      <3> QED
        BY <1>2, <2>1, <2>2, <2>3, <3>1
    <2>4. CASE /\ notified'[<<a, ch>>] = notified[<<a, ch>>] + 1
               /\ a = d.alert /\ MayNotify(d, ch) /\ ~MayNotify(e, ch)
      <3>1. d.nth \in S
        BY <1>1, <2>4 DEF Pending, OneEach, Delivery
      <3>2. d.nth \notin T
        BY <1>1, <2>4 DEF Pending, OneEach, MayNotify
      <3>3. T \in SUBSET (S \ {d.nth})
        BY <2>1, <3>2
      <3>4. Cardinality(T) + 1 <= Cardinality(S)
        BY <2>1, <3>1, <3>3, CountOneLess
      <3>5. Cardinality(S) \in Nat /\ Cardinality(T) \in Nat
        BY <2>1, CountLess
      <3> QED
        BY <1>2, <2>1, <2>2, <2>4, <3>4, <3>5
    <2> QED
      BY <2>3, <2>4
  <1>6. TypeOK'
    <2>1. ASSUME NEW a \in Alerts, NEW ch \in Channels PROVE notified'[<<a, ch>>] \in 0..MaxReceives
      <3> DEFINE T == Pending(a, ch)'
      <3>1. /\ T \in SUBSET (1..receives[a])
            /\ receives[a] \in 0..MaxReceives /\ receives[a] \in Nat
        BY <1>2, AlertAssumption DEF Pending
      <3>2. Cardinality(T) \in Nat
        BY <3>1, CountLess
      <3>3. notified'[<<a, ch>>] \in Nat /\ notified'[<<a, ch>>] + Cardinality(T) <= receives[a]
        BY <1>2, <1>5 DEF Counted
      <3> QED
        BY <3>1, <3>2, <3>3, AlertAssumption
    <2>2. notified' \in [Alerts \X Channels -> 0..MaxReceives]
      BY <2>1
    <2> QED
      BY <1>1, <2>2 DEF TypeOK
  <1>7. \A x \in deliveries' : DeliveryOK(x)'
    <2> SUFFICES ASSUME NEW x \in deliveries, x # d PROVE DeliveryOK(x)'
      BY <1>1
    <2>1. DeliveryOK(x) /\ x \in Delivery
      BY <1>1 DEF IInv, TypeOK
    <2>2. \A ch \in x.unlogged : notified[<<x.alert, ch>>] >= 1 => notified'[<<x.alert, ch>>] >= 1
      BY <1>3, <2>1 DEF Delivery
    <2> QED
      BY <1>1, <2>1, <2>2 DEF DeliveryOK, AllLogged
  <1>8. Recorded'
    BY <1>1, <1>3 DEF Recorded, AllLogged
  <1>9. channels' \cap Webhooks = {} => Paid'
    <2> SUFFICES ASSUME channels \cap Webhooks = {}, NEW a \in Alerts
                 PROVE  /\ receives'[a] <= faults' + 1
                        /\ MayReturn(a)' => receives'[a] <= faults'
      BY <1>1 DEF Paid
    <2>1. /\ receives[a] <= faults + 1 /\ (MayReturn(a) => receives[a] <= faults)
          /\ faults \in Nat /\ faults' \in Nat
      BY <1>1 DEF IInv, TypeOK, Paid
    <2>2. MayReturn(a)' => MayReturn(a) \/ faults' >= faults + 1
      <3> SUFFICES ASSUME MayReturn(a)', ~(faults' >= faults + 1) PROVE MayReturn(a)
        OBVIOUS
      <3>1. e.failed = {} \/ d.failed # {}
        OBVIOUS
      <3>2. CASE place[a] = "visible"
        BY <3>2 DEF MayReturn
      <3>3. CASE place[a] = "inFlight"
        <4>1. \A x \in deliveries' : x.alert = a /\ x.nth = receives[a] => x.failed # {}
          BY <1>1, <3>3 DEF MayReturn
        <4>2. \A x \in deliveries : x.alert = a /\ x.nth = receives[a] => x.failed # {}
          BY <1>1, <3>1, <4>1
        <4> QED
          BY <3>3, <4>2 DEF MayReturn
      <3> QED
        BY <1>1, <3>2, <3>3 DEF MayReturn
    <2> QED
      BY <1>2, <2>1, <2>2
  <1> QED
    BY <1>4, <1>5, <1>6, <1>7, <1>8, <1>9 DEF IInv

(* Deliveries end, or are not awaited any more, and alerts move; one that  *)
(* may come back has been paid for.                                        *)
LEMMA EndStep ==
  ASSUME IInv,
         \A x \in deliveries' :
            /\ x \in Delivery
            /\ \E y \in deliveries :
                  /\ x.alert = y.alert /\ x.nth = y.nth /\ x.step = y.step
                  /\ x.left = y.left /\ x.unlogged = y.unlogged /\ x.failed = y.failed,
         \A x, y \in deliveries' : x.alert = y.alert /\ x.nth = y.nth => x = y,
         UNCHANGED <<rigid, receives, notified, log>>,
         place' \in [Alerts -> Places],
         \A a \in Alerts : place'[a] = "deleted" =>
            place[a] = "deleted" \/ a \in Orphans \cup malformed \/ AllLogged(a),
         faults' \in 0..MaxFaults, faults' >= faults,
         \A a \in Alerts : MayReturn(a)' => MayReturn(a) \/ faults' >= faults + 1
  PROVE  IInv'
  <1>1. /\ TypeOK /\ OneEach /\ Recorded /\ Counted
        /\ UNCHANGED <<cloud, malformed, channels, receives, notified, log>>
    BY DEF IInv, rigid
  <1>2. TypeOK'
    BY <1>1 DEF TypeOK, Places
  <1>3. OneEach'
    BY <1>1 DEF OneEach
  <1>4. \A x \in deliveries' : DeliveryOK(x)'
    <2> SUFFICES ASSUME NEW x \in deliveries' PROVE DeliveryOK(x)'
      OBVIOUS
    <2>1. PICK y \in deliveries :
             /\ x.alert = y.alert /\ x.nth = y.nth /\ x.step = y.step
             /\ x.left = y.left /\ x.unlogged = y.unlogged /\ x.failed = y.failed
      OBVIOUS
    <2>2. DeliveryOK(y)
      BY DEF IInv
    <2> QED
      BY <1>1, <2>1, <2>2 DEF DeliveryOK, AllLogged
  <1>5. Recorded'
    BY <1>1 DEF Recorded, AllLogged
  <1>6. Counted'
    <2> SUFFICES ASSUME NEW a \in Alerts, NEW ch \in Channels
                 PROVE  notified'[<<a, ch>>] + Cardinality(Pending(a, ch)') <= receives'[a]
      BY DEF Counted
    <2> DEFINE S == Pending(a, ch)
               T == Pending(a, ch)'
    <2>1. receives[a] \in Nat /\ S \in SUBSET (1..receives[a]) /\ T \in SUBSET S
      <3>1. ASSUME NEW n \in T PROVE n \in S
        <4>1. n \in 1..receives[a] /\ \E x \in deliveries' : x.alert = a /\ x.nth = n /\ MayNotify(x, ch)
          BY <1>1, <3>1 DEF Pending, MayNotify
        <4>2. \E x \in deliveries : x.alert = a /\ x.nth = n /\ MayNotify(x, ch)
          BY <4>1 DEF MayNotify
        <4> QED
          BY <4>1, <4>2 DEF Pending
      <3> QED
        BY <1>1, <3>1 DEF Pending, TypeOK
    <2>2. Cardinality(S) \in Nat /\ Cardinality(T) \in Nat /\ Cardinality(T) <= Cardinality(S)
      BY <2>1, CountLess
    <2>3. notified[<<a, ch>>] + Cardinality(S) <= receives[a] /\ notified[<<a, ch>>] \in Nat
      BY <1>1, AlertAssumption DEF Counted, TypeOK
    <2> QED
      BY <1>1, <2>1, <2>2, <2>3
  <1>7. channels' \cap Webhooks = {} => Paid'
    <2> SUFFICES ASSUME channels \cap Webhooks = {}, NEW a \in Alerts
                 PROVE  /\ receives'[a] <= faults' + 1
                        /\ MayReturn(a)' => receives'[a] <= faults'
      BY <1>1 DEF Paid
    <2>1. /\ receives[a] <= faults + 1 /\ (MayReturn(a) => receives[a] <= faults)
          /\ faults \in Nat /\ faults' \in Nat /\ receives[a] \in Nat
      BY <1>1 DEF IInv, TypeOK, Paid
    <2> QED
      BY <1>1, <2>1
  <1> QED
    BY <1>2, <1>3, <1>4, <1>5, <1>6, <1>7 DEF IInv

-----------------------------------------------------------------------------
LEMMA PollInv ==
  ASSUME IInv, NEW w \in Workers, Poll(w)
  PROVE  IInv'
  <1>1. PICK batch \in SUBSET {a \in Alerts : place[a] = "visible" /\ receives[a] < MaxReceives} :
         /\ place' = [a \in Alerts |-> IF a \in batch THEN "inFlight" ELSE place[a]]
         /\ receives' = [a \in Alerts |-> receives[a] + IF a \in batch THEN 1 ELSE 0]
         /\ deliveries' = deliveries \cup
              {[alert |-> a, by |-> w, nth |-> receives[a] + 1, step |-> "load",
                left |-> {}, unlogged |-> {}, failed |-> {},
                awaited |-> TRUE] : a \in batch}
    BY DEF Poll
  <1> DEFINE new(a) == [alert |-> a, by |-> w, nth |-> receives[a] + 1, step |-> "load",
                        left |-> {}, unlogged |-> {}, failed |-> {}, awaited |-> TRUE]
  <1>2. /\ TypeOK /\ OneEach /\ Recorded /\ Counted
        /\ UNCHANGED <<cloud, malformed, channels, notified, log, faults>>
    BY DEF IInv, Poll, rigid
  <1>3. \A a \in Alerts : /\ receives[a] \in 0..MaxReceives
                          /\ receives'[a] = IF a \in batch THEN receives[a] + 1 ELSE receives[a]
                          /\ receives'[a] \in 0..MaxReceives
                          /\ a \in batch => place[a] = "visible"
    BY <1>1, <1>2, AlertAssumption DEF TypeOK
  <1>4. ASSUME NEW a \in batch
        PROVE  /\ new(a) \in Delivery /\ new(a).alert = a /\ new(a).nth = receives'[a]
               /\ new(a).step = "load" /\ new(a).failed = {}
               /\ new(a).left = {} /\ new(a).unlogged = {}
    BY <1>3, AlertAssumption DEF Delivery
  <1>5. deliveries' = deliveries \cup {new(a) : a \in batch}
    BY <1>1
  <1> HIDE DEF new
  <1>6. TypeOK'
    <2>1. deliveries' \subseteq Delivery
      BY <1>2, <1>4, <1>5 DEF TypeOK
    <2> QED
      BY <1>1, <1>2, <1>3, <2>1 DEF TypeOK
  <1>7. \A x \in deliveries' : DeliveryOK(x)'
    BY <1>2, <1>4, <1>5 DEF IInv, DeliveryOK, AllLogged
  <1>8. Recorded'
    BY <1>1, <1>2 DEF Recorded, AllLogged
  <1>9. \A x \in deliveries : x.alert \in Alerts /\ x.nth \in Nat /\ x.nth <= receives[x.alert]
    BY <1>2 DEF TypeOK, OneEach, Delivery
  <1>10. OneEach'
    <2>1. \A x \in deliveries' : x.nth <= receives'[x.alert]
      BY <1>3, <1>4, <1>5, <1>9
    <2>2. \A x, y \in deliveries' : x.alert = y.alert /\ x.nth = y.nth => x = y
      <3> SUFFICES ASSUME NEW x \in deliveries', NEW y \in deliveries',
                          x.alert = y.alert, x.nth = y.nth
                   PROVE  x = y
        OBVIOUS
      <3>1. CASE x \in deliveries /\ y \in deliveries
        BY <1>2, <3>1 DEF OneEach
      <3>2. ASSUME NEW u \in deliveries, NEW a \in batch
            PROVE  ~(u.alert = new(a).alert /\ u.nth = new(a).nth)
        BY <1>3, <1>4, <1>9
      <3>3. CASE x \notin deliveries /\ y \notin deliveries
        BY <1>4, <1>5, <3>3
      <3> QED
        BY <1>5, <3>1, <3>2, <3>3
    <2> QED
      BY <2>1, <2>2 DEF OneEach
  <1>11. Counted'
    <2> SUFFICES ASSUME NEW a \in Alerts, NEW ch \in Channels
                 PROVE  notified'[<<a, ch>>] + Cardinality(Pending(a, ch)') <= receives'[a]
      BY DEF Counted
    <2> DEFINE S == Pending(a, ch)
               T == Pending(a, ch)'
    <2>1. S \in SUBSET (1..receives[a]) /\ receives[a] \in Nat
      BY <1>3 DEF Pending
    <2>2. ASSUME NEW n \in T
          PROVE  n \in S \/ (a \in batch /\ n = receives'[a])
      <3>1. n \in 1..receives'[a] /\ \E x \in deliveries' : x.alert = a /\ x.nth = n /\ MayNotify(x, ch)
        BY <2>2 DEF Pending, MayNotify
      <3>2. PICK x \in deliveries' : x.alert = a /\ x.nth = n /\ MayNotify(x, ch)
        BY <3>1
      <3>3. CASE x \in deliveries
        <4>1. n \in 1..receives[a]
          BY <1>3, <1>9, <3>1, <3>2, <3>3
        <4> QED
          BY <3>2, <3>3, <4>1 DEF Pending
      <3>4. CASE x \notin deliveries
        BY <1>4, <1>5, <3>2, <3>4
      <3> QED
        BY <3>3, <3>4
    <2>3. notified[<<a, ch>>] + Cardinality(S) <= receives[a] /\ notified[<<a, ch>>] \in Nat
      BY <1>2, AlertAssumption DEF Counted, TypeOK
    <2>4. Cardinality(S) \in Nat
      BY <2>1, CountLess
    <2>5. CASE a \in batch
      <3>1. T \in SUBSET (S \cup {receives'[a]})
        BY <2>2
      <3>2. Cardinality(T) <= Cardinality(S) + 1
        BY <2>1, <3>1, CountOneMore
      <3>3. Cardinality(T) \in Nat
        <4>1. T \in SUBSET (1..receives'[a]) /\ receives'[a] \in Nat
          BY <1>3 DEF Pending
        <4> QED
          BY <4>1, CountLess
      <3> QED
        BY <1>2, <1>3, <2>1, <2>3, <2>4, <2>5, <3>2, <3>3
    <2>6. CASE a \notin batch
      <3>1. T \in SUBSET S
        BY <2>2, <2>6
      <3>2. Cardinality(T) \in Nat /\ Cardinality(T) <= Cardinality(S)
        BY <2>1, <3>1, CountLess
      <3> QED
        BY <1>2, <1>3, <2>1, <2>3, <2>4, <2>6, <3>2
    <2> QED
      BY <2>5, <2>6
  <1>12. channels' \cap Webhooks = {} => Paid'
    <2> SUFFICES ASSUME channels \cap Webhooks = {}, NEW a \in Alerts
                 PROVE  /\ receives'[a] <= faults' + 1
                        /\ MayReturn(a)' => receives'[a] <= faults'
      BY <1>2 DEF Paid
    <2>1. /\ receives[a] <= faults + 1 /\ (MayReturn(a) => receives[a] <= faults)
          /\ faults \in Nat /\ faults' = faults
      BY <1>2 DEF IInv, TypeOK, Paid
    <2>2. CASE a \in batch
      <3>1. MayReturn(a)
        BY <1>3, <2>2 DEF MayReturn
      <3>2. ~MayReturn(a)'
        <4>1. place'[a] = "inFlight" /\ new(a) \in deliveries'
          BY <1>1, <1>5, <2>2
        <4> QED
          BY <1>4, <2>2, <4>1 DEF MayReturn
      <3> QED
        BY <1>3, <2>1, <2>2, <3>1, <3>2
    <2>3. CASE a \notin batch
      <3>1. place'[a] = place[a] /\ receives'[a] = receives[a]
        BY <1>1, <1>3, <2>3
      <3>2. MayReturn(a)' => MayReturn(a)
        BY <1>5, <3>1 DEF MayReturn
      <3> QED
        BY <2>1, <3>1, <3>2
    <2> QED
      BY <2>2, <2>3
  <1> QED
    BY <1>6, <1>7, <1>8, <1>10, <1>11, <1>12 DEF IInv

-----------------------------------------------------------------------------
(* What a dispatch reads of its delivery *)

LEMMA DeliveryFacts ==
  ASSUME IInv, NEW d \in deliveries
  PROVE  /\ d \in Delivery /\ d.alert \in Alerts /\ DeliveryOK(d)
         /\ d.left \subseteq channels /\ d.unlogged \subseteq channels
         /\ d.failed \subseteq channels /\ channels \subseteq Channels
         /\ faults \in 0..MaxFaults /\ log \subseteq Alerts \X Channels
         /\ notified \in [Alerts \X Channels -> Nat]
         /\ \A ch \in Channels : notified[<<d.alert, ch>>] \in Nat
  <1>1. /\ d \in Delivery /\ DeliveryOK(d) /\ channels \subseteq Channels
        /\ faults \in 0..MaxFaults /\ log \subseteq Alerts \X Channels
        /\ notified \in [Alerts \X Channels -> Nat]
    BY AlertAssumption DEF IInv, TypeOK
  <1>2. d.alert \in Alerts
    BY <1>1 DEF Delivery
  <1>3. \A ch \in Channels : <<d.alert, ch>> \in Alerts \X Channels
    BY <1>2
  <1> QED
    BY <1>1, <1>2, <1>3 DEF DeliveryOK

LEMMA LoadInv ==
  ASSUME IInv, NEW d \in deliveries, Load(d)
  PROVE  IInv'
  <1> DEFINE ends  == [d EXCEPT !.step = "end"]
             sends == [d EXCEPT !.step = "send", !.left = channels]
  <1>1. /\ DeliveryOK(d) /\ d \in Delivery /\ d.step = "load" /\ channels \subseteq Channels
        /\ UNCHANGED <<rigid, place, receives, notified, log, faults>>
    BY DeliveryFacts DEF Load
  <1>2. /\ ends \in Delivery /\ ends.alert = d.alert /\ ends.nth = d.nth /\ ends.step = "end"
        /\ ends.left = {} /\ ends.unlogged = {} /\ ends.failed = {}
    BY <1>1 DEF Delivery, DeliveryOK
  <1>3. /\ sends \in Delivery /\ sends.alert = d.alert /\ sends.nth = d.nth /\ sends.step = "send"
        /\ sends.left = channels /\ sends.unlogged = {} /\ sends.failed = {}
    BY <1>1 DEF Delivery, DeliveryOK
  <1>4. /\ d.alert \in Orphans \cup malformed => Become(d, ends)
        /\ d.alert \notin Orphans \cup malformed => Become(d, sends)
    BY DEF Load
  <1>5. /\ notified \in [Alerts \X Channels -> Nat] /\ faults \in 0..MaxFaults
        /\ log \subseteq Alerts \X Channels
    BY DeliveryFacts
  <1> HIDE DEF ends, sends
  <1>6. CASE d.alert \in Orphans \cup malformed
    <2>1. DeliveryOK(ends)'
      BY <1>1, <1>2, <1>6 DEF DeliveryOK, rigid
    <2> QED
      BY <1>1, <1>2, <1>4, <1>5, <1>6, <2>1, BecomeStep DEF MayNotify
  <1>7. CASE d.alert \notin Orphans \cup malformed
    <2>1. PICK e : e = sends
      OBVIOUS
    <2>2. channels' = channels /\ malformed' = malformed
      BY <1>1 DEF rigid
    <2>3. DeliveryOK(e)'
      BY <1>1, <1>3, <2>1, <2>2 DEF DeliveryOK
    <2>4. Become(d, e)
      BY <1>4, <1>7, <2>1
    <2>5. \A ch \in Channels : MayNotify(e, ch) => MayNotify(d, ch)
      BY <1>1 DEF MayNotify
    <2> QED
      BY <1>1, <1>3, <1>5, <2>1, <2>3, <2>4, <2>5, BecomeStep
  <1> QED
    BY <1>6, <1>7

(* The channel may have got the alert, is taken from those that are left,  *)
(* and counts as notified, or as failed.                                   *)
LEMMA SendsInv ==
  ASSUME IInv, NEW d \in deliveries, NEW ch \in Channels,
         Send(d, ch) \/ SendFails(d, ch) \/ ErrorAnswerIgnored(d, ch)
  PROVE  IInv'
  <1> DEFINE notes == [d EXCEPT !.left = @ \ {ch}, !.unlogged = @ \cup {ch}]
             fails == [d EXCEPT !.left = @ \ {ch}, !.failed = @ \cup {ch}]
  <1>1. /\ DeliveryOK(d) /\ d \in Delivery /\ d.alert \in Alerts
        /\ ch \in d.left /\ d.step = "send" /\ ch \in channels
        /\ notified \in [Alerts \X Channels -> Nat] /\ faults \in 0..MaxFaults
        /\ log \subseteq Alerts \X Channels
        /\ UNCHANGED <<rigid, place, receives, log>>
    BY DeliveryFacts DEF Send, SendFails, ErrorAnswerIgnored, DeliveryOK
  <1>2. /\ notes \in Delivery /\ notes.alert = d.alert /\ notes.nth = d.nth /\ notes.step = "send"
        /\ notes.left = d.left \ {ch} /\ notes.unlogged = d.unlogged \cup {ch}
        /\ notes.failed = d.failed
    BY <1>1 DEF Delivery
  <1>3. /\ fails \in Delivery /\ fails.alert = d.alert /\ fails.nth = d.nth /\ fails.step = "send"
        /\ fails.left = d.left \ {ch} /\ fails.unlogged = d.unlogged
        /\ fails.failed = d.failed \cup {ch}
    BY <1>1 DEF Delivery
  <1>4. /\ Send(d, ch) \/ ErrorAnswerIgnored(d, ch) => Become(d, notes)
        /\ SendFails(d, ch) => Become(d, fails)
    BY DEF Send, SendFails, ErrorAnswerIgnored
  <1> HIDE DEF notes, fails
  <1>5. Notify(d, ch) \/ UNCHANGED notified
    BY DEF Send, SendFails, ErrorAnswerIgnored
  <1>6. /\ notified' \in [Alerts \X Channels -> Nat]
        /\ \A a \in Alerts, k \in Channels :
              \/ notified'[<<a, k>>] = notified[<<a, k>>]
              \/ notified'[<<a, k>>] = notified[<<a, k>>] + 1 /\ a = d.alert /\ k = ch
    <2>1. CASE Notify(d, ch)
      BY <1>1, <2>1 DEF Notify
    <2>2. CASE UNCHANGED notified
      BY <1>1, <2>2
    <2> QED
      BY <1>5, <2>1, <2>2
  <1>7. Send(d, ch) => notified'[<<d.alert, ch>>] >= 1
    <2>1. <<d.alert, ch>> \in Alerts \X Channels /\ notified[<<d.alert, ch>>] \in Nat
      BY <1>1
    <2> QED
      BY <1>1, <2>1 DEF Send, Notify
  <1>8. \A k \in d.unlogged \ Webhooks : notified'[<<d.alert, k>>] >= 1
    <2> SUFFICES ASSUME NEW k \in d.unlogged \ Webhooks PROVE notified'[<<d.alert, k>>] >= 1
      OBVIOUS
    <2>1. k \in Channels /\ notified[<<d.alert, k>>] \in Nat /\ notified[<<d.alert, k>>] >= 1
      BY <1>1, DeliveryFacts DEF DeliveryOK
    <2>2. \/ notified'[<<d.alert, k>>] = notified[<<d.alert, k>>]
          \/ notified'[<<d.alert, k>>] = notified[<<d.alert, k>>] + 1
      BY <1>1, <1>6, <2>1
    <2> QED
      BY <2>1, <2>2
  <1>9. faults' \in 0..MaxFaults /\ faults' >= faults /\ (SendFails(d, ch) => faults' >= faults + 1)
    BY <1>1, AlertAssumption DEF Send, SendFails, ErrorAnswerIgnored, Fault
  <1>10. \A x \in {notes, fails} : /\ ~MayNotify(x, ch)
                                   /\ \A k \in Channels : MayNotify(x, k) => MayNotify(d, k)
    BY <1>2, <1>3 DEF MayNotify
  <1>11. MayNotify(d, ch)
    BY <1>1 DEF MayNotify
  <1>12. CASE Send(d, ch) \/ ErrorAnswerIgnored(d, ch)
    <2>1. \A k \in notes.unlogged \ Webhooks : notified'[<<d.alert, k>>] >= 1
      BY <1>2, <1>7, <1>8, <1>12 DEF ErrorAnswerIgnored
    <2>2. DeliveryOK(notes)'
      BY <1>1, <1>2, <2>1 DEF DeliveryOK, rigid
    <2> QED
      BY <1>1, <1>2, <1>4, <1>6, <1>9, <1>10, <1>11, <1>12, <2>2, BecomeStep
  <1>13. CASE SendFails(d, ch)
    <2>1. DeliveryOK(fails)'
      BY <1>1, <1>3, <1>8 DEF DeliveryOK, rigid
    <2> QED
      BY <1>1, <1>3, <1>4, <1>6, <1>9, <1>10, <1>11, <1>13, <2>1, BecomeStep
  <1> QED
    BY <1>12, <1>13

LEMMA LogsInv ==
  ASSUME IInv, NEW d \in deliveries, NEW ch \in Channels, LogSent(d, ch) \/ LogFails(d, ch)
  PROVE  IInv'
  <1> DEFINE logs  == [d EXCEPT !.unlogged = @ \ {ch}]
             fails == [d EXCEPT !.unlogged = @ \ {ch}, !.failed = @ \cup {ch}]
  <1>1. /\ DeliveryOK(d) /\ d \in Delivery /\ d.alert \in Alerts
        /\ ch \in d.unlogged /\ d.step = "send" /\ ch \in channels
        /\ notified \in [Alerts \X Channels -> Nat] /\ faults \in 0..MaxFaults
        /\ log \subseteq Alerts \X Channels
        /\ UNCHANGED <<rigid, place, receives, notified>>
    BY DeliveryFacts DEF LogSent, LogFails, DeliveryOK
  <1>2. /\ logs \in Delivery /\ logs.alert = d.alert /\ logs.nth = d.nth /\ logs.step = "send"
        /\ logs.left = d.left /\ logs.unlogged = d.unlogged \ {ch} /\ logs.failed = d.failed
    BY <1>1 DEF Delivery
  <1>3. /\ fails \in Delivery /\ fails.alert = d.alert /\ fails.nth = d.nth /\ fails.step = "send"
        /\ fails.left = d.left /\ fails.unlogged = d.unlogged \ {ch}
        /\ fails.failed = d.failed \cup {ch}
    BY <1>1 DEF Delivery
  <1>4. /\ LogSent(d, ch) => Become(d, logs) /\ log' = log \cup {<<d.alert, ch>>} /\ ch \notin Webhooks
                             /\ UNCHANGED faults
        /\ LogFails(d, ch) => Become(d, fails) /\ UNCHANGED log
    BY DEF LogSent, LogFails
  <1> HIDE DEF logs, fails
  <1>5. CASE LogSent(d, ch)
    <2>1. notified[<<d.alert, ch>>] >= 1
      BY <1>1, <1>4, <1>5 DEF DeliveryOK
    <2>2. /\ log \subseteq log' /\ log' \subseteq Alerts \X Channels
          /\ \A a \in Alerts, k \in Channels :
                <<a, k>> \in log' => <<a, k>> \in log \/ notified[<<a, k>>] >= 1
      BY <1>1, <1>4, <1>5, <2>1
    <2>3. DeliveryOK(logs)'
      BY <1>1, <1>2, <1>4, <1>5 DEF DeliveryOK, rigid
    <2> QED
      BY <1>1, <1>2, <1>4, <1>5, <2>2, <2>3, BecomeStep DEF MayNotify
  <1>6. CASE LogFails(d, ch)
    <2>1. DeliveryOK(fails)'
      BY <1>1, <1>3, <1>4, <1>6 DEF DeliveryOK, rigid
    <2>2. /\ faults' \in 0..MaxFaults /\ faults' >= faults
          /\ channels \cap Webhooks = {} => faults' >= faults + 1
      BY <1>1, <1>6, AlertAssumption DEF LogFails, Fault
    <2> QED
      BY <1>1, <1>3, <1>4, <1>6, <2>1, <2>2, BecomeStep DEF MayNotify
  <1> QED
    BY <1>5, <1>6

LEMMA AllSentInv ==
  ASSUME IInv, NEW d \in deliveries, AllSent(d)
  PROVE  IInv'
  <1> DEFINE e == [d EXCEPT !.step = "end"]
  <1>1. /\ DeliveryOK(d) /\ d \in Delivery /\ d.step = "send"
        /\ d.left = {} /\ d.unlogged = {} /\ d.failed = {}
        /\ notified \in [Alerts \X Channels -> Nat] /\ faults \in 0..MaxFaults
        /\ log \subseteq Alerts \X Channels
        /\ UNCHANGED <<rigid, place, receives, notified, log, faults>>
        /\ Become(d, e)
    BY DeliveryFacts DEF AllSent
  <1>2. /\ e \in Delivery /\ e.alert = d.alert /\ e.nth = d.nth /\ e.step = "end"
        /\ e.left = {} /\ e.unlogged = {} /\ e.failed = {}
    BY <1>1 DEF Delivery
  <1> HIDE DEF e
  <1>3. DeliveryOK(e)'
    BY <1>1, <1>2 DEF DeliveryOK, AllLogged, rigid
  <1> QED
    BY <1>1, <1>2, <1>3, BecomeStep DEF MayNotify

-----------------------------------------------------------------------------
(* A delivery that ends is gone, and the others are what they were. *)
LEMMA SettleFacts ==
  ASSUME IInv, deliveries' \subseteq deliveries
  PROVE  /\ \A x \in deliveries' :
               /\ x \in Delivery
               /\ \E y \in deliveries :
                     /\ x.alert = y.alert /\ x.nth = y.nth /\ x.step = y.step
                     /\ x.left = y.left /\ x.unlogged = y.unlogged /\ x.failed = y.failed
         /\ \A x, y \in deliveries' : x.alert = y.alert /\ x.nth = y.nth => x = y
  BY DEF IInv, TypeOK, OneEach

LEMMA RejectFacts ==
  ASSUME IInv, NEW d \in deliveries, Rejects(d)
  PROVE  /\ \A x \in deliveries' :
               /\ x \in Delivery
               /\ \E y \in deliveries :
                     /\ x.alert = y.alert /\ x.nth = y.nth /\ x.step = y.step
                     /\ x.left = y.left /\ x.unlogged = y.unlogged /\ x.failed = y.failed
         /\ \A x, y \in deliveries' : x.alert = y.alert /\ x.nth = y.nth => x = y
         /\ \A y \in deliveries \ {d} : \E x \in deliveries' :
               x.alert = y.alert /\ x.nth = y.nth /\ x.failed = y.failed
  <1> DEFINE w == d.by
             left(y) == [y EXCEPT !.awaited = FALSE]
  <1>1. deliveries \subseteq Delivery /\ OneEach
    BY DEF IInv, TypeOK
  <1>2. deliveries' = (deliveries \ HeldBy(w)) \cup {left(y) : y \in HeldBy(w) \ {d}}
    BY DEF Rejects
  <1>3. ASSUME NEW y \in deliveries
        PROVE  /\ left(y) \in Delivery /\ left(y).by = y.by
               /\ left(y).alert = y.alert /\ left(y).nth = y.nth /\ left(y).step = y.step
               /\ left(y).left = y.left /\ left(y).unlogged = y.unlogged
               /\ left(y).failed = y.failed
    BY <1>1 DEF Delivery
  <1> HIDE DEF left
  <1>4. HeldBy(w) = {y \in deliveries : y.by = w}
    BY DEF HeldBy
  <1>5. \A x \in deliveries' : \/ x \in deliveries /\ x.by # w
                               \/ \E y \in deliveries : y.by = w /\ x = left(y)
    BY <1>2, <1>4
  <1>6. \A x, y \in deliveries' : x.alert = y.alert /\ x.nth = y.nth => x = y
    <2> SUFFICES ASSUME NEW x \in deliveries', NEW y \in deliveries',
                        x.alert = y.alert, x.nth = y.nth
                 PROVE  x = y
      OBVIOUS
    <2>1. PICK u \in deliveries : u.alert = x.alert /\ u.nth = x.nth
                                  /\ (IF u.by = w THEN x = left(u) ELSE x = u)
      BY <1>3, <1>5
    <2>2. PICK v \in deliveries : v.alert = y.alert /\ v.nth = y.nth
                                  /\ (IF v.by = w THEN y = left(v) ELSE y = v)
      BY <1>3, <1>5
    <2>3. u = v
      BY <1>1, <2>1, <2>2 DEF OneEach
    <2> QED
      BY <2>1, <2>2, <2>3
  <1>7. \A y \in deliveries \ {d} : y \in deliveries' \/ left(y) \in deliveries'
    BY <1>2, <1>4
  <1> QED
    BY <1>1, <1>3, <1>5, <1>6, <1>7

(* If a delivery that was not current is gone, nothing else may return.    *)
LEMMA StaleEnds ==
  ASSUME IInv, NEW d \in deliveries, ~Current(d),
         \A y \in deliveries \ {d} : \E x \in deliveries' :
            x.alert = y.alert /\ x.nth = y.nth /\ x.failed = y.failed,
         UNCHANGED receives, NEW a \in Alerts, place'[a] = place[a], MayReturn(a)'
  PROVE  MayReturn(a)
  <1>1. CASE place[a] = "visible"
    BY <1>1 DEF MayReturn
  <1>2. CASE place[a] = "inFlight"
    <2>1. \A x \in deliveries' : x.alert = a /\ x.nth = receives[a] => x.failed # {}
      BY <1>2 DEF MayReturn
    <2>2. ASSUME NEW y \in deliveries, y.alert = a, y.nth = receives[a] PROVE y.failed # {}
      <3>1. y # d
        BY <1>2, <2>2 DEF Current
      <3> QED
        BY <2>1, <2>2, <3>1
    <2> QED
      BY <1>2, <2>2 DEF MayReturn
  <1> QED
    BY <1>1, <1>2 DEF MayReturn

LEMMA GiveBackInv ==
  ASSUME IInv, NEW d \in deliveries, SomeFailed(d) \/ DispatchFails(d)
  PROVE  IInv'
  <1>1. /\ place' = [place EXCEPT ![d.alert] = IF Current(d) THEN "visible" ELSE @]
        /\ deliveries' = deliveries \ {d}
        /\ UNCHANGED <<rigid, receives, notified, log>>
    BY DEF SomeFailed, DispatchFails, GiveBack, Settle
  <1>2. /\ place \in [Alerts -> Places] /\ d.alert \in Alerts /\ faults \in 0..MaxFaults
    BY DeliveryFacts DEF IInv, TypeOK, Places
  <1>3. place' \in [Alerts -> Places]
        /\ \A a \in Alerts : place'[a] = IF a = d.alert /\ Current(d) THEN "visible" ELSE place[a]
    BY <1>1, <1>2 DEF Places
  <1>4. \A a \in Alerts : place'[a] = "deleted" => place[a] = "deleted"
    BY <1>3
  <1>5. /\ faults' \in 0..MaxFaults /\ faults' >= faults
        /\ DispatchFails(d) => faults' >= faults + 1
    BY <1>2, AlertAssumption DEF SomeFailed, DispatchFails, Fault
  <1>6. ASSUME NEW a \in Alerts, MayReturn(a)'
        PROVE  MayReturn(a) \/ faults' >= faults + 1
    <2>1. CASE SomeFailed(d) /\ a = d.alert /\ Current(d)
      <3>1. \A x \in deliveries : x.alert = a /\ x.nth = receives[a] => x = d
        BY <2>1 DEF IInv, OneEach, Current
      <3> QED
        BY <2>1, <3>1 DEF MayReturn, Current, SomeFailed
    <2>2. CASE ~Current(d)
      BY <1>1, <1>3, <1>6, <2>2, StaleEnds
    <2>3. CASE a # d.alert
      BY <1>1, <1>3, <1>6, <2>3 DEF MayReturn
    <2> QED
      BY <1>5, <2>1, <2>2, <2>3
  <1> QED
    BY <1>1, <1>3, <1>4, <1>5, <1>6, SettleFacts, EndStep

LEMMA DeleteMessageInv ==
  ASSUME IInv, NEW d \in deliveries, DeleteMessage(d)
  PROVE  IInv'
  <1>1. /\ place \in [Alerts -> Places] /\ d.alert \in Alerts /\ faults \in 0..MaxFaults
        /\ DeliveryOK(d)
    BY DeliveryFacts DEF IInv, TypeOK, Places
  <1>2. /\ d.step = "end" /\ deliveries' = deliveries \ {d}
        /\ UNCHANGED <<rigid, receives, notified, log, faults>>
    BY DEF DeleteMessage, Settle
  <1>3. /\ place' \in [Alerts -> Places]
        /\ \A a \in Alerts : a # d.alert => place'[a] = place[a]
        /\ \/ place'[d.alert] = "deleted"
           \/ place'[d.alert] = place[d.alert]
              /\ (~Current(d) \/ place[d.alert] \notin {"inFlight", "visible"})
    BY <1>1 DEF DeleteMessage, Places
  <1>4. d.alert \in Orphans \cup malformed \/ AllLogged(d.alert)
    BY <1>1, <1>2 DEF DeliveryOK
  <1>5. ASSUME NEW a \in Alerts, MayReturn(a)' PROVE MayReturn(a)
    <2>1. CASE a # d.alert
      BY <1>2, <1>3, <1>5, <2>1 DEF MayReturn
    <2>2. CASE a = d.alert /\ ~Current(d) /\ place'[a] = place[a]
      BY <1>2, <1>5, <2>2, StaleEnds
    <2> QED
      BY <1>3, <1>5, <2>1, <2>2 DEF MayReturn
  <1> QED
    BY <1>1, <1>2, <1>3, <1>4, <1>5, SettleFacts, EndStep

LEMMA RejectsInv ==
  ASSUME IInv, NEW d \in deliveries, LockLost(d) \/ SettleFails(d)
  PROVE  IInv'
  <1>1. Rejects(d) /\ UNCHANGED <<rigid, place, receives, notified, log>>
    BY DEF LockLost, SettleFails, Rejects
  <1>2. place \in [Alerts -> Places] /\ faults \in 0..MaxFaults
    BY DEF IInv, TypeOK, Places
  <1>3. /\ faults' \in 0..MaxFaults /\ faults' >= faults
        /\ SettleFails(d) => faults' >= faults + 1
    BY <1>2, AlertAssumption DEF LockLost, SettleFails, Fault
  <1>4. ASSUME NEW a \in Alerts, MayReturn(a)', LockLost(d) PROVE MayReturn(a)
    <2>1. ~Current(d)
      BY <1>4 DEF LockLost, Refused
    <2> QED
      BY <1>1, <1>4, <2>1, RejectFacts, StaleEnds
  <1> QED
    BY <1>1, <1>2, <1>3, <1>4, RejectFacts, EndStep

LEMMA ExitInv ==
  ASSUME IInv, NEW w \in Workers, Exit(w)
  PROVE  IInv'
  <1>1. /\ deliveries' \subseteq deliveries
        /\ UNCHANGED <<rigid, place, receives, notified, log>>
    BY DEF Exit
  <1>2. place \in [Alerts -> Places] /\ faults \in 0..MaxFaults
    BY DEF IInv, TypeOK, Places
  <1>3. faults' \in 0..MaxFaults /\ faults' >= faults + 1
    BY <1>2, AlertAssumption DEF Exit, Fault
  <1>4. faults' >= faults
    BY <1>2, <1>3
  <1> QED
    BY <1>1, <1>2, <1>3, <1>4, SettleFacts, EndStep

LEMMA QueueInv ==
  ASSUME IInv, NEW a \in Alerts, Queue(a)
  PROVE  IInv'
  <1>1. /\ deliveries' = deliveries /\ UNCHANGED <<rigid, receives, notified, log>>
        /\ place' = [place EXCEPT ![a] = IF Lapse(a) THEN "visible" ELSE "dead"]
    BY DEF Queue, Lapse, Redrive
  <1>2. place \in [Alerts -> Places] /\ faults \in 0..MaxFaults
    BY DEF IInv, TypeOK, Places
  <1>3. place' \in [Alerts -> Places]
        /\ \A b \in Alerts : place'[b] = IF b = a THEN IF Lapse(a) THEN "visible" ELSE "dead"
                                         ELSE place[b]
    BY <1>1, <1>2 DEF Places
  <1>4. \A b \in Alerts : place'[b] = "deleted" => place[b] = "deleted"
    BY <1>3
  <1>5. faults' \in 0..MaxFaults /\ faults' >= faults
    BY <1>2, AlertAssumption DEF Queue, Lapse, Redrive, Fault
  <1>6. ASSUME NEW b \in Alerts, MayReturn(b)' PROVE MayReturn(b) \/ faults' >= faults + 1
    <2>1. CASE b # a
      BY <1>1, <1>3, <1>6, <2>1 DEF MayReturn
    <2>2. CASE b = a /\ Lapse(a) /\ \E d \in deliveries : d.alert = a /\ Current(d)
      BY <1>2, <2>2 DEF Lapse, Fault
    <2>3. CASE b = a /\ Lapse(a) /\ ~\E d \in deliveries : d.alert = a /\ Current(d)
      BY <2>3 DEF Lapse, MayReturn, Current
    <2>4. CASE b = a /\ ~Lapse(a)
      BY <1>3, <1>6, <2>4 DEF MayReturn
    <2> QED
      BY <2>1, <2>2, <2>3, <2>4
  <1> QED
    BY <1>1, <1>3, <1>4, <1>5, <1>6, SettleFacts, EndStep

-----------------------------------------------------------------------------
LEMMA Inductive == IInv /\ [Next]_vars => IInv'
  <1> SUFFICES ASSUME IInv, [Next]_vars PROVE IInv'
    OBVIOUS
  <1>1. ASSUME NEW w \in Workers, Poll(w) \/ Exit(w) PROVE IInv'
    BY <1>1, PollInv, ExitInv
  <1>2. ASSUME NEW d \in deliveries, Dispatch(d) PROVE IInv'
    BY <1>2, LoadInv, AllSentInv, GiveBackInv, DeleteMessageInv, RejectsInv, SendsInv, LogsInv
       DEF Dispatch
  <1>3. ASSUME NEW d \in deliveries, DispatchFails(d) \/ SettleFails(d) PROVE IInv'
    BY <1>3, GiveBackInv, RejectsInv
  <1>4. ASSUME NEW d \in deliveries, NEW ch \in Channels,
               SendFails(d, ch) \/ ErrorAnswerIgnored(d, ch)
        PROVE  IInv'
    BY <1>4, SendsInv
  <1>5. ASSUME NEW a \in Alerts, Queue(a) PROVE IInv'
    BY <1>5, QueueInv
  <1>6. CASE UNCHANGED vars
    BY <1>6 DEF vars, rigid, IInv, TypeOK, DeliveryOK, AllLogged, Recorded, OneEach, Counted,
                Pending, MayNotify, Paid, MayReturn
  <1> QED
    BY <1>1, <1>2, <1>3, <1>4, <1>5, <1>6 DEF Next

LEMMA Invariance == Spec => []IInv
  BY Initially, Inductive, PTL DEF Spec

(* An alert leaves the queue only if every channel of the workspace got it *)
(* and the log says so, whatever fails and however often it is redelivered *)
(* (dispatchAlerts).                                                       *)
THEOREM AlertInvHolds == Spec => []AlertInv
  <1>1. IInv => AlertInv
    <2> SUFFICES ASSUME IInv PROVE TypeOK /\ DeletedWasSent
      BY DEF AlertInv
    <2>1. TypeOK /\ Recorded /\ channels \subseteq Channels
      BY AlertAssumption DEF IInv, TypeOK
    <2> QED
      BY <2>1 DEF Recorded, AllLogged, DeletedWasSent
  <1> QED
    BY <1>1, Invariance, PTL

(* Without a webhook, no channel is notified of an alert more often than   *)
(* once, and once more for every failure.                                  *)
THEOREM RepeatsNeedFailuresHolds == Spec => []RepeatsNeedFailures
  <1>1. IInv => RepeatsNeedFailures
    <2> SUFFICES ASSUME IInv, channels \cap Webhooks = {}, NEW a \in Alerts, NEW ch \in Channels
                 PROVE  notified[<<a, ch>>] <= faults + 1
      BY DEF RepeatsNeedFailures
    <2>1. /\ receives[a] \in Nat /\ faults \in Nat /\ receives[a] <= faults + 1
          /\ notified[<<a, ch>>] + Cardinality(Pending(a, ch)) <= receives[a]
      BY AlertAssumption DEF IInv, TypeOK, Paid, Counted
    <2>2. notified[<<a, ch>>] \in Nat
      <3>1. <<a, ch>> \in Alerts \X Channels
        OBVIOUS
      <3> QED
        BY <3>1, AlertAssumption DEF IInv, TypeOK
    <2>3. Cardinality(Pending(a, ch)) \in Nat
      <3>1. Pending(a, ch) \in SUBSET (1..receives[a])
        BY DEF Pending
      <3> QED
        BY <2>1, <3>1, CountLess
    <2> QED
      BY <2>1, <2>2, <2>3
  <1> QED
    BY <1>1, Invariance, PTL

-----------------------------------------------------------------------------
(* The stream of live events                                               *)

(* From the first byte to the last, what a connection was sent and what    *)
(* it was told add up to what was published.                               *)
SentIsKept ==
    \A k \in registered :
       (process = "up" /\ step[k] \in {"read", "streaming"} /\ snap[k] # None)
         => announced \ missed \subseteq snap[k] \cup told[k]

StreamIInv ==
    /\ StreamTypeOK
    /\ timer => mounted
    /\ RegistryIsExact
    /\ process = "up" => drained = {}
    /\ process = "down" => /\ registered = {} /\ drained = {}
                           /\ \A k \in Connections : step[k] \in {"requested", "stranger", "gone", "closed"}
    /\ \A k \in Connections : step[k] \notin {"read", "streaming"} => snap[k] = None
    /\ SentIsKept

-----------------------------------------------------------------------------
(* The list                                                                *)

(* One stretch of the incidents, but for those that are excused. *)
Stretch(s) ==
    /\ Descending(s)
    /\ \A i \in committed \ ToSet(s) :
          (s # <<>> /\ i > s[Len(s)] /\ i < s[1]) => i \in late \/ \E j \in ToSet(s) : startedAt[j] = startedAt[i]

(* Down to the first incident, but for those that are excused. *)
Whole(s) ==
    \A i \in committed \ ToSet(s) :
       (s # <<>> /\ i < s[1]) => i \in late \/ \E j \in ToSet(s) : startedAt[j] = startedAt[i]

(* Incident i is in s or excused, or s ends above it. *)
Covers(s, i) ==
    \/ i \in ToSet(s) \cup late
    \/ \E j \in ToSet(s) : startedAt[j] = startedAt[i]
    \/ s # <<>> /\ i < s[Len(s)]

(* An answer: the rows after cursor c, as far as the page goes, except what *)
(* was committed since.                                                    *)
AnswerOK(c, s) ==
    /\ Descending(s)
    /\ c # None => \A i \in ToSet(s) : startedAt[i] < startedAt[c]
    /\ Len(s) <= PageSize
    /\ \A i \in committed \ ToSet(s) :
          (c # None => startedAt[i] < startedAt[c])
            => \/ i \in late
               \/ Len(s) = PageSize /\ i < s[Len(s)]
               \/ c = None /\ (s = <<>> \/ i > s[1])

(* A request that overlapped no other is the only one: it goes on from     *)
(* where the list ends, or its answer has all that was heard of.           *)
AloneOK(f) ==
    /\ Len(fetches) = 1
    /\ f.replace \/ f.cursor = nextCursor
    /\ (f.replace /\ f.rows # None) => \A i \in heard : Covers(f.rows, i)

FetchesOK ==
    \A n \in DOMAIN fetches :
       /\ fetches[n].rows # None => AnswerOK(fetches[n].cursor, fetches[n].rows)
       /\ ~fetches[n].crossed => AloneOK(fetches[n])

CursorIsLast == nextCursor # None => view # <<>> /\ nextCursor = view[Len(view)]

ViewFollows ==
    /\ "append" \notin overlapped => Stretch(view) /\ (nextCursor = None => Whole(view))
    /\ (overlapped = {} /\ ~failed) => \/ \E n \in DOMAIN fetches : fetches[n].replace
                                       \/ \A i \in heard : Covers(view, i)

ListIInv == LiveTypeOK /\ CursorIsLast /\ FetchesOK /\ ViewFollows

-----------------------------------------------------------------------------
(* Steps of the stream                                                     *)

LEMMA StreamInitially == StreamInit => StreamIInv
  <1> SUFFICES ASSUME StreamInit PROVE StreamIInv
    OBVIOUS
  <1>1. committed \subseteq Incidents /\ failures \in 0..MaxFailures
    BY StreamAssumption DEF StreamInit
  <1>2. StreamTypeOK
    BY <1>1 DEF StreamInit, StreamTypeOK, Steps
  <1>3. RegistryIsExact
    BY DEF StreamInit, RegistryIsExact, Open
  <1> QED
    BY <1>2, <1>3 DEF StreamInit, StreamIInv, SentIsKept

LEMMA CommitInv ==
  ASSUME StreamIInv, NEW i \in Incidents, Commit(i)
  PROVE  StreamIInv'
  BY DEF StreamIInv, StreamTypeOK, RegistryIsExact, SentIsKept, Open, Steps, serverVars,
         pageVars, Commit

LEMMA AnnounceInv ==
  ASSUME StreamIInv, NEW i \in Incidents, Announce(i)
  PROVE  StreamIInv'
  BY DEF StreamIInv, StreamTypeOK, RegistryIsExact, SentIsKept, Open, Steps, pageVars,
         Announce

LEMMA UnheardInv ==
  ASSUME StreamIInv, NEW i \in Incidents, Unheard(i)
  PROVE  StreamIInv'
  BY StreamAssumption DEF StreamIInv, StreamTypeOK, RegistryIsExact, SentIsKept, Open, Steps, Failure,
         serverVars, pageVars, Unheard

LEMMA DenyInv ==
  ASSUME StreamIInv, NEW k \in Connections, Deny(k)
  PROVE  StreamIInv'
  BY DEF StreamIInv, StreamTypeOK, RegistryIsExact, SentIsKept, Open, Steps, Goto,
         pageVars, Deny

LEMMA AddInv ==
  ASSUME StreamIInv, NEW k \in Connections, Add(k)
  PROVE  StreamIInv'
  BY DEF StreamIInv, StreamTypeOK, RegistryIsExact, SentIsKept, Open, Steps, Goto,
         pageVars, Add

LEMMA FullInv ==
  ASSUME StreamIInv, NEW k \in Connections, Full(k)
  PROVE  StreamIInv'
  BY DEF StreamIInv, StreamTypeOK, RegistryIsExact, SentIsKept, Open, Steps, Goto,
         pageVars, Full

LEMMA ReadSnapshotInv ==
  ASSUME StreamIInv, NEW k \in Connections, ReadSnapshot(k)
  PROVE  StreamIInv'
  BY DEF StreamIInv, StreamTypeOK, RegistryIsExact, SentIsKept, Open, Steps, Goto,
         pageVars, ReadSnapshot

LEMMA WriteSnapshotInv ==
  ASSUME StreamIInv, NEW k \in Connections, WriteSnapshot(k)
  PROVE  StreamIInv'
  BY DEF StreamIInv, StreamTypeOK, RegistryIsExact, SentIsKept, Open, Steps, Goto,
         pageVars, WriteSnapshot

LEMMA SnapshotFailsInv ==
  ASSUME StreamIInv, NEW k \in Connections, SnapshotFails(k)
  PROVE  StreamIInv'
  BY StreamAssumption DEF StreamIInv, StreamTypeOK, RegistryIsExact, SentIsKept, Open, Steps, Failure,
         Goto, pageVars, SnapshotFails

LEMMA CloseInv ==
  ASSUME StreamIInv, NEW k \in Connections, Close(k)
  PROVE  StreamIInv'
  BY DEF StreamIInv, StreamTypeOK, RegistryIsExact, SentIsKept, Open, Steps, TakeOut,
         Forget, Goto, pageVars, Close

LEMMA CloseEarlyInv ==
  ASSUME StreamIInv, NEW k \in Connections, CloseEarly(k)
  PROVE  StreamIInv'
  BY DEF StreamIInv, StreamTypeOK, RegistryIsExact, SentIsKept, Open, Steps, Goto,
         pageVars, CloseEarly

LEMMA RefuseInv ==
  ASSUME StreamIInv, NEW k \in Connections, Refuse(k)
  PROVE  StreamIInv'
  BY DEF StreamIInv, StreamTypeOK, RegistryIsExact, SentIsKept, Open, Steps, Goto,
         pageVars, Refuse

LEMMA DrainInv ==
  ASSUME StreamIInv, Drain
  PROVE  StreamIInv'
  BY StreamAssumption DEF StreamIInv, StreamTypeOK, RegistryIsExact, SentIsKept, Open, Steps, Failure,
         Forget, pageVars, Drain

LEMMA ProcessExitsInv ==
  ASSUME StreamIInv, ProcessExits
  PROVE  StreamIInv'
  BY DEF StreamIInv, StreamTypeOK, RegistryIsExact, SentIsKept, Open, Steps, Stops,
         Forget, pageVars, ProcessExits

LEMMA CrashInv ==
  ASSUME StreamIInv, Crash
  PROVE  StreamIInv'
  BY StreamAssumption DEF StreamIInv, StreamTypeOK, RegistryIsExact, SentIsKept, Open, Steps, Failure,
         Stops, Forget, pageVars, Crash

LEMMA RestartInv ==
  ASSUME StreamIInv, Restart
  PROVE  StreamIInv'
  BY DEF StreamIInv, StreamTypeOK, RegistryIsExact, SentIsKept, Open, Steps, pageVars,
         Restart

LEMMA OnErrorInv ==
  ASSUME StreamIInv, OnError
  PROVE  StreamIInv'
  BY DEF StreamIInv, StreamTypeOK, RegistryIsExact, SentIsKept, Open, Steps, serverVars,
         OnError

LEMMA ShowInv ==
  ASSUME StreamIInv, Show
  PROVE  StreamIInv'
  BY DEF StreamIInv, StreamTypeOK, RegistryIsExact, SentIsKept, Open, Steps, Connect,
         Idle, Goto, Show

LEMMA ReconnectInv ==
  ASSUME StreamIInv, Reconnect
  PROVE  StreamIInv'
  BY DEF StreamIInv, StreamTypeOK, RegistryIsExact, SentIsKept, Open, Steps, Connect,
         Idle, Goto, Reconnect

LEMMA AuthorizationEndsInv ==
  ASSUME StreamIInv, AuthorizationEnds
  PROVE  StreamIInv'
  BY DEF StreamIInv, StreamTypeOK, RegistryIsExact, SentIsKept, Open, Steps, serverVars,
         AuthorizationEnds

LEMMA LeaveInv ==
  ASSUME StreamIInv, Leave
  PROVE  StreamIInv'
  BY DEF StreamIInv, StreamTypeOK, RegistryIsExact, SentIsKept, Open, Steps, serverVars,
         Leave

LEMMA StreamStutter == StreamIInv /\ UNCHANGED streamVars => StreamIInv'
  BY DEF StreamIInv, StreamTypeOK, RegistryIsExact, SentIsKept, Open, Steps, streamVars, serverVars,
         pageVars

LEMMA FailureInv ==
  ASSUME StreamIInv, Failure, UNCHANGED <<committed, announced, missed, serverVars, pageVars>>
  PROVE  StreamIInv'
  BY StreamAssumption DEF StreamIInv, StreamTypeOK, RegistryIsExact, SentIsKept, Open, Steps, Failure,
         serverVars, pageVars

LEMMA StreamGivesLive == StreamIInv => RegistryIsExact /\ NoGap
  BY DEF StreamIInv, SentIsKept, NoGap

-----------------------------------------------------------------------------
(* Sequences                                                               *)

(* What is left of a sequence without its n-th element. *)
LEMMA RemoveAtFacts ==
  ASSUME NEW S, NEW s \in Seq(S), NEW n \in 1..Len(s)
  PROVE  /\ RemoveAt(s, n) \in Seq(S)
         /\ Len(RemoveAt(s, n)) = Len(s) - 1
         /\ \A m \in 1..(Len(s) - 1) : RemoveAt(s, n)[m] = IF m < n THEN s[m] ELSE s[m + 1]
  <1> DEFINE front == SubSeq(s, 1, n - 1)
             back  == SubSeq(s, n + 1, Len(s))
  <1>1. /\ front \in Seq(S) /\ Len(front) = n - 1
        /\ \A m \in 1..(n - 1) : front[m] = s[m]
    <2>1. \A m \in 1..(n - 1) : s[m] \in S
      OBVIOUS
    <2> QED
      BY <2>1, SubSeqProperties
  <1>2. /\ back \in Seq(S) /\ Len(back) = Len(s) - n
        /\ \A m \in 1..(Len(s) - n) : back[m] = s[n + m]
    <2>1. \A m \in (n + 1)..Len(s) : s[m] \in S
      OBVIOUS
    <2> QED
      BY <2>1, SubSeqProperties
  <1>3. RemoveAt(s, n) = front \o back
    BY DEF RemoveAt
  <1> HIDE DEF front, back
  <1>4. /\ front \o back \in Seq(S) /\ Len(front \o back) = (n - 1) + (Len(s) - n)
        /\ \A m \in 1..((n - 1) + (Len(s) - n)) :
              (front \o back)[m] = IF m <= n - 1 THEN front[m] ELSE back[m - (n - 1)]
    <2>1. /\ front \o back \in Seq(S) /\ Len(front \o back) = Len(front) + Len(back)
          /\ \A m \in 1..(Len(front) + Len(back)) :
                (front \o back)[m] = IF m <= Len(front) THEN front[m] ELSE back[m - Len(front)]
      BY <1>1, <1>2, ConcatProperties
    <2> QED
      BY <2>1, <1>1, <1>2
  <1>5. \A m \in 1..(Len(s) - 1) : (front \o back)[m] = IF m < n THEN s[m] ELSE s[m + 1]
    <2> TAKE m \in 1..(Len(s) - 1)
    <2>1. CASE m < n
      BY <2>1, <1>1, <1>4
    <2>2. CASE m >= n
      <3>1. m - (n - 1) \in 1..(Len(s) - n) /\ n + (m - (n - 1)) = m + 1
        BY <2>2
      <3>2. back[m - (n - 1)] = s[m + 1]
        BY <3>1, <1>2
      <3>3. ~(m <= n - 1) /\ m \in 1..((n - 1) + (Len(s) - n))
        BY <2>2
      <3>4. (front \o back)[m] = back[m - (n - 1)]
        BY <3>3, <1>4
      <3>5. ~(m < n)
        BY <2>2
      <3> QED
        BY <3>2, <3>4, <3>5
    <2>3. m < n \/ m >= n
      BY LenProperties
    <2> QED
      BY <2>1, <2>2, <2>3
  <1>6. front \o back \in Seq(S) /\ Len(front \o back) = Len(s) - 1
    <2>1. Len(s) \in Nat /\ n \in Nat
      BY LenProperties
    <2>2. (n - 1) + (Len(s) - n) = Len(s) - 1
      BY <2>1
    <2> QED
      BY <1>4, <2>2
  <1> HIDE DEF RemoveAt
  <1> QED
    BY <1>3, <1>5, <1>6, Zenon

(* The request that leaves joins those under way, which it crosses.        *)
LEMMA RequestFacts ==
  ASSUME NEW list \in Seq(Fetches), NEW c \in {None} \cup committed, Request(list, c)
  PROVE  /\ fetches' \in Seq(Fetches)
         /\ Len(fetches') = Len(list) + 1 /\ Len(list) < MaxFetches
         /\ \A n \in 1..Len(list) :
               /\ fetches'[n].crossed
               /\ fetches'[n].cursor = list[n].cursor /\ fetches'[n].rows = list[n].rows
               /\ fetches'[n].replace <=> list[n].replace
         /\ LET f == fetches'[Len(list) + 1] IN
               f.cursor = c /\ (f.replace <=> c = None) /\ (f.crossed <=> list # <<>>) /\ f.rows = None
         /\ loading' = TRUE
  <1> DEFINE crossed == [n \in DOMAIN list |-> [list[n] EXCEPT !.crossed = TRUE]]
             new == [cursor |-> c, replace |-> c = None, crossed |-> list # <<>>, rows |-> None]
  <1>1. crossed \in Seq(Fetches) /\ Len(crossed) = Len(list)
    <2>1. \A f \in Fetches : [f EXCEPT !.crossed = TRUE] \in Fetches
      BY DEF Fetches
    <2>2. crossed \in [1..Len(list) -> Fetches]
      BY <2>1, ElementOfSeq
    <2> QED
      BY <2>2, SeqDef
  <1>2. new \in Fetches
    BY DEF Fetches
  <1>3. \A n \in 1..Len(list) : crossed[n] = [list[n] EXCEPT !.crossed = TRUE]
    BY LenProperties
  <1>4. fetches' = Append(crossed, new) /\ loading' = TRUE /\ Len(list) < MaxFetches
    BY DEF Request
  <1> HIDE DEF crossed, new
  <1>5. /\ fetches' \in Seq(Fetches) /\ Len(fetches') = Len(list) + 1
        /\ \A n \in 1..Len(list) : fetches'[n] = crossed[n]
        /\ fetches'[Len(list) + 1] = new
    BY <1>1, <1>2, <1>4, AppendProperties
  <1>6. \A f \in Fetches : LET g == [f EXCEPT !.crossed = TRUE] IN
           g.crossed /\ g.cursor = f.cursor /\ g.rows = f.rows /\ (g.replace <=> f.replace)
    BY DEF Fetches
  <1>7. /\ new.cursor = c /\ new.rows = None
        /\ new.replace = (c = None) /\ new.crossed = (list # <<>>)
    BY DEF new
  <1>8. \A n \in 1..Len(list) : list[n] \in Fetches
    BY ElementOfSeq
  <1>9. ASSUME NEW n \in 1..Len(list)
        PROVE  /\ fetches'[n].crossed
               /\ fetches'[n].cursor = list[n].cursor /\ fetches'[n].rows = list[n].rows
               /\ fetches'[n].replace <=> list[n].replace
    <2>1. fetches'[n] = [list[n] EXCEPT !.crossed = TRUE]
      BY <1>3, <1>5
    <2> QED
      BY <2>1, <1>6, <1>8
  <1>10. LET f == fetches'[Len(list) + 1] IN
            f.cursor = c /\ (f.replace <=> c = None) /\ (f.crossed <=> list # <<>>) /\ f.rows = None
    BY <1>5, <1>7
  <1> QED
    BY <1>4, <1>5, <1>9, <1>10

-----------------------------------------------------------------------------
(* The order of incidents, and what a query of them answers                *)

LEMMA StartsInOrder ==
  ASSUME startedAt \in Timings
  PROVE  /\ \A i \in Incidents : startedAt[i] \in Nat
         /\ \A i, j \in Incidents : i < j => startedAt[i] <= startedAt[j]
  BY ListAssumption

(* A committed incident that began after the row of a cursor is above it.  *)
LEMMA RowsAfterCursor ==
  ASSUME startedAt \in Timings, NEW c \in Incidents, NEW i \in Incidents,
         startedAt[i] < startedAt[c]
  PROVE  i < c
  BY StartsInOrder, StreamAssumption

(* A set of numbers has a least one. *)
LEMMA LeastNumber ==
  ASSUME NEW T \in SUBSET Nat, T # {}
  PROVE  \E x \in T : \A y \in T : x <= y
  <1> DEFINE R == OpToRel(<, Nat)
  <1>1. IsWellFoundedOn(R, Nat)
    BY NatLessThanWellFounded, Zenon
  <1>2. \A s, t \in Nat : s < t => <<s, t>> \in R
    BY DEF OpToRel
  <1> HIDE DEF R
  <1>3. PICK x \in T : \A y \in T : ~(<<y, x>> \in R)
    BY <1>1, WFMin
  <1>4. \A y \in T : ~(y < x)
    BY <1>2, <1>3
  <1>5. \A y \in T : x <= y
    BY <1>4
  <1> QED
    BY <1>5

(* A finite set of numbers has a greatest one: the one that has the fewest *)
(* above it.                                                               *)
LEMMA GreatestNumber ==
  ASSUME NEW A \in SUBSET Nat, IsFiniteSet(A), A # {}
  PROVE  \E x \in A : \A y \in A : y <= x
  <1> DEFINE Above(i) == {j \in A : j > i}
             T == {Cardinality(Above(i)) : i \in A}
  <1>1. \A i \in A : IsFiniteSet(Above(i)) /\ Cardinality(Above(i)) \in Nat
    BY FS_Subset, FS_CardinalityType
  <1>2. T \in SUBSET Nat /\ T # {}
    BY <1>1
  <1>3. PICK n \in T : \A m \in T : n <= m
    BY <1>2, LeastNumber
  <1>4. PICK x \in A : n = Cardinality(Above(x))
    BY <1>3
  <1>5. ASSUME NEW y \in A, y > x PROVE FALSE
    <2> x \in Nat /\ y \in Nat
      BY <1>4, <1>5
    <2>1. Above(y) \subseteq Above(x) /\ Above(y) # Above(x)
      <3>1. \A j \in A : j \in Nat /\ (j > y => j > x)
        BY <1>5
      <3>2. y \in Above(x) /\ y \notin Above(y)
        BY <1>5
      <3> QED
        BY <3>1, <3>2
    <2>2. Cardinality(Above(y)) < Cardinality(Above(x))
      BY <1>1, <2>1, FS_Subset
    <2> HIDE DEF Above
    <2>3. Cardinality(Above(x)) <= Cardinality(Above(y))
      BY <1>3, <1>4
    <2> QED
      BY <1>1, <2>2, <2>3
  <1>6. ASSUME NEW y \in A PROVE y <= x
    <2>1. x \in Nat /\ y \in Nat
      BY <1>4, <1>6
    <2> QED
      BY <1>5, <1>6, <2>1
  <1> QED
    BY <1>6

(* The first n of a set of numbers, from the greatest down. *)
FirstRows(A, n) ==
    {s \in [1..n -> A] : Descending(s) /\ \A i \in A \ ToSet(s) : n = 0 \/ i < s[n]}

(* One more of them, as long as there is one. *)
LEMMA OneMoreRow ==
  ASSUME NEW A \in SUBSET Nat, IsFiniteSet(A), NEW n \in Nat, NEW s \in FirstRows(A, n),
         A \ ToSet(s) # {}
  PROVE  FirstRows(A, n + 1) # {}
  <1>1. /\ s \in [1..n -> A] /\ Descending(s)
        /\ \A i \in A \ ToSet(s) : n = 0 \/ i < s[n]
    BY DEF FirstRows
  <1>2. PICK m \in A \ ToSet(s) : \A i \in A \ ToSet(s) : i <= m
    <2>1. IsFiniteSet(A \ ToSet(s)) /\ A \ ToSet(s) \in SUBSET Nat
      BY FS_Subset
    <2> QED
      BY <2>1, GreatestNumber
  <1> DEFINE t == [k \in 1..(n + 1) |-> IF k = n + 1 THEN m ELSE s[k]]
  <1>3. t \in [1..(n + 1) -> A]
    <2>1. \A k \in 1..(n + 1) : k = n + 1 \/ k \in 1..n
      OBVIOUS
    <2> QED
      BY <1>1, <1>2, <2>1
  <1>4. t[n + 1] = m /\ \A k \in 1..n : t[k] = s[k]
    OBVIOUS
  <1> HIDE DEF t
  <1>5. Descending(t)
    <2> SUFFICES ASSUME NEW a \in 1..(n + 1), NEW b \in 1..(n + 1), a < b PROVE t[a] > t[b]
      BY <1>3 DEF Descending
    <2>1. a \in 1..n
      OBVIOUS
    <2>2. CASE b \in 1..n
      BY <1>1, <1>4, <2>1, <2>2 DEF Descending
    <2>3. CASE b = n + 1
      <3>1. n # 0 /\ n \in 1..n
        BY <2>1
      <3>2. s[n] > m /\ s[n] \in Nat /\ m \in Nat /\ s[a] \in Nat
        BY <1>1, <1>2, <2>1, <3>1
      <3>3. a = n \/ s[a] > s[n]
        BY <1>1, <2>1, <3>1 DEF Descending
      <3> QED
        BY <1>4, <2>1, <2>3, <3>2, <3>3
    <2> QED
      BY <2>2, <2>3
  <1>6. \A i \in A \ ToSet(t) : i < t[n + 1]
    <2>1. ToSet(s) \subseteq ToSet(t) /\ m \in ToSet(t)
      <3>1. DOMAIN t = 1..(n + 1) /\ DOMAIN s = 1..n
        BY <1>1, <1>3
      <3> QED
        BY <1>4, <3>1 DEF ToSet
    <2> QED
      BY <1>2, <1>4, <2>1
  <1> QED
    BY <1>3, <1>5, <1>6 DEF FirstRows

(* ORDER BY ... DESC LIMIT n has an answer. *)
LEMMA RowsExist ==
  ASSUME NEW A \in SUBSET Nat, IsFiniteSet(A), NEW N \in Nat
  PROVE  \E n \in 0..N : \E s \in FirstRows(A, n) : n = N \/ A \ ToSet(s) = {}
  <1> SUFFICES ASSUME \A n \in 0..N : \A s \in FirstRows(A, n) : n # N /\ A \ ToSet(s) # {}
               PROVE  FALSE
    OBVIOUS
  <1> DEFINE Without == {n \in 0..N : FirstRows(A, n) = {}}
  <1>1. Without # {}
    <2>1. FirstRows(A, N) = {}
      OBVIOUS
    <2> QED
      BY <2>1
  <1>2. PICK x \in Without : \A y \in Without : x <= y
    <2>1. Without \in SUBSET Nat
      OBVIOUS
    <2> QED
      BY <1>1, <2>1, LeastNumber
  <1>3. FirstRows(A, 0) # {}
    <2>1. << >> \in [1..0 -> A] /\ Descending(<< >>)
      BY DEF Descending
    <2> QED
      BY <2>1 DEF FirstRows
  <1>4. x # 0 /\ x - 1 \in 0..N /\ x - 1 \in Nat /\ (x - 1) + 1 = x
    BY <1>2, <1>3
  <1>5. FirstRows(A, x - 1) # {}
    <2>1. ~(x <= x - 1)
      BY <1>4
    <2>2. x - 1 \notin Without
      BY <1>2, <2>1
    <2> QED
      BY <1>4, <2>2
  <1>6. PICK s \in FirstRows(A, x - 1) : A \ ToSet(s) # {}
    BY <1>4, <1>5
  <1>7. FirstRows(A, (x - 1) + 1) # {}
    BY <1>4, <1>6, OneMoreRow
  <1> QED
    BY <1>2, <1>4, <1>7

(* Of two answers to a query, none has a later row where they part.        *)
LEMMA RowsDoNotPart ==
  ASSUME NEW A \in SUBSET Nat, NEW n \in Nat, NEW s \in [1..n -> A], Descending(s),
         NEW m \in Nat, NEW t \in [1..m -> A], Descending(t),
         \A i \in A \ ToSet(t) : i < t[m],
         NEW k \in 1..n, k \in 1..m, \A j \in 1..(k - 1) : s[j] = t[j]
  PROVE  s[k] <= t[k]
  <1> SUFFICES ASSUME s[k] > t[k] PROVE FALSE
    <2>1. s[k] \in Nat /\ t[k] \in Nat
      OBVIOUS
    <2> QED
      BY <2>1
  <1>1. s[k] \in Nat /\ t[k] \in Nat /\ t[m] \in Nat
    <2>1. m \in 1..m
      OBVIOUS
    <2>2. s[k] \in A /\ t[k] \in A /\ t[m] \in A
      BY <2>1
    <2> QED
      BY <2>2
  <1>2. \A j \in 1..m : t[j] # s[k]
    <2> TAKE j \in 1..m
    <2>1. CASE j < k
      <3>1. j \in 1..(k - 1) /\ j \in 1..n
        BY <2>1
      <3>2. s[j] > s[k] /\ s[j] = t[j]
        BY <2>1, <3>1 DEF Descending
      <3> QED
        BY <1>1, <3>2
    <2>2. CASE j = k
      BY <1>1, <2>2
    <2>3. CASE j > k
      <3>1. t[k] > t[j] /\ t[j] \in Nat
        BY <2>3 DEF Descending
      <3> QED
        BY <1>1, <3>1
    <2> QED
      BY <2>1, <2>2, <2>3
  <1>3. s[k] < t[m]
    BY <1>2 DEF ToSet
  <1>4. k = m \/ t[k] > t[m]
    BY DEF Descending
  <1> QED
    BY <1>1, <1>3, <1>4

(* Nor is it shorter: what the other goes on with would be left out. *)
LEMMA RowsAreNotFewer ==
  ASSUME NEW A \in SUBSET Nat, NEW n \in Nat, NEW s \in [1..n -> A],
         NEW N \in Nat, NEW m \in 0..N, NEW t \in [1..m -> A], Descending(t),
         \A i \in A \ ToSet(s) : n = N,
         \A j \in 1..n : j \in 1..m => s[j] = t[j]
  PROVE  m <= n
  <1>0. m \in Nat /\ m <= N
    OBVIOUS
  <1> SUFFICES ASSUME m > n PROVE FALSE
    BY <1>0
  <1>1. n + 1 \in 1..m /\ t[n + 1] \in A /\ t[n + 1] \in Nat
    <2>1. n + 1 \in 1..m
      BY <1>0
    <2> QED
      BY <2>1
  <1>2. \A j \in 1..n : s[j] # t[n + 1]
    <2> TAKE j \in 1..n
    <2>1. j \in 1..m /\ j < n + 1
      OBVIOUS
    <2>2. t[j] > t[n + 1] /\ t[j] \in Nat
      BY <1>1, <2>1 DEF Descending
    <2> QED
      BY <1>1, <2>1, <2>2
  <1>3. t[n + 1] \in A \ ToSet(s)
    BY <1>1, <1>2 DEF ToSet
  <1>4. n = N
    BY <1>3
  <1> QED
    BY <1>0, <1>4

(* What a query asks for is one page and no other: the rows that the next  *)
(* request goes on from are the ones that were answered (the ORDER BY and  *)
(* LIMIT of findByWorkspace).                                              *)
THEOREM OnePage ==
  ASSUME committed \subseteq Incidents, NEW c \in {None} \cup committed
  PROVE  \E s : Page(c) = {s}
  <1> DEFINE A == After(c)
  <1>1. A \in SUBSET Nat /\ IsFiniteSet(A) /\ PageSize \in Nat /\ PageSize # 0
    <2>1. A \subseteq Incidents
      BY DEF After
    <2> QED
      BY <2>1, StreamAssumption, ListAssumption, FS_Subset
  <1>2. \A n \in Nat : \A s \in [1..n -> A] : Len(s) = n /\ Last(s) = s[n]
    BY SeqDef DEF Last
  <1> HIDE DEF A
  <1>3. Page(c) # {}
    <2>1. PICK n \in 0..PageSize : \E s \in FirstRows(A, n) : n = PageSize \/ A \ ToSet(s) = {}
      BY <1>1, RowsExist
    <2>2. PICK s \in FirstRows(A, n) : n = PageSize \/ A \ ToSet(s) = {}
      BY <2>1
    <2>3. s \in [1..n -> A] /\ Descending(s) /\ Len(s) = n /\ Last(s) = s[n]
      BY <1>1, <1>2 DEF FirstRows
    <2>4. \A i \in A \ ToSet(s) : Len(s) = PageSize /\ i < Last(s)
      BY <1>1, <2>2, <2>3 DEF FirstRows
    <2>5. s \in Page(c)
      BY <2>3, <2>4 DEF Page, A
    <2> QED
      BY <2>5
  <1>4. ASSUME NEW s \in Page(c), NEW t \in Page(c) PROVE s = t
    <2>1. PICK n \in 0..PageSize : s \in [1..n -> A]
      BY DEF Page, A
    <2>2. PICK m \in 0..PageSize : t \in [1..m -> A]
      BY DEF Page, A
    <2>3. n \in Nat /\ m \in Nat
      BY <1>1
    <2>4. /\ Descending(s) /\ \A i \in A \ ToSet(s) : n = PageSize /\ i < s[n]
          /\ Descending(t) /\ \A i \in A \ ToSet(t) : m = PageSize /\ i < t[m]
      BY <1>2, <2>1, <2>2, <2>3 DEF Page, A
    <2> DEFINE D == {k \in 1..n : k \in 1..m /\ s[k] # t[k]}
    <2>5. D = {}
      <3> SUFFICES ASSUME D # {} PROVE FALSE
        OBVIOUS
      <3>1. D \in SUBSET Nat
        OBVIOUS
      <3>2. PICK k \in D : \A j \in D : k <= j
        BY <3>1, LeastNumber
      <3>3. k \in 1..n /\ k \in 1..m /\ s[k] # t[k]
        OBVIOUS
      <3>4. \A j \in 1..(k - 1) : s[j] = t[j]
        <4> TAKE j \in 1..(k - 1)
        <4>1. j \in 1..n /\ j \in 1..m /\ ~(k <= j)
          BY <2>3, <3>3
        <4> QED
          BY <3>2, <4>1
      <3> HIDE DEF D
      <3>5. s[k] <= t[k]
        BY <1>1, <2>1, <2>2, <2>3, <2>4, <3>3, <3>4, RowsDoNotPart
      <3>6. t[k] <= s[k]
        BY <1>1, <2>1, <2>2, <2>3, <2>4, <3>3, <3>4, RowsDoNotPart
      <3>7. s[k] \in Nat /\ t[k] \in Nat
        BY <1>1, <2>1, <2>2, <3>3
      <3> QED
        BY <3>3, <3>5, <3>6, <3>7
    <2>6. \A k \in 1..n : k \in 1..m => s[k] = t[k]
      BY <2>5
    <2> HIDE DEF D
    <2>7. m <= n
      BY <1>1, <2>1, <2>2, <2>3, <2>4, <2>6, RowsAreNotFewer
    <2>8. n <= m
      BY <1>1, <2>1, <2>2, <2>3, <2>4, <2>6, RowsAreNotFewer
    <2>9. n = m
      BY <2>3, <2>7, <2>8
    <2> QED
      BY <2>1, <2>2, <2>6, <2>9
  <1>5. PICK s : s \in Page(c)
    BY <1>3
  <1> QED
    BY <1>4, <1>5

(* What findByWorkspace answers at the moment it is asked. *)
LEMMA PageFacts ==
  ASSUME committed \subseteq Incidents, NEW c \in {None} \cup committed, NEW s \in Page(c)
  PROVE  /\ s \in Seq(committed)
         /\ AnswerOK(c, s)
         /\ c = None => \A i \in committed : Covers(s, i)
  <1>1. PICK n \in 0..PageSize : s \in [1..n -> After(c)]
    BY DEF Page
  <1>2. /\ After(c) \subseteq committed
        /\ c = None => After(c) = committed
        /\ c # None => \A i \in committed : i \in After(c) <=> startedAt[i] < startedAt[c]
    BY DEF After
  <1>3. n \in Nat /\ n <= PageSize /\ PageSize > 0
    BY ListAssumption
  <1>4. s \in Seq(After(c)) /\ Len(s) = n
    BY <1>1, <1>3, SeqDef
  <1>5. s \in Seq(committed) /\ ToSet(s) \subseteq After(c)
    BY <1>1, <1>2, <1>4, SeqMonotonic DEF ToSet
  <1>6. \A i \in After(c) \ ToSet(s) : Len(s) = PageSize /\ i < s[Len(s)]
    BY DEF Page, Last
  <1>7. Descending(s)
    BY DEF Page
  <1>8. AnswerOK(c, s)
    BY <1>2, <1>3, <1>4, <1>5, <1>6, <1>7 DEF AnswerOK
  <1>9. ASSUME c = None PROVE \A i \in committed : Covers(s, i)
    <2>1. PageSize # 0
      BY <1>3
    <2> QED
      BY <1>2, <1>6, <1>9, <2>1, EmptySeq DEF Covers
  <1> QED
    BY <1>5, <1>8, <1>9

(* The first page is one stretch, and everything if it is not full. *)
LEMMA FirstPageStretch ==
  ASSUME committed \subseteq Incidents, NEW s \in Seq(committed), AnswerOK(None, s)
  PROVE  Stretch(s) /\ (Len(s) # PageSize => Whole(s))
  <1>1. \A n \in 1..Len(s) : s[n] \in Nat
    BY StreamAssumption, ElementOfSeq
  <1>2. s # <<>> => 1 \in 1..Len(s) /\ Len(s) \in 1..Len(s)
    BY EmptySeq
  <1>3. committed \subseteq Nat
    BY StreamAssumption
  <1> QED
    BY <1>1, <1>2, <1>3 DEF AnswerOK, Stretch, Whole

(* A page that goes on from where the list ends makes it one stretch that  *)
(* is longer, and nothing that it covered is lost.                         *)
LEMMA NextPageFollows ==
  ASSUME startedAt \in Timings, committed \subseteq Incidents,
         NEW s \in Seq(committed), s # <<>>, NEW r \in Seq(committed),
         s[Len(s)] # None, AnswerOK(s[Len(s)], r)
  PROVE  /\ Stretch(s) => Stretch(s \o r) /\ (Len(r) # PageSize => Whole(s \o r))
         /\ \A i \in committed : Covers(s, i) => Covers(s \o r, i)
  <1> DEFINE c == s[Len(s)]
             l == s \o r
  <1>1. /\ Len(s) \in Nat \ {0} /\ Len(r) \in Nat
        /\ c \in committed
        /\ \A n \in 1..Len(s) : s[n] \in committed
        /\ \A n \in 1..Len(r) : r[n] \in committed
    BY EmptySeq, ElementOfSeq, LenProperties
  <1>2. /\ l \in Seq(committed) /\ Len(l) = Len(s) + Len(r)
        /\ \A n \in 1..(Len(s) + Len(r)) : l[n] = IF n <= Len(s) THEN s[n] ELSE r[n - Len(s)]
    BY ConcatProperties
  <1> HIDE DEF l
  <1>3. /\ \A n \in 1..Len(s) : n \in 1..Len(l) /\ l[n] = s[n]
        /\ \A n \in 1..Len(r) : Len(s) + n \in 1..Len(l) /\ l[Len(s) + n] = r[n]
    <2>1. \A n \in 1..Len(r) : (Len(s) + n) - Len(s) = n /\ ~(Len(s) + n <= Len(s))
      BY <1>1
    <2> QED
      BY <1>1, <1>2, <2>1
  <1>4. ToSet(s) \subseteq ToSet(l) /\ ToSet(r) \subseteq ToSet(l)
    <2>1. DOMAIN s = 1..Len(s) /\ DOMAIN r = 1..Len(r) /\ DOMAIN l = 1..Len(l)
      BY <1>2, LenProperties
    <2> QED
      BY <1>3, <2>1 DEF ToSet
  <1>5. committed \subseteq Nat /\ \A i \in committed : startedAt[i] \in Nat
    BY StreamAssumption, StartsInOrder
  <1>6. \A n \in 1..Len(r) : r[n] < c
    BY <1>1, RowsAfterCursor, LenProperties DEF AnswerOK, ToSet
  <1>7. /\ l # <<>> /\ l[1] = s[1]
        /\ IF r = <<>> THEN l[Len(l)] = c ELSE l[Len(l)] = r[Len(r)] /\ r[Len(r)] < c
    <2>1. l # <<>> /\ l[1] = s[1]
      BY <1>1, <1>2, <1>3, EmptySeq
    <2>2. CASE r = <<>>
      BY <2>2, <2>1, <1>1, <1>2, <1>3
    <2>3. CASE r # <<>>
      <3>1. Len(r) \in 1..Len(r)
        BY <2>3, <1>1, EmptySeq
      <3> QED
        BY <3>1, <2>1, <2>3, <1>2, <1>3, <1>6
    <2> QED
      BY <2>1, <2>2, <2>3
  (* What comes after the cursor is in the page or below it, or excused. *)
  <1>8. \A i \in committed :
           i < c => \/ i \in ToSet(r) \cup late
                    \/ startedAt[i] = startedAt[c]
                    \/ Len(r) = PageSize /\ r # <<>> /\ i < r[Len(r)]
    <2> TAKE i \in committed
    <2>1. i < c => startedAt[i] < startedAt[c] \/ startedAt[i] = startedAt[c]
      <3>1. i < c => startedAt[i] <= startedAt[c]
        BY <1>1, StartsInOrder
      <3>2. startedAt[i] \in Nat /\ startedAt[c] \in Nat
        BY <1>1, <1>5
      <3> QED
        BY <3>1, <3>2
    <2>2. Len(r) = PageSize => r # <<>>
      BY ListAssumption, EmptySeq
    <2> QED
      BY <2>1, <2>2 DEF AnswerOK
  <1>9. c \in ToSet(s)
    BY <1>1, LenProperties DEF ToSet
  <1>10. ASSUME Stretch(s) PROVE Stretch(l)
    <2>1. Descending(l)
      <3> SUFFICES ASSUME NEW a \in 1..Len(l), NEW b \in 1..Len(l), a < b PROVE l[a] > l[b]
        BY <1>2, LenProperties DEF Descending
      <3>0. Descending(s) /\ Descending(r) /\ DOMAIN s = 1..Len(s) /\ DOMAIN r = 1..Len(r)
        BY <1>10, LenProperties DEF Stretch, AnswerOK
      <3>1. CASE b <= Len(s)
        <4>1. a \in 1..Len(s) /\ b \in 1..Len(s)
          BY <3>1, <1>1, <1>2
        <4> QED
          BY <4>1, <3>0, <1>3 DEF Descending
      <3>2. CASE a <= Len(s) /\ b > Len(s)
        <4>1. a \in 1..Len(s) /\ b - Len(s) \in 1..Len(r) /\ l[a] = s[a] /\ l[b] = r[b - Len(s)]
          BY <3>2, <1>1, <1>2
        <4>2. a = Len(s) \/ a < Len(s)
          BY <4>1, <1>1
        <4>3. a = Len(s) \/ s[a] > c
          <5>1. a \in DOMAIN s /\ Len(s) \in DOMAIN s
            BY <4>1, <3>0, <1>1
          <5> QED
            BY <5>1, <4>2, <3>0 DEF Descending
        <4>4. s[a] \in Nat /\ c \in Nat /\ r[b - Len(s)] \in Nat /\ r[b - Len(s)] < c
          BY <4>1, <1>1, <1>5, <1>6
        <4> QED
          BY <4>1, <4>3, <4>4
      <3>3. CASE a > Len(s)
        <4>1. /\ a - Len(s) \in 1..Len(r) /\ b - Len(s) \in 1..Len(r) /\ a - Len(s) < b - Len(s)
              /\ l[a] = r[a - Len(s)] /\ l[b] = r[b - Len(s)]
          BY <3>3, <1>1, <1>2
        <4> QED
          BY <4>1, <3>0 DEF Descending
      <3> QED
        BY <3>1, <3>2, <3>3, <1>1, <1>2
    <2>2. ASSUME NEW i \in committed \ ToSet(l), i > l[Len(l)], i < l[1]
          PROVE  i \in late \/ \E j \in ToSet(l) : startedAt[j] = startedAt[i]
      <3>1. i \notin ToSet(s) /\ i \notin ToSet(r) /\ i # c
        BY <2>2, <1>4, <1>9
      <3>2. CASE i > c
        BY <3>1, <3>2, <2>2, <1>4, <1>7, <1>10 DEF Stretch
      <3>3. CASE i < c
        <4>1. ~(r # <<>> /\ i < r[Len(r)])
          <5>1. ASSUME r # <<>> PROVE Len(r) \in 1..Len(r)
            BY <5>1, <1>1, EmptySeq
          <5>2. ASSUME r # <<>> PROVE i > r[Len(r)] /\ r[Len(r)] \in Nat /\ i \in Nat
            BY <5>1, <5>2, <2>2, <1>1, <1>5, <1>7
          <5> QED
            BY <5>2
        <4> QED
          BY <4>1, <3>1, <3>3, <1>4, <1>8, <1>9
      <3>4. i \in Nat /\ c \in Nat
        BY <1>1, <1>5
      <3> QED
        BY <3>1, <3>2, <3>3, <3>4
    <2> QED
      BY <2>1, <2>2 DEF Stretch
  <1>11. ASSUME Stretch(s), Len(r) # PageSize PROVE Whole(l)
    <2> SUFFICES ASSUME NEW i \in committed \ ToSet(l), i < s[1]
                 PROVE  i \in late \/ \E j \in ToSet(l) : startedAt[j] = startedAt[i]
      BY <1>7 DEF Whole
    <2>1. i \notin ToSet(s) /\ i \notin ToSet(r) /\ i # c
      BY <1>4, <1>9
    <2>2. CASE i > c
      BY <2>1, <2>2, <1>4, <1>11 DEF Stretch
    <2>3. CASE i < c
      BY <2>1, <2>3, <1>4, <1>8, <1>9, <1>11
    <2>4. i \in Nat /\ c \in Nat
      BY <1>1, <1>5
    <2> QED
      BY <2>1, <2>2, <2>3, <2>4
  <1>12. ASSUME NEW i \in committed, Covers(s, i) PROVE Covers(l, i)
    <2>1. CASE i \in ToSet(s) \cup late \/ \E j \in ToSet(s) : startedAt[j] = startedAt[i]
      BY <2>1, <1>4 DEF Covers
    <2>2. CASE i < c
      BY <2>2, <1>4, <1>7, <1>8, <1>9 DEF Covers
    <2> QED
      BY <2>1, <2>2, <1>12 DEF Covers
  <1> QED
    BY <1>10, <1>12, <1>11 DEF l

-----------------------------------------------------------------------------
(* Steps of the list                                                       *)

LEMMA ListTypes ==
  ASSUME LiveTypeOK
  PROVE  /\ committed \subseteq Incidents /\ startedAt \in Timings /\ late \subseteq committed
         /\ heard \subseteq committed
         /\ view \in Seq(committed) /\ nextCursor \in {None} \cup committed
         /\ fetches \in Seq(Fetches) /\ Len(fetches) \in Nat /\ DOMAIN fetches = 1..Len(fetches)
         /\ \A n \in DOMAIN fetches :
               /\ fetches[n] \in Fetches
               /\ fetches[n].cursor \in {None} \cup committed
               /\ fetches[n].rows # None => fetches[n].rows \in Seq(committed)
               /\ fetches[n].replace \in BOOLEAN /\ fetches[n].crossed \in BOOLEAN
               /\ fetches[n].replace <=> fetches[n].cursor = None
  <1>1. fetches \in Seq(Fetches) /\ Len(fetches) \in Nat /\ DOMAIN fetches = 1..Len(fetches)
    BY LenProperties DEF LiveTypeOK
  <1>2. \A n \in DOMAIN fetches : fetches[n] \in Fetches
    BY <1>1, ElementOfSeq
  <1>3. heard \subseteq committed
    BY DEF LiveTypeOK, StreamTypeOK
  <1> QED
    BY <1>1, <1>2, <1>3 DEF LiveTypeOK, StreamTypeOK, Fetches

LEMMA ListInitially == LiveInit => ListIInv
  <1> SUFFICES ASSUME LiveInit PROVE ListIInv
    OBVIOUS
  <1>1. LiveTypeOK
    <2>1. StreamTypeOK
      BY StreamInitially DEF LiveInit, StreamIInv
    <2>2. view \in Seq(committed) /\ fetches \in Seq(Fetches)
      BY DEF LiveInit, ListInit
    <2>3. Len(fetches) <= MaxFetches /\ DOMAIN fetches = {}
      BY ListAssumption DEF LiveInit, ListInit
    <2> QED
      BY <2>1, <2>2, <2>3 DEF LiveInit, ListInit, LiveTypeOK
  <1>2. DOMAIN fetches = {}
    BY DEF LiveInit, ListInit
  <1>3. Stretch(view) /\ Whole(view)
    BY DEF LiveInit, ListInit, Stretch, Whole, Descending
  <1> QED
    BY <1>1, <1>2, <1>3 DEF ListIInv, LiveInit, ListInit, CursorIsLast, FetchesOK, ViewFollows

(* Steps that leave the list alone. *)
LEMMA ListUntouched ==
  ASSUME ListIInv, StreamTypeOK', announced \subseteq announced',
         UNCHANGED <<committed, startedAt, late, listVars>>
  PROVE  ListIInv'
  <1>1. LiveTypeOK'
    BY DEF ListIInv, LiveTypeOK, Fetches, listVars
  <1>2. CursorIsLast' /\ FetchesOK'
    BY DEF ListIInv, CursorIsLast, FetchesOK, AnswerOK, AloneOK, Covers, listVars
  <1>3. ViewFollows'
    BY DEF ListIInv, ViewFollows, Stretch, Whole, Covers, listVars
  <1> QED
    BY <1>1, <1>2, <1>3 DEF ListIInv

(* What is committed below an incident that is there already is late. *)
LEMMA CommitKeeps ==
  ASSUME LiveTypeOK, NEW i \in Incidents, CommitIncident(i)
  PROVE  /\ committed \subseteq committed' /\ late \subseteq late' /\ late' \subseteq committed'
         /\ \A s \in Seq(committed) : (Stretch(s) => Stretch(s)') /\ (Whole(s) => Whole(s)')
         /\ \A c \in {None} \cup committed, s \in Seq(committed) : AnswerOK(c, s) => AnswerOK(c, s)'
         /\ \A s \in Seq(committed), j \in committed : Covers(s, j) => Covers(s, j)'
  <1>1. /\ committed' = committed \cup {i} /\ startedAt' = startedAt
        /\ late' = IF \E j \in committed : j > i THEN late \cup {i} ELSE late
        /\ i \notin committed
    BY DEF CommitIncident, Commit
  <1>2. /\ committed \subseteq Nat /\ i \in Nat /\ late \subseteq committed
        /\ committed \subseteq Incidents /\ startedAt \in Timings
    BY StreamAssumption, ListTypes
  <1>3. \A s \in Seq(committed) : s # <<>> => s[1] \in committed /\ s[Len(s)] \in committed
    BY EmptySeq, ElementOfSeq
  <1>4. ASSUME NEW s \in Seq(committed)
        PROVE  (Stretch(s) => Stretch(s)') /\ (Whole(s) => Whole(s)')
    <2>1. s # <<>> /\ i < s[1] => i \in late'
      BY <1>1, <1>3
    <2>2. Stretch(s) => Stretch(s)'
      BY <1>1, <2>1 DEF Stretch
    <2>3. Whole(s) => Whole(s)'
      BY <1>1, <2>1 DEF Whole
    <2> QED
      BY <2>2, <2>3
  <1>5. ASSUME NEW c \in {None} \cup committed, NEW s \in Seq(committed), AnswerOK(c, s)
        PROVE  AnswerOK(c, s)'
    <2>1. c # None /\ startedAt[i] < startedAt[c] => i \in late'
      BY <1>1, <1>2, RowsAfterCursor
    <2>2. s # <<>> => i \in late' \/ i > s[1]
      <3>1. s # <<>> => s[1] \in committed /\ s[1] \in Nat /\ s[1] # i
        BY <1>1, <1>2, <1>3
      <3>2. s # <<>> /\ s[1] > i => i \in late'
        BY <1>1, <3>1
      <3> QED
        BY <1>2, <3>1, <3>2
    <2> QED
      BY <1>1, <1>5, <2>1, <2>2 DEF AnswerOK
  <1>6. ASSUME NEW s \in Seq(committed), NEW j \in committed, Covers(s, j) PROVE Covers(s, j)'
    BY <1>1, <1>6 DEF Covers
  <1> QED
    BY <1>1, <1>2, <1>4, <1>5, <1>6

LEMMA CommitIncidentInv ==
  ASSUME ListIInv, StreamTypeOK', NEW i \in Incidents, CommitIncident(i)
  PROVE  ListIInv'
  <1>1. LiveTypeOK
    BY DEF ListIInv
  <1>2. UNCHANGED <<startedAt, announced, listVars>>
    BY DEF CommitIncident, Commit
  <1>3. LiveTypeOK'
    <2>1. Seq(committed) \subseteq Seq(committed') /\ Seq(Fetches) \subseteq Seq(Fetches')
      <3>1. Seq(committed) \subseteq Seq(committed')
        BY <1>1, CommitKeeps, SeqMonotonic
      <3>2. Fetches \subseteq Fetches'
        BY <1>1, <3>1, CommitKeeps DEF Fetches
      <3> QED
        BY <3>1, <3>2, SeqMonotonic
    <2> QED
      BY <1>1, <1>2, <2>1, CommitKeeps DEF LiveTypeOK, listVars
  <1>4. CursorIsLast'
    BY <1>2 DEF ListIInv, CursorIsLast, listVars
  <1>5. FetchesOK'
    BY <1>1, <1>2, CommitKeeps, ListTypes DEF ListIInv, FetchesOK, AloneOK, listVars
  <1>6. ViewFollows'
    BY <1>1, <1>2, CommitKeeps, ListTypes DEF ListIInv, ViewFollows, listVars
  <1> QED
    BY <1>3, <1>4, <1>5, <1>6 DEF ListIInv

(* A request leaves: the first page again, or the page after the list's    *)
(* end.  What was under way overlaps from now on.                          *)
LEMMA RequestInv ==
  ASSUME ListIInv, StreamTypeOK', announced \subseteq announced',
         NEW list \in {fetches, <<>>}, NEW c \in {None} \cup committed, Request(list, c),
         c # None => c = nextCursor /\ list = fetches /\ heard' = heard,
         heard' \subseteq announced',
         UNCHANGED <<committed, startedAt, late, view, nextCursor, overlapped, failed>>
  PROVE  ListIInv'
  <1>1. LiveTypeOK
    BY DEF ListIInv
  <1>2. /\ list \in Seq(Fetches) /\ Len(list) \in Nat
        /\ list = <<>> <=> Len(list) = 0
        /\ \A n \in 1..Len(list) : n \in DOMAIN fetches /\ list[n] = fetches[n]
    <2>1. CASE list = fetches
      BY <2>1, <1>1, ListTypes, EmptySeq
    <2>2. CASE list = <<>>
      BY <2>2, EmptySeq
    <2> QED
      BY <2>1, <2>2
  <1>3. /\ fetches' \in Seq(Fetches) /\ Len(fetches') = Len(list) + 1 /\ Len(list) < MaxFetches
        /\ \A n \in 1..Len(list) :
              /\ fetches'[n].crossed
              /\ fetches'[n].cursor = list[n].cursor /\ fetches'[n].rows = list[n].rows
              /\ fetches'[n].replace <=> list[n].replace
        /\ LET f == fetches'[Len(list) + 1] IN
              f.cursor = c /\ (f.replace <=> c = None) /\ (f.crossed <=> list # <<>>) /\ f.rows = None
        /\ loading' = TRUE
    BY <1>2, RequestFacts
  <1>4. DOMAIN fetches' = 1..(Len(list) + 1)
    BY <1>3, LenProperties
  <1> DEFINE last == Len(list) + 1
  <1>5. /\ last \in DOMAIN fetches'
        /\ fetches'[last].cursor = c /\ (fetches'[last].replace <=> c = None)
        /\ (fetches'[last].crossed <=> list # <<>>) /\ fetches'[last].rows = None
    BY <1>2, <1>3, <1>4
  <1>6. \A n \in 1..Len(list) :
           /\ n \in DOMAIN fetches /\ n \in DOMAIN fetches' /\ fetches'[n].crossed
           /\ fetches'[n].cursor = fetches[n].cursor /\ fetches'[n].rows = fetches[n].rows
           /\ (fetches'[n].replace <=> fetches[n].replace)
    BY <1>2, <1>3, <1>4
  <1>7. \A n \in DOMAIN fetches' : n \in 1..Len(list) \/ n = last
    BY <1>2, <1>4
  <1> HIDE DEF last
  <1>8. LiveTypeOK'
    <2>1. \A n \in DOMAIN fetches' : fetches'[n].replace <=> fetches'[n].cursor = None
      BY <1>1, <1>5, <1>6, <1>7, ListTypes
    <2>2. Len(fetches') <= MaxFetches
      BY <1>2, <1>3, ListAssumption
    <2>3. Fetches' = Fetches
      BY DEF Fetches
    <2> QED
      BY <1>1, <1>3, <2>1, <2>2, <2>3 DEF LiveTypeOK
  <1>9. FetchesOK'
    <2> SUFFICES ASSUME NEW n \in DOMAIN fetches'
                 PROVE  (/\ fetches[n].rows # None => AnswerOK(fetches[n].cursor, fetches[n].rows)
                         /\ ~fetches[n].crossed => AloneOK(fetches[n]))'
      BY DEF FetchesOK
    <2>1. CASE n \in 1..Len(list)
      <3>1. fetches[n].rows # None => AnswerOK(fetches[n].cursor, fetches[n].rows)
        BY <2>1, <1>6 DEF ListIInv, FetchesOK
      <3> QED
        BY <2>1, <3>1, <1>6 DEF AnswerOK
    <2>2. CASE n = last
      <3>1. ~fetches'[n].crossed => Len(fetches') = 1
        BY <2>2, <1>2, <1>3, <1>5
      <3> QED
        BY <2>2, <3>1, <1>5 DEF AloneOK
    <2> QED
      BY <2>1, <2>2, <1>7
  <1>10. ViewFollows'
    <2>1. CASE c = None
      BY <2>1, <1>5 DEF ListIInv, ViewFollows, Stretch, Whole
    <2>2. CASE c # None
      <3>1. \A n \in DOMAIN fetches : n \in 1..Len(list)
        BY <2>2, <1>1, ListTypes
      <3> QED
        BY <2>2, <3>1, <1>6 DEF ListIInv, ViewFollows, Stretch, Whole, Covers
    <2> QED
      BY <2>1, <2>2
  <1>11. CursorIsLast'
    BY DEF ListIInv, CursorIsLast
  <1> QED
    BY <1>8, <1>9, <1>10, <1>11 DEF ListIInv

LEMMA ShowPageInv ==
  ASSUME ListIInv, StreamTypeOK', ShowPage
  PROVE  ListIInv'
  <1>1. Request(<<>>, None) /\ heard \subseteq announced
        /\ UNCHANGED <<committed, announced, startedAt, late, view, nextCursor, overlapped, failed, heard>>
    BY DEF ShowPage, Show, Connect, ListIInv, LiveTypeOK
  <1> QED
    BY <1>1, RequestInv

LEMMA LoadNextPageInv ==
  ASSUME ListIInv, StreamTypeOK', LoadNextPage
  PROVE  ListIInv'
  <1>1. /\ Request(fetches, nextCursor) /\ heard \subseteq announced
        /\ nextCursor \in {None} \cup committed
        /\ UNCHANGED <<committed, announced, startedAt, late, view, nextCursor, overlapped, failed, heard>>
    BY DEF LoadNextPage, streamVars, ListIInv, LiveTypeOK
  <1> QED
    BY <1>1, RequestInv

LEMMA AnnounceIncidentInv ==
  ASSUME ListIInv, StreamTypeOK', NEW i \in Incidents, AnnounceIncident(i)
  PROVE  ListIInv'
  <1>1. /\ announced' = announced \cup {i}
        /\ UNCHANGED <<committed, startedAt, late>>
    BY DEF AnnounceIncident, Announce
  <1>2. CASE Tuned
    <2>1. /\ Request(fetches, None) /\ heard' = heard \cup {i} /\ heard \subseteq announced
          /\ UNCHANGED <<view, nextCursor, overlapped, failed>>
      BY <1>2 DEF AnnounceIncident, Refetch, ListIInv, LiveTypeOK
    <2>2. heard' \subseteq announced'
      BY <1>1, <2>1
    <2> QED
      BY <1>1, <2>1, <2>2, RequestInv
  <1>3. CASE ~Tuned
    BY <1>1, <1>3, ListUntouched DEF AnnounceIncident
  <1> QED
    BY <1>2, <1>3

(* The page is left, and the list with it. *)
LEMMA LeavePageInv ==
  ASSUME ListIInv, StreamTypeOK', LeavePage
  PROVE  ListIInv'
  <1>1. /\ view' = <<>> /\ nextCursor' = None /\ loading' = FALSE /\ fetches' = <<>>
        /\ overlapped' = {} /\ failed' = FALSE /\ heard' = {}
        /\ UNCHANGED <<committed, startedAt, late>>
    BY DEF LeavePage, Leave
  <1>2. LiveTypeOK'
    <2>1. view' \in Seq(committed') /\ fetches' \in Seq(Fetches')
      BY <1>1
    <2>2. Len(fetches') <= MaxFetches /\ DOMAIN fetches' = {}
      BY <1>1, ListAssumption
    <2> QED
      BY <1>1, <2>1, <2>2 DEF ListIInv, LiveTypeOK
  <1>3. FetchesOK' /\ CursorIsLast' /\ ViewFollows'
    BY <1>1 DEF FetchesOK, CursorIsLast, ViewFollows, Stretch, Whole, Descending
  <1> QED
    BY <1>2, <1>3 DEF ListIInv

(* The database answers with what is committed at this moment, which is    *)
(* everything that was heard of.                                           *)
LEMMA AnswerInv ==
  ASSUME ListIInv, StreamTypeOK', NEW n \in DOMAIN fetches, Answer(n)
  PROVE  ListIInv'
  <1>1. PICK rows \in Page(fetches[n].cursor) : fetches' = [fetches EXCEPT ![n].rows = rows]
    BY DEF Answer
  <1>2. UNCHANGED <<committed, announced, startedAt, late, view, nextCursor, overlapped, failed, heard, loading>>
    BY DEF Answer, streamVars
  <1>3. LiveTypeOK
    BY DEF ListIInv
  <1>4. /\ rows \in Seq(committed)
        /\ AnswerOK(fetches[n].cursor, rows)
        /\ fetches[n].cursor = None => \A i \in committed : Covers(rows, i)
    BY <1>1, <1>3, PageFacts, ListTypes
  <1>5. /\ DOMAIN fetches' = DOMAIN fetches
        /\ \A m \in DOMAIN fetches \ {n} : fetches'[m] = fetches[m]
        /\ fetches'[n] = [fetches[n] EXCEPT !.rows = rows]
    BY <1>1
  <1>6. /\ fetches'[n] \in Fetches
        /\ fetches'[n].rows = rows /\ fetches'[n].cursor = fetches[n].cursor
        /\ (fetches'[n].replace <=> fetches[n].replace) /\ (fetches'[n].crossed <=> fetches[n].crossed)
    <2>1. \A f \in Fetches : LET g == [f EXCEPT !.rows = rows] IN
             /\ g \in Fetches /\ g.rows = rows /\ g.cursor = f.cursor
             /\ (g.replace <=> f.replace) /\ (g.crossed <=> f.crossed)
      BY <1>4 DEF Fetches
    <2> QED
      BY <2>1, <1>3, <1>5, ListTypes
  <1>7. fetches' \in Seq(Fetches) /\ Len(fetches') = Len(fetches)
    <2>1. fetches' = [fetches EXCEPT ![n] = fetches'[n]]
      BY <1>1, <1>5
    <2>2. n \in 1..Len(fetches) /\ fetches \in Seq(Fetches)
      BY <1>3, ListTypes
    <2> QED
      BY <2>1, <2>2, <1>6, ExceptSeq
  <1>8. LiveTypeOK'
    <2>1. \A m \in DOMAIN fetches' : fetches'[m].replace <=> fetches'[m].cursor = None
      BY <1>3, <1>5, <1>6, ListTypes
    <2>2. Fetches' = Fetches
      BY <1>2 DEF Fetches
    <2> QED
      BY <1>2, <1>3, <1>7, <2>1, <2>2 DEF LiveTypeOK
  <1>9. FetchesOK'
    <2> SUFFICES ASSUME NEW m \in DOMAIN fetches'
                 PROVE  (/\ fetches[m].rows # None => AnswerOK(fetches[m].cursor, fetches[m].rows)
                         /\ ~fetches[m].crossed => AloneOK(fetches[m]))'
      BY DEF FetchesOK
    <2>1. /\ fetches[m].rows # None => AnswerOK(fetches[m].cursor, fetches[m].rows)
          /\ ~fetches[m].crossed => AloneOK(fetches[m])
      BY <1>5 DEF ListIInv, FetchesOK
    <2>2. CASE m # n
      <3>1. fetches'[m] = fetches[m]
        BY <2>2, <1>5
      <3> QED
        BY <3>1, <2>1, <1>2, <1>7 DEF AnswerOK, AloneOK, Covers
    <2>3. CASE m = n
      <3>1. AnswerOK(fetches'[m].cursor, fetches'[m].rows)
        BY <2>3, <1>4, <1>6
      <3>2. ~fetches'[m].crossed => /\ Len(fetches') = 1
                                    /\ fetches'[m].replace \/ fetches'[m].cursor = nextCursor
        BY <2>1, <2>3, <1>6, <1>7 DEF AloneOK
      <3>3. fetches'[m].replace => \A i \in heard : Covers(fetches'[m].rows, i)
        BY <2>3, <1>3, <1>4, <1>6, ListTypes
      <3> QED
        BY <3>1, <3>2, <3>3, <1>2 DEF AnswerOK, AloneOK, Covers
    <2> QED
      BY <2>2, <2>3
  <1>10. CursorIsLast' /\ ViewFollows'
    <2>1. \A m \in DOMAIN fetches : fetches[m].replace => fetches'[m].replace
      BY <1>5, <1>6
    <2> QED
      BY <2>1, <1>2, <1>5 DEF ListIInv, CursorIsLast, ViewFollows, Stretch, Whole, Covers
  <1> QED
    BY <1>8, <1>9, <1>10 DEF ListIInv

(* A request is over: those that are left have overlapped. *)
LEMMA DoneFacts ==
  ASSUME ListIInv, NEW n \in DOMAIN fetches, Done(n)
  PROVE  /\ fetches' \in Seq(Fetches) /\ Len(fetches') <= MaxFetches /\ loading' = FALSE
         /\ \A m \in DOMAIN fetches' : \E k \in DOMAIN fetches : fetches'[m] = fetches[k] /\ fetches[k].crossed
         /\ \A k \in DOMAIN fetches \ {n} : \E m \in DOMAIN fetches' : fetches'[m] = fetches[k]
  <1> DEFINE N == Len(fetches)
  <1>1. fetches \in Seq(Fetches) /\ N \in Nat /\ DOMAIN fetches = 1..N /\ N <= MaxFetches /\ MaxFetches \in Nat
    BY ListTypes, ListAssumption DEF ListIInv, LiveTypeOK
  <1>2. /\ fetches' \in Seq(Fetches) /\ Len(fetches') = N - 1 /\ loading' = FALSE
        /\ \A m \in 1..(N - 1) : fetches'[m] = IF m < n THEN fetches[m] ELSE fetches[m + 1]
    BY <1>1, RemoveAtFacts DEF Done
  <1>3. DOMAIN fetches' = 1..(N - 1)
    BY <1>2, LenProperties
  <1>4. ASSUME NEW m \in DOMAIN fetches'
        PROVE  \E k \in DOMAIN fetches : fetches'[m] = fetches[k] /\ fetches[k].crossed
    <2>1. PICK k \in 1..N : fetches'[m] = fetches[k]
      <3>1. m \in 1..N /\ m + 1 \in 1..N
        BY <1>1, <1>3
      <3> QED
        BY <3>1, <1>2, <1>3
    <2>2. N # 1
      BY <1>1, <1>3
    <2> QED
      BY <1>1, <2>1, <2>2 DEF ListIInv, FetchesOK, AloneOK
  <1>5. ASSUME NEW k \in DOMAIN fetches \ {n} PROVE \E m \in DOMAIN fetches' : fetches'[m] = fetches[k]
    <2>1. CASE k < n
      <3>1. k \in 1..(N - 1)
        BY <2>1, <1>1
      <3> QED
        BY <3>1, <2>1, <1>2, <1>3
    <2>2. CASE k > n
      <3>1. k - 1 \in 1..(N - 1) /\ ~(k - 1 < n) /\ (k - 1) + 1 = k
        BY <2>2, <1>1
      <3>2. fetches'[k - 1] = fetches[k]
        BY <3>1, <1>2
      <3> QED
        BY <3>1, <3>2, <1>3
    <2> QED
      BY <2>1, <2>2, <1>1
  <1>6. N - 1 <= MaxFetches
    BY <1>1
  <1> QED
    BY <1>2, <1>4, <1>5, <1>6

(* What is under way is as good as before, whatever becomes of the list.   *)
LEMMA DoneKeeps ==
  ASSUME ListIInv, StreamTypeOK', NEW n \in DOMAIN fetches, Done(n),
         UNCHANGED <<committed, announced, startedAt, late, heard>>,
         view' \in Seq(committed), nextCursor' \in {None} \cup committed,
         overlapped' \subseteq {"refetch", "append"}, failed' \in BOOLEAN
  PROVE  LiveTypeOK' /\ FetchesOK'
  <1>1. LiveTypeOK
    BY DEF ListIInv
  <1>2. LiveTypeOK'
    <2>1. \A m \in DOMAIN fetches' : fetches'[m].replace <=> fetches'[m].cursor = None
      <3> TAKE m \in DOMAIN fetches'
      <3>1. PICK k \in DOMAIN fetches : fetches'[m] = fetches[k]
        BY DoneFacts
      <3> QED
        BY <1>1, <3>1, ListTypes
    <2>2. Fetches' = Fetches
      BY DEF Fetches
    <2> QED
      BY <1>1, <2>1, <2>2, DoneFacts DEF LiveTypeOK
  <1>3. FetchesOK'
    <2> SUFFICES ASSUME NEW m \in DOMAIN fetches'
                 PROVE  (/\ fetches[m].rows # None => AnswerOK(fetches[m].cursor, fetches[m].rows)
                         /\ fetches[m].crossed)'
      BY DEF FetchesOK
    <2>1. PICK k \in DOMAIN fetches : fetches'[m] = fetches[k] /\ fetches[k].crossed
      BY DoneFacts
    <2>2. fetches[k].rows # None => AnswerOK(fetches[k].cursor, fetches[k].rows)
      BY DEF ListIInv, FetchesOK
    <2> QED
      BY <2>1, <2>2 DEF AnswerOK
  <1> QED
    BY <1>2, <1>3

LEMMA FetchFailsInv ==
  ASSUME ListIInv, StreamTypeOK', NEW n \in DOMAIN fetches, FetchFails(n)
  PROVE  ListIInv'
  <1>1. /\ Done(n) /\ (failed' <=> failed \/ fetches[n].replace) /\ failed' \in BOOLEAN
        /\ UNCHANGED <<committed, announced, startedAt, late, heard, view, nextCursor, overlapped>>
    BY ListTypes DEF FetchFails, ListIInv, LiveTypeOK
  <1>2. LiveTypeOK' /\ FetchesOK'
    BY <1>1, DoneKeeps DEF ListIInv, LiveTypeOK
  <1>3. CursorIsLast'
    BY <1>1 DEF ListIInv, CursorIsLast
  <1>4. (Stretch(view) <=> Stretch(view)') /\ (Whole(view) <=> Whole(view)')
    BY <1>1 DEF Stretch, Whole
  <1>5. (\A i \in heard : Covers(view, i)) => (\A i \in heard : Covers(view, i))'
    BY <1>1 DEF Covers
  <1>6. ~failed' => \/ \E k \in DOMAIN fetches' : fetches'[k].replace
                    \/ ~ \E k \in DOMAIN fetches : fetches[k].replace
    BY <1>1, DoneFacts
  <1>7. ViewFollows'
    BY <1>1, <1>4, <1>5, <1>6 DEF ListIInv, ViewFollows
  <1> QED
    BY <1>2, <1>3, <1>7 DEF ListIInv

(* An answer in the list: a first page, or the page of a request that      *)
(* overlapped no other.                                                    *)
LEMMA ReceiveFollows ==
  ASSUME ListIInv, NEW n \in DOMAIN fetches, Receive(n),
         ~fetches[n].replace => ~fetches[n].crossed /\ "append" \notin overlapped
  PROVE  /\ Stretch(view') /\ (Len(fetches[n].rows) # PageSize => Whole(view'))
         /\ (~fetches[n].crossed /\ (fetches[n].replace \/ overlapped = {}) /\ ~failed')
               => \A i \in heard : Covers(view', i)
  <1> DEFINE f == fetches[n]
  <1>1. /\ LiveTypeOK /\ f.rows # None /\ f.rows \in Seq(committed) /\ AnswerOK(f.cursor, f.rows)
        /\ f.replace <=> f.cursor = None
        /\ f.replace \in BOOLEAN
    BY ListTypes DEF Receive, ListIInv, FetchesOK
  <1>2. ~f.crossed => AloneOK(f)
    BY DEF ListIInv, FetchesOK
  <1>3. CASE f.replace
    <2>1. view' = f.rows
      BY <1>3 DEF Receive
    <2> QED
      BY <1>1, <1>2, <1>3, <2>1, FirstPageStretch, ListTypes DEF AloneOK
  <1>4. CASE ~f.replace
    <2>1. /\ view' = view \o f.rows /\ (failed' <=> failed)
          /\ "append" \notin overlapped /\ AloneOK(f)
      BY <1>2, <1>4 DEF Receive, ListIInv, LiveTypeOK
    <2>2. /\ f.cursor = nextCursor /\ nextCursor # None
          /\ view # <<>> /\ f.cursor = view[Len(view)]
      BY <1>1, <1>4, <2>1 DEF AloneOK, ListIInv, CursorIsLast
    <2>3. /\ Stretch(view) => Stretch(view') /\ (Len(f.rows) # PageSize => Whole(view'))
          /\ \A i \in committed : Covers(view, i) => Covers(view', i)
      BY <1>1, <2>1, <2>2, NextPageFollows, ListTypes
    <2>4. \A m \in DOMAIN fetches : ~fetches[m].replace
      <3>1. DOMAIN fetches = {n}
        BY <1>1, <2>1, ListTypes DEF AloneOK
      <3> QED
        BY <3>1, <1>4
    <2> QED
      BY <1>1, <2>1, <2>3, <2>4, ListTypes DEF ListIInv, ViewFollows
  <1> QED
    BY <1>3, <1>4

LEMMA ReceiveInv ==
  ASSUME ListIInv, StreamTypeOK', NEW n \in DOMAIN fetches, Receive(n)
  PROVE  ListIInv'
  <1> DEFINE f == fetches[n]
  <1>1. /\ Done(n) /\ UNCHANGED <<committed, announced, startedAt, late, heard>>
        /\ f.rows # None
        /\ view' = IF f.replace THEN f.rows ELSE view \o f.rows
        /\ nextCursor' = IF Len(f.rows) = PageSize THEN f.rows[Len(f.rows)] ELSE None
        /\ overlapped' = (IF f.replace THEN {} ELSE overlapped)
                            \cup (IF ~f.crossed THEN {} ELSE IF f.replace THEN {"refetch"} ELSE {"append"})
        /\ failed' = (failed /\ ~f.replace)
    BY DEF Receive, streamVars, Last
  <1>2. /\ f.rows \in Seq(committed) /\ view \in Seq(committed)
        /\ f.replace \in BOOLEAN /\ f.crossed \in BOOLEAN
        /\ overlapped \subseteq {"refetch", "append"} /\ failed \in BOOLEAN
    BY <1>1, ListTypes DEF ListIInv, LiveTypeOK
  <1>3. Len(f.rows) = PageSize => f.rows # <<>> /\ f.rows[Len(f.rows)] \in committed
    <2>1. Len(f.rows) = PageSize => Len(f.rows) \in 1..Len(f.rows)
      BY ListAssumption
    <2> QED
      BY <1>2, <2>1, ElementOfSeq, EmptySeq, ListAssumption
  <1>4. view' \in Seq(committed)
    BY <1>1, <1>2, ConcatProperties
  <1>5. LiveTypeOK' /\ FetchesOK'
    <2>1. nextCursor' \in {None} \cup committed
      BY <1>1, <1>3
    <2>2. overlapped' \subseteq {"refetch", "append"} /\ failed' \in BOOLEAN
      BY <1>1, <1>2
    <2> QED
      BY <1>1, <1>4, <2>1, <2>2, DoneKeeps
  <1>6. CursorIsLast'
    <2> SUFFICES ASSUME nextCursor' # None
                 PROVE  view' # <<>> /\ nextCursor' = view'[Len(view')]
      BY DEF CursorIsLast
    <2>1. Len(f.rows) = PageSize /\ nextCursor' = f.rows[Len(f.rows)] /\ f.rows # <<>>
      BY <1>1, <1>3
    <2>2. CASE f.replace
      BY <1>1, <2>1, <2>2
    <2>3. CASE ~f.replace
      <3> DEFINE a == Len(view)
                 b == Len(f.rows)
      <3>1. a \in Nat /\ b \in Nat /\ b > 0
        BY <1>2, <2>1, ListAssumption, LenProperties
      <3>2. /\ Len(view \o f.rows) = a + b
            /\ \A i \in 1..(a + b) : (view \o f.rows)[i] = IF i <= a THEN view[i] ELSE f.rows[i - a]
        BY <1>2, ConcatProperties
      <3>3. a + b \in 1..(a + b) /\ ~(a + b <= a) /\ (a + b) - a = b
        BY <3>1
      <3>4. (view \o f.rows)[a + b] = f.rows[b] /\ view \o f.rows # <<>>
        BY <1>2, <2>1, <3>2, <3>3, ConcatEqualIffEmpty
      <3> QED
        BY <1>1, <2>1, <2>3, <3>2, <3>4
    <2> QED
      BY <2>2, <2>3
  <1>7. ViewFollows'
    <2>1. nextCursor' = None => Len(f.rows) # PageSize
      BY <1>1, <1>3, StreamAssumption, ListTypes DEF ListIInv
    <2>2. ASSUME "append" \notin overlapped'
          PROVE  ~f.replace => ~f.crossed /\ "append" \notin overlapped
      BY <1>1, <1>2, <2>2
    <2>3. ASSUME overlapped' = {}
          PROVE  ~f.crossed /\ (f.replace \/ overlapped = {}) /\ "append" \notin overlapped'
      BY <1>1, <1>2, <2>3
    <2>4. ASSUME "append" \notin overlapped'
          PROVE  /\ Stretch(view') /\ (Len(f.rows) # PageSize => Whole(view'))
                 /\ (overlapped' = {} /\ ~failed') => \A i \in heard : Covers(view', i)
      BY <2>2, <2>3, <2>4, ReceiveFollows
    <2> QED
      BY <1>1, <2>1, <2>3, <2>4 DEF ViewFollows, Stretch, Whole, Covers
  <1> QED
    BY <1>5, <1>6, <1>7 DEF ListIInv

-----------------------------------------------------------------------------
(* Stream and list together                                                *)

LiveIInv == StreamIInv /\ ListIInv

LEMMA LiveInductive == LiveIInv /\ [LiveNext]_liveVars => LiveIInv'
  <1> SUFFICES ASSUME StreamIInv, ListIInv, [LiveNext]_liveVars PROVE StreamIInv' /\ ListIInv'
    BY DEF LiveIInv
  <1>1. StreamIInv' => StreamTypeOK'
    BY DEF StreamIInv
  <1>2. CASE StreamStep
    <2>1. StreamIInv' /\ announced \subseteq announced' /\ UNCHANGED committed
      <3>1. ASSUME NEW i \in Incidents, Unheard(i)
            PROVE  StreamIInv' /\ announced \subseteq announced' /\ UNCHANGED committed
        BY <3>1, UnheardInv DEF Unheard
      <3>2. ASSUME NEW k \in Connections, Deny(k) \/ Add(k) \/ Full(k) \/ CloseEarly(k) \/ Refuse(k)
            PROVE  StreamIInv' /\ UNCHANGED <<committed, announced>>
        BY <3>2, DenyInv, AddInv, FullInv, CloseEarlyInv, RefuseInv
           DEF Deny, Add, Full, CloseEarly, Refuse
      <3>3. ASSUME NEW k \in Connections,
                   ReadSnapshot(k) \/ WriteSnapshot(k) \/ SnapshotFails(k) \/ Close(k)
            PROVE  StreamIInv' /\ UNCHANGED <<committed, announced>>
        BY <3>3, ReadSnapshotInv, WriteSnapshotInv, SnapshotFailsInv, CloseInv
           DEF ReadSnapshot, WriteSnapshot, SnapshotFails, Close
      <3>4. ASSUME Drain \/ ProcessExits \/ Crash \/ Restart
            PROVE  StreamIInv' /\ UNCHANGED <<committed, announced>>
        BY <3>4, DrainInv, ProcessExitsInv, CrashInv, RestartInv DEF Drain, ProcessExits, Crash, Stops, Restart
      <3>5. ASSUME OnError \/ Reconnect \/ AuthorizationEnds
            PROVE  StreamIInv' /\ UNCHANGED <<committed, announced>>
        BY <3>5, OnErrorInv, ReconnectInv, AuthorizationEndsInv
           DEF OnError, Reconnect, Connect, AuthorizationEnds
      <3> QED
        BY <1>2, <3>1, <3>2, <3>3, <3>4, <3>5 DEF StreamStep
    <2> QED
      BY <1>1, <1>2, <2>1, ListUntouched DEF StreamStep
  <1>3. ASSUME NEW i \in Incidents, CommitIncident(i) PROVE StreamIInv' /\ ListIInv'
    BY <1>1, <1>3, CommitInv, CommitIncidentInv DEF CommitIncident
  <1>4. ASSUME NEW i \in Incidents, AnnounceIncident(i) PROVE StreamIInv' /\ ListIInv'
    BY <1>1, <1>4, AnnounceInv, AnnounceIncidentInv DEF AnnounceIncident
  <1>5. CASE ShowPage
    BY <1>1, <1>5, ShowInv, ShowPageInv DEF ShowPage
  <1>6. CASE LeavePage
    BY <1>1, <1>6, LeaveInv, LeavePageInv DEF LeavePage
  <1>7. CASE LoadNextPage
    BY <1>1, <1>7, StreamStutter, LoadNextPageInv DEF LoadNextPage
  <1>8. ASSUME NEW n \in DOMAIN fetches, Answer(n) PROVE StreamIInv' /\ ListIInv'
    BY <1>1, <1>8, StreamStutter, AnswerInv DEF Answer
  <1>9. ASSUME NEW n \in DOMAIN fetches, Receive(n) PROVE StreamIInv' /\ ListIInv'
    BY <1>1, <1>9, StreamStutter, ReceiveInv DEF Receive
  <1>10. ASSUME NEW n \in DOMAIN fetches, FetchFails(n) PROVE StreamIInv' /\ ListIInv'
    BY <1>1, <1>10, FailureInv, FetchFailsInv DEF FetchFails
  <1>11. CASE UNCHANGED liveVars
    BY <1>1, <1>11, StreamStutter, ListUntouched DEF liveVars, streamVars
  <1> QED
    BY <1>2, <1>3, <1>4, <1>5, <1>6, <1>7, <1>8, <1>9, <1>10, <1>11 DEF LiveNext

LEMMA LiveInvariance == LiveSpec => []LiveIInv
  <1>1. LiveInit => LiveIInv
    BY StreamInitially, ListInitially DEF LiveInit, LiveIInv
  <1> QED
    BY <1>1, LiveInductive, PTL DEF LiveSpec

(* Whoever is registered is connected and whoever is connected is          *)
(* registered, while the process is up, and a connection with a snapshot   *)
(* misses nothing (SSEManager, events.routes), for any number of           *)
(* connections, incidents and failures.                                    *)
THEOREM LiveInvHolds == LiveSpec => []LiveInv
  <1>1. LiveIInv => LiveInv
    BY StreamGivesLive DEF LiveIInv, ListIInv, LiveInv
  <1> QED
    BY <1>1, LiveInvariance, PTL

(* The list of incidents repeats and leaves out nothing, and has what was  *)
(* heard of once the requests for it are answered (useIncidents over       *)
(* findByWorkspace), with the excuses that the three parts of ListFollows  *)
(* name: pages appended by requests that overlapped others, for the last   *)
(* part also first pages so read or not read, late commits, and rows of    *)
(* one millisecond.  It holds for every size of page and all times at      *)
(* which incidents begin.                                                  *)
THEOREM ListFollowsHolds == LiveSpec => []ListFollows
  <1>1. LiveIInv => ListFollows
    <2> SUFFICES ASSUME LiveIInv PROVE ListHasNoGap /\ ListIsWhole /\ ListIsCurrent
      BY DEF ListFollows
    <2>1. /\ view \in Seq(committed) /\ committed \subseteq Nat /\ heard \subseteq committed
          /\ DOMAIN view = 1..Len(view) /\ Len(view) \in Nat
      BY ListTypes, StreamAssumption, LenProperties DEF LiveIInv, ListIInv
    <2>2. \A n \in 1..Len(view) : view[n] \in Nat
      BY <2>1, ElementOfSeq
    <2>3. ASSUME "append" \notin overlapped
          PROVE  IsInjective(view) /\ \A i \in Skipped : i < view[1] => Excused(i)
      <3>1. Stretch(view)
        BY <2>3 DEF LiveIInv, ListIInv, ViewFollows
      <3>2. IsInjective(view)
        <4> SUFFICES ASSUME NEW a \in 1..Len(view), NEW b \in 1..Len(view), view[a] = view[b] PROVE a = b
          BY <2>1 DEF IsInjective
        <4>1. ~(a < b) /\ ~(b < a)
          BY <2>1, <2>2, <3>1 DEF Stretch, Descending
        <4> QED
          BY <4>1
      <3> QED
        BY <3>1, <3>2 DEF Stretch, Skipped, Shown, Excused, Last
    <2>4. ASSUME fetches = <<>>, overlapped = {}, ~failed
          PROVE  \A i \in heard \ Shown : Excused(i) \/ (view # <<>> /\ i < Last(view))
      BY <2>4 DEF LiveIInv, ListIInv, ViewFollows, Covers, Excused, Shown, Last
    <2>5. ListIsWhole
      BY DEF LiveIInv, ListIInv, ViewFollows, ListIsWhole, Whole, Excused, Shown
    <2> QED
      BY <2>3, <2>4, <2>5 DEF ListHasNoGap, ListIsCurrent
  <1> QED
    BY <1>1, LiveInvariance, PTL
=============================================================================
