------------------------ MODULE MonitorAdmin_proofs ------------------------
(* The plan and the monitors of a workspace, for any number of clients,    *)
(* subscriptions, plans and rows and any bounds.                           *)
EXTENDS MonitorAdmin, FiniteSetTheorems, WellFoundedInduction, TLAPS

USE DEF incidentVars, deletionVars

(* Each event is in one stage: not stored, in hand, or settled, which is   *)
(* applied or ignored; and only the last are answered.                     *)
Applied == {applied[k] : k \in DOMAIN applied}

Settled(n) == n \in Applied \/ n \in ignored

StagesOK ==
    /\ applied \in Seq(1..MaxOperations) /\ Applied \subseteq stored
    /\ \A n \in 1..MaxOperations :
          /\ webhook[n] # "idle" => n \in stored \ answered
          /\ webhook[n] \in {"stored", "found"} => n \notin Applied
          /\ n \in stored /\ webhook[n] \in {"idle", "handled"} => Settled(n)

IsCheckout(n) == sent[n].type = "checkout"

(* The checkout of a subscription has taken effect. *)
CheckedOut(s) == \E k \in DOMAIN applied : IsCheckout(applied[k]) /\ sent[applied[k]].sub = s

(* The plan is that of the last event applied that is no checkout, ...     *)
LastPlan ==
    \A k \in DOMAIN applied :
       (/\ ~IsCheckout(applied[k])
        /\ \A j \in DOMAIN applied : j > k => IsCheckout(applied[j]))
          => plan = sent[applied[k]].plan

(* ... the subscription that of the last checkout, ...                     *)
LastSub ==
    subId # 0 => \E k \in DOMAIN applied :
                    /\ IsCheckout(applied[k]) /\ sent[applied[k]].sub = subId
                    /\ \A j \in DOMAIN applied : j > k => ~IsCheckout(applied[j])

(* ... and a subscription is checked out before its other events apply.    *)
OthersFollow ==
    /\ \A k \in DOMAIN applied : ~IsCheckout(applied[k]) => CheckedOut(sent[applied[k]].sub)
    /\ \A n \in 1..MaxOperations :
          webhook[n] = "found" => ~IsCheckout(n) /\ CheckedOut(sent[n].sub)

(* Stripe sends an update after each checkout, and has sent a last event.  *)
SentOK ==
    /\ Len(sent) + budget <= MaxOperations
    /\ \A n \in Events : IsCheckout(n) => n + 1 \in Events /\ sent[n + 1].sub = sent[n].sub
    /\ \A s \in Subscriptions :
          Of(s) # {} => \E n \in Of(s) : \A k \in Of(s) : k <= n

BillingIInv == BillingTypeOK /\ AppliedOnce /\ StagesOK /\ LastPlan /\ LastSub /\ OthersFollow /\ SentOK

(* The parts of TypeOK that are not in the other conjuncts.                *)
RowsTyped ==
    /\ row \in [Monitors -> {"absent", "live", "deleted"}]
    /\ version \in [Monitors -> 0..MaxOperations]
    /\ exact \in [Monitors -> BOOLEAN]
    /\ edits \in [Monitors -> 0..MaxOperations]
    /\ deletion \in [Monitors -> {"idle", "got", "selected", "holding"}]

IncidentsTyped ==
    /\ incident \in [Monitors -> Nat] /\ opened \in [Monitors -> Nat] /\ acked \subseteq Monitors
    /\ acks \subseteq [monitor : Monitors, incident : Nat, before : BOOLEAN]
    /\ found \in [Monitors -> Nat] /\ known \in [Monitors -> Nat]
    /\ reopened \in [Monitors -> SUBSET Nat]

(* A request that has counted found fewer rows than a limit of the plan.   *)
CreateOK ==
    /\ highest \in Nat /\ overtaken \in Nat
    /\ create \in [Creators -> [pc : {"idle", "limited", "counted"}, limit : Nat, counted : Nat]]
    /\ \A r \in Creators :
          /\ create[r].pc # "idle" => create[r].limit <= highest
          /\ create[r].pc = "counted" => create[r].counted < create[r].limit

At(m) == {c \in Editors : editor[c].pc # "idle" /\ editor[c].monitor = m}

Deleting(m) == IF deletion[m] = "idle" THEN 0 ELSE 1

(* Every write of a row was paid for when its request came in.             *)
WritesPaid ==
    \A m \in Monitors :
        /\ IsFiniteSet(At(m))
        /\ version[m] + Cardinality(At(m)) + Deleting(m) + budget <= MaxOperations
        /\ edits[m] <= version[m]

(* An ETag that still names the version of the row was made from it.       *)
EditorOK ==
    /\ editor \in [Editors -> [pc : {"idle", "read", "checked", "blind"}, monitor : Nat, etag : Nat, seen : Nat]]
    /\ \A c \in Editors : editor[c].pc # "idle" =>
          LET m == editor[c].monitor IN
          /\ m \in Monitors /\ editor[c].etag <= version[m] + 1
          /\ editor[c].etag = version[m] + 1 => editor[c].seen = edits[m]

(* No incident has a number that is yet to be given.                       *)
NumbersOK ==
    /\ \A m \in Monitors :
          /\ incident[m] <= opened[m] /\ known[m] <= opened[m]
          /\ \A i \in reopened[m] : i <= opened[m]
    /\ \A a \in acks : a.incident <= opened[a.monitor]

(* An unresolved incident that is not acknowledged was not acknowledged    *)
(* before; the deletion that has the lock found it unless it came later.   *)
UnresolvedAt(m) ==
    incident[m] # 0 =>
        /\ row[m] # "absent"
        /\ m \notin acked => incident[m] \notin reopened[m] /\ (row[m] = "deleted" => incident[m] > known[m])
        /\ Locked(m) => incident[m] = found[m] \/ incident[m] > known[m] \/ incident[m] \in reopened[m]

UnresolvedOK == \A m \in Monitors : UnresolvedAt(m)

(* What is read as open on a deleted monitor was opened after the deletion *)
(* had looked.                                                             *)
AcksOK ==
    \A a \in acks :
        /\ row[a.monitor] # "absent"
        /\ ~a.before => row[a.monitor] = "deleted" /\ a.incident > known[a.monitor]

DeletionOK ==
    /\ \A m \in Monitors : deletion[m] # "idle" => row[m] = "live"
    /\ NumbersOK /\ UnresolvedOK /\ AcksOK

IInv ==
    /\ BillingIInv /\ RowsTyped /\ IncidentsTyped /\ PlanLimitHolds /\ DeletionResolves
    /\ CreateOK /\ WritesPaid /\ EditorOK /\ DeletionOK

(* A set of numbers has a least one. *)
LEMMA MinElement ==
    ASSUME NEW T \in SUBSET Nat, T # {}
    PROVE  Min(T) \in T
  <1> DEFINE R == OpToRel(<, Nat)
  <1>1. IsWellFoundedOn(R, Nat)
    BY NatLessThanWellFounded, Zenon
  <1>2. \A s, t \in Nat : s < t => <<s, t>> \in R
    BY DEF OpToRel
  <1> HIDE DEF R
  <1>5. \A s, t \in Nat : <<s, t>> \notin R => t =< s
    <2> SUFFICES ASSUME NEW s \in Nat, NEW t \in Nat, ~(t =< s) PROVE <<s, t>> \in R
      OBVIOUS
    <2>1. s < t
      OBVIOUS
    <2> QED
      BY <2>1, <1>2
  <1>3. PICK x \in T : \A y \in T : ~(<<y, x>> \in R)
    BY <1>1, WFMin
  <1>4. \A y \in T : x =< y
    BY <1>5, <1>3, Zenon
  <1> QED
    BY <1>4, Zenon DEF Min

-----------------------------------------------------------------------------
(* Billing *)

EventSet == [type : {"checkout", "updated", "deleted"}, sub : Subscriptions, plan : Plans \cup {"free"}]

LEMMA BillingInitially == BillingInit => BillingIInv
  <1> SUFFICES ASSUME BillingInit PROVE BillingIInv
    OBVIOUS
  <1>1. /\ sent = <<>> /\ Len(sent) = 0 /\ DOMAIN sent = {} /\ Events = {}
        /\ applied = <<>> /\ DOMAIN applied = {} /\ Applied = {}
    BY DEF BillingInit, Events, Applied
  <1>2. budget \in 0..MaxOperations /\ failures \in 0..MaxFailures
    BY BillingAssumption DEF BillingInit
  <1>3. BillingTypeOK
    BY <1>1, <1>2 DEF BillingInit, BillingTypeOK
  <1>4. StagesOK
    <2>1. applied \in Seq(1..MaxOperations)
      BY DEF BillingInit
    <2> QED
      BY <1>1, <2>1 DEF BillingInit, StagesOK
  <1>5. LastPlan /\ LastSub /\ OthersFollow
    BY <1>1 DEF BillingInit, LastPlan, LastSub, OthersFollow
  <1>6. SentOK
    BY <1>1, BillingAssumption DEF BillingInit, SentOK, Of
  <1> QED
    BY <1>1, <1>3, <1>4, <1>5, <1>6 DEF BillingIInv, AppliedOnce

(* What is stored was sent, and its number is within the bound. *)
LEMMA Numbers ==
    ASSUME BillingIInv
    PROVE  /\ sent \in Seq(EventSet) /\ Len(sent) \in Nat /\ Len(sent) <= MaxOperations
           /\ Events = 1..Len(sent) /\ stored \subseteq Events
           /\ \A n \in Events : n \in 1..MaxOperations /\ sent[n] \in EventSet
           /\ \A k \in DOMAIN applied : applied[k] \in Events /\ applied[k] \in stored
  <1>1. sent \in Seq(EventSet) /\ stored \subseteq Events /\ budget \in 0..MaxOperations
    BY DEF BillingIInv, BillingTypeOK, EventSet
  <1>2. Len(sent) \in Nat /\ Events = 1..Len(sent) /\ \A n \in Events : sent[n] \in EventSet
    BY <1>1 DEF Events
  <1>3. Len(sent) <= MaxOperations
    BY <1>1, <1>2, BillingAssumption DEF BillingIInv, SentOK
  <1>4. \A n \in Events : n \in 1..MaxOperations
    BY <1>2, <1>3, BillingAssumption
  <1>5. \A k \in DOMAIN applied : applied[k] \in stored
    BY DEF BillingIInv, StagesOK, Applied
  <1> QED
    BY <1>1, <1>2, <1>3, <1>4, <1>5

(* New events of one subscription, after the others. *)
LEMMA SendInv ==
    ASSUME BillingIInv, NEW events \in Seq(EventSet), Len(events) \in {1, 2}, NEW s \in Subscriptions,
           \A k \in 1..Len(events) :
              /\ events[k].sub = s
              /\ events[k].type = "checkout" => k + 1 \in 1..Len(events),
           Send(events)
    PROVE  BillingIInv' /\ budget' \in 0..budget
  <1>1. /\ budget >= Len(events) /\ budget' = budget - Len(events) /\ sent' = sent \o events
        /\ UNCHANGED <<plan, subId, stored, webhook, answered, failures, applied, ignored>>
    BY DEF Send, Spend
  <1>2. /\ sent \in Seq(EventSet) /\ Len(sent) \in Nat /\ Events = 1..Len(sent)
        /\ \A k \in DOMAIN applied : applied[k] \in Events
    BY Numbers
  <1>3. /\ sent' \in Seq(EventSet) /\ Len(sent') = Len(sent) + Len(events)
        /\ \A n \in 1..Len(sent) : sent'[n] = sent[n]
        /\ \A n \in (Len(sent) + 1)..(Len(sent) + Len(events)) : sent'[n] = events[n - Len(sent)]
    BY <1>1, <1>2
  <1>4. Events' = 1..(Len(sent) + Len(events)) /\ Events \subseteq Events'
    BY <1>2, <1>3 DEF Events
  <1>5. budget' \in 0..budget /\ budget' \in 0..MaxOperations
    BY <1>1, BillingAssumption DEF BillingIInv, BillingTypeOK
  <1>6. BillingTypeOK'
    BY <1>1, <1>3, <1>4, <1>5 DEF BillingIInv, BillingTypeOK, EventSet, Subscriptions
  <1>7. AppliedOnce' /\ StagesOK'
    BY <1>1 DEF BillingIInv, AppliedOnce, StagesOK, Applied, Settled
  <1>8. ASSUME NEW n \in Events PROVE sent'[n] = sent[n] /\ IsCheckout(n)' = IsCheckout(n)
    BY <1>2, <1>3 DEF IsCheckout
  <1>9. LastPlan' /\ LastSub' /\ OthersFollow'
    <2>1. applied' = applied /\ \A k \in DOMAIN applied : sent'[applied[k]] = sent[applied[k]]
      BY <1>1, <1>2, <1>8
    <2>2. \A k \in DOMAIN applied : IsCheckout(applied[k])' <=> IsCheckout(applied[k])
      BY <2>1 DEF IsCheckout
    <2>3. LastPlan'
      BY <1>1, <2>1, <2>2 DEF BillingIInv, LastPlan
    <2>4. LastSub'
      <3> SUFFICES ASSUME subId # 0
                   PROVE  \E k \in DOMAIN applied :
                             /\ IsCheckout(applied[k])' /\ sent'[applied[k]].sub = subId
                             /\ \A j \in DOMAIN applied : j > k => ~IsCheckout(applied[j])'
        BY <1>1, <2>1 DEF LastSub
      <3>1. PICK k \in DOMAIN applied :
               /\ IsCheckout(applied[k]) /\ sent[applied[k]].sub = subId
               /\ \A j \in DOMAIN applied : j > k => ~IsCheckout(applied[j])
        BY DEF BillingIInv, LastSub
      <3> QED
        BY <2>1, <2>2, <3>1
    <2>5. ASSUME NEW n \in Events, CheckedOut(sent[n].sub)
          PROVE  CheckedOut(sent[n].sub)'
      <3>1. PICK k \in DOMAIN applied : IsCheckout(applied[k]) /\ sent[applied[k]].sub = sent[n].sub
        BY <2>5 DEF CheckedOut
      <3>2. IsCheckout(applied[k])' /\ sent'[applied[k]].sub = sent'[n].sub
        BY <1>8, <2>1, <2>2, <3>1
      <3> QED
        BY <2>1, <3>2 DEF CheckedOut
    <2>6. ASSUME NEW n \in 1..MaxOperations, webhook'[n] = "found"
          PROVE  ~IsCheckout(n)' /\ CheckedOut(sent[n].sub)'
      <3>1. webhook[n] = "found" /\ n \in Events
        BY <1>1, <2>6, Numbers DEF BillingIInv, StagesOK
      <3>2. ~IsCheckout(n) /\ CheckedOut(sent[n].sub)
        BY <3>1 DEF BillingIInv, OthersFollow
      <3> QED
        BY <1>8, <2>5, <3>1, <3>2
    <2>7. ASSUME NEW k \in DOMAIN applied, ~IsCheckout(applied[k])'
          PROVE  CheckedOut(sent[applied[k]].sub)'
      <3>1. ~IsCheckout(applied[k]) /\ applied[k] \in Events
        BY <1>2, <2>2, <2>7
      <3>2. CheckedOut(sent[applied[k]].sub)
        BY <3>1 DEF BillingIInv, OthersFollow
      <3>3. PICK n \in Events : n = applied[k]
        BY <3>1
      <3> QED
        BY <2>1, <2>5, <3>2, <3>3
    <2> QED
      BY <2>1, <2>3, <2>4, <2>6, <2>7 DEF OthersFollow
  <1>10. SentOK'
    <2>1. Len(sent') + budget' <= MaxOperations
      BY <1>1, <1>2, <1>3, BillingAssumption DEF BillingIInv, BillingTypeOK, SentOK
    <2>2. ASSUME NEW n \in Events', IsCheckout(n)'
          PROVE  n + 1 \in Events' /\ sent'[n + 1].sub = sent'[n].sub
      <3>1. CASE n \in Events
        <4>1. n + 1 \in Events /\ sent[n + 1].sub = sent[n].sub
          BY <1>8, <2>2, <3>1 DEF BillingIInv, SentOK
        <4> QED
          BY <1>4, <1>8, <3>1, <4>1
      <3>2. CASE n \notin Events
        <4>1. PICK k \in 1..Len(events) : n = Len(sent) + k
          <5>1. n - Len(sent) \in 1..Len(events) /\ n = Len(sent) + (n - Len(sent))
            BY <1>2, <1>4, <3>2
          <5> QED
            BY <5>1
        <4>2. sent'[n] = events[k]
          BY <1>2, <1>3, <4>1, SMTT(30)
        <4>3. k + 1 \in 1..Len(events)
          BY <2>2, <4>2 DEF IsCheckout
        <4>4. sent'[n + 1] = events[k + 1]
          BY <1>2, <1>3, <4>1, <4>3
        <4> QED
          BY <1>2, <1>4, <4>1, <4>2, <4>3, <4>4
      <3> QED
        BY <3>1, <3>2
    <2>3. ASSUME NEW r \in Subscriptions, Of(r)' # {}
          PROVE  \E n \in Of(r)' : \A k \in Of(r)' : k <= n
      <3>1. ASSUME NEW n \in Events' \ Events PROVE sent'[n].sub = s
        <4>1. n \in (Len(sent) + 1)..(Len(sent) + Len(events)) /\ n - Len(sent) \in 1..Len(events)
          BY <1>2, <1>4
        <4>2. sent'[n] = events[n - Len(sent)]
          BY <1>3, <4>1
        <4> QED
          BY <4>1, <4>2
      <3>2. CASE r = s
        <4>1. Len(sent') \in Events' \ Events
          <5> PICK a \in Nat, b \in {1, 2} : a = Len(sent) /\ b = Len(events)
            BY <1>2
          <5>1. Len(sent') = a + b /\ Events' = 1..(a + b) /\ Events = 1..a
            BY <1>2, <1>3, <1>4
          <5>2. a + b \in 1..(a + b) /\ a + b \notin 1..a
            OBVIOUS
          <5> QED
            BY <5>1, <5>2
        <4>2. Len(sent') \in Of(r)'
          BY <3>1, <3>2, <4>1 DEF Of
        <4>3. \A k \in Of(r)' : k <= Len(sent')
          BY <1>2, <1>3, <1>4 DEF Of
        <4> QED
          BY <4>2, <4>3
      <3>3. CASE r # s
        <4>1. Of(r)' = Of(r)
          BY <1>4, <1>8, <3>1, <3>3 DEF Of
        <4> QED
          BY <2>3, <4>1 DEF BillingIInv, SentOK
      <3> QED
        BY <3>2, <3>3
    <2> QED
      BY <2>1, <2>2, <2>3 DEF SentOK, Subscriptions
  <1> QED
    BY <1>5, <1>6, <1>7, <1>9, <1>10 DEF BillingIInv

LEMMA StripeInv ==
    ASSUME BillingIInv, NEW s \in Subscriptions,
           Cancel(s) \/ \E p \in Plans : Checkout(s, p) \/ ChangePrice(s, p)
    PROVE  BillingIInv' /\ budget' \in 0..budget
  <1>1. CASE Cancel(s)
    <2> DEFINE events == <<[type |-> "deleted", sub |-> s, plan |-> "free"]>>
    <2>1. /\ events \in Seq(EventSet) /\ Len(events) = 1
          /\ \A k \in 1..Len(events) : events[k].sub = s /\ events[k].type # "checkout"
      BY DEF EventSet
    <2>2. Send(events)
      BY <1>1 DEF Cancel
    <2> HIDE DEF events
    <2> QED
      BY <2>1, <2>2, SendInv
  <1>2. ASSUME NEW p \in Plans, ChangePrice(s, p)
        PROVE  BillingIInv' /\ budget' \in 0..budget
    <2> DEFINE events == <<[type |-> "updated", sub |-> s, plan |-> p]>>
    <2>1. /\ events \in Seq(EventSet) /\ Len(events) = 1
          /\ \A k \in 1..Len(events) : events[k].sub = s /\ events[k].type # "checkout"
      BY DEF EventSet
    <2>2. Send(events)
      BY <1>2 DEF ChangePrice
    <2> HIDE DEF events
    <2> QED
      BY <2>1, <2>2, SendInv
  <1>3. ASSUME NEW p \in Plans, Checkout(s, p)
        PROVE  BillingIInv' /\ budget' \in 0..budget
    <2> DEFINE events == <<[type |-> "checkout", sub |-> s, plan |-> p], [type |-> "updated", sub |-> s, plan |-> p]>>
    <2>1. /\ events \in Seq(EventSet) /\ Len(events) = 2
          /\ events[1].sub = s /\ events[2].sub = s /\ events[2].type # "checkout"
      BY DEF EventSet
    <2>2. Send(events)
      BY <1>3 DEF Checkout
    <2> HIDE DEF events
    <2>3. \A k \in 1..Len(events) :
             /\ events[k].sub = s
             /\ events[k].type = "checkout" => k + 1 \in 1..Len(events)
      <3>1. 1..Len(events) = {1, 2}
        BY <2>1
      <3> QED
        BY <2>1, <3>1
    <2> QED
      BY <2>1, <2>2, <2>3, SendInv
  <1> QED
    BY <1>1, <1>2, <1>3

(* A step of a handler that applies no event. *)
LEMMA HandledAside ==
    ASSUME BillingIInv, NEW n \in Events,
           UNCHANGED <<plan, subId, sent, applied>>, budget' = budget, failures' \in 0..MaxFailures,
           stored \subseteq stored', stored' \subseteq Events,
           answered' \subseteq stored',
           webhook' \in [1..MaxOperations -> {"idle", "stored", "found", "handled"}],
           StagesOK',
           \A k \in 1..MaxOperations :
              webhook'[k] = "found" => webhook[k] = "found" \/ (~IsCheckout(k) /\ CheckedOut(sent[k].sub))
    PROVE  BillingIInv'
  <1>1. \A x : IsCheckout(x)' <=> IsCheckout(x)
    BY DEF IsCheckout
  <1>2. \A x : CheckedOut(x)' <=> CheckedOut(x)
    BY <1>1 DEF CheckedOut
  <1>3. BillingTypeOK'
    BY DEF BillingIInv, BillingTypeOK, Events
  <1>4. AppliedOnce'
    BY DEF BillingIInv, AppliedOnce
  <1>5. LastPlan' /\ LastSub'
    BY <1>1 DEF BillingIInv, LastPlan, LastSub
  <1>6. OthersFollow'
    <2>1. \A x : CheckedOut(sent[x].sub)' <=> CheckedOut(sent[x].sub)
      BY <1>1 DEF CheckedOut
    <2> QED
      BY <1>1, <2>1 DEF BillingIInv, OthersFollow
  <1>7. SentOK'
    BY <1>1 DEF BillingIInv, SentOK, Events, Of
  <1> QED
    BY <1>3, <1>4, <1>5, <1>6, <1>7 DEF BillingIInv

LEMMA HandlerInv ==
    ASSUME BillingIInv, NEW n \in Events,
           \/ Receive(n) \/ ReceiveDuplicate(n) \/ FindWorkspace(n)
           \/ FindNoWorkspace(n) \/ Answer(n) \/ WebhookFails(n)
    PROVE  BillingIInv' /\ budget' = budget
  <1>1. /\ UNCHANGED <<plan, subId, sent, applied>> /\ budget' = budget
    BY DEF Receive, ReceiveDuplicate, FindWorkspace, FindNoWorkspace, Answer, WebhookFails, Done
  <1>2. failures' \in 0..MaxFailures
    BY BillingAssumption
       DEF Receive, ReceiveDuplicate, FindWorkspace, FindNoWorkspace, Answer, WebhookFails, Done,
           BillingIInv, BillingTypeOK
  <1>3. n \in 1..MaxOperations /\ stored \subseteq Events
    BY Numbers
  <1>4. webhook \in [1..MaxOperations -> {"idle", "stored", "found", "handled"}] /\ answered \subseteq stored
    BY DEF BillingIInv, BillingTypeOK
  <1>5. Applied' = Applied
    BY <1>1 DEF Applied
  <1>6. StagesOK
    BY DEF BillingIInv
  <1>7. CASE Receive(n)
    <2>1. /\ n \notin stored /\ webhook[n] = "idle" /\ stored' = stored \cup {n}
          /\ webhook' = [webhook EXCEPT ![n] = "stored"] /\ UNCHANGED <<answered, ignored>>
      BY <1>7 DEF Receive, Unanswered
    <2>2. StagesOK'
      BY <1>1, <1>3, <1>4, <1>5, <1>6, <2>1 DEF StagesOK, Settled
    <2>3. stored' \subseteq Events /\ webhook' \in [1..MaxOperations -> {"idle", "stored", "found", "handled"}]
      BY <1>3, <1>4, <2>1
    <2> QED
      BY <1>1, <1>2, <1>3, <1>4, <2>1, <2>2, <2>3, HandledAside
  <1>8. CASE ReceiveDuplicate(n)
    <2>1. /\ n \in stored /\ webhook[n] = "idle" /\ answered' = answered \cup {n}
          /\ UNCHANGED <<stored, webhook, ignored>>
      BY <1>8 DEF ReceiveDuplicate, Unanswered
    <2>2. StagesOK'
      BY <1>1, <1>3, <1>4, <1>5, <1>6, <2>1 DEF StagesOK, Settled
    <2> QED
      BY <1>1, <1>2, <1>3, <1>4, <2>1, <2>2, HandledAside
  <1>9. CASE FindWorkspace(n)
    <2>1. /\ webhook[n] = "stored" /\ sent[n].type # "checkout" /\ subId = sent[n].sub
          /\ webhook' = [webhook EXCEPT ![n] = "found"]
          /\ UNCHANGED <<stored, answered, ignored>>
      BY <1>9 DEF FindWorkspace
    <2>2. StagesOK'
      BY <1>1, <1>3, <1>4, <1>5, <1>6, <2>1 DEF StagesOK, Settled
    <2>3. ~IsCheckout(n) /\ CheckedOut(sent[n].sub)
      <3>1. subId # 0
        BY <2>1, Numbers DEF EventSet, Subscriptions
      <3> QED
        BY <2>1, <3>1 DEF BillingIInv, LastSub, CheckedOut, IsCheckout
    <2>4. /\ webhook' \in [1..MaxOperations -> {"idle", "stored", "found", "handled"}]
          /\ \A k \in 1..MaxOperations :
                webhook'[k] = "found" => webhook[k] = "found" \/ (~IsCheckout(k) /\ CheckedOut(sent[k].sub))
      BY <1>3, <1>4, <2>1, <2>3
    <2> QED
      BY <1>1, <1>2, <1>3, <1>4, <2>1, <2>2, <2>4, HandledAside
  <1>10. CASE FindNoWorkspace(n)
    <2>1. /\ webhook[n] = "stored" /\ ignored' = ignored \cup {n}
          /\ webhook' = [webhook EXCEPT ![n] = "handled"]
          /\ UNCHANGED <<stored, answered>>
      BY <1>10 DEF FindNoWorkspace, Done
    <2>2. StagesOK'
      BY <1>1, <1>3, <1>4, <1>5, <1>6, <2>1 DEF StagesOK, Settled
    <2>3. /\ webhook' \in [1..MaxOperations -> {"idle", "stored", "found", "handled"}]
          /\ \A k \in 1..MaxOperations : webhook'[k] = "found" => webhook[k] = "found"
      BY <1>3, <1>4, <2>1
    <2> QED
      BY <1>1, <1>2, <1>3, <1>4, <2>1, <2>2, <2>3, HandledAside
  <1>11. CASE Answer(n)
    <2>1. /\ webhook[n] = "handled" /\ answered' = answered \cup {n}
          /\ webhook' = [webhook EXCEPT ![n] = "idle"]
          /\ UNCHANGED <<stored, ignored>>
      BY <1>11 DEF Answer
    <2>2. StagesOK' /\ n \in stored
      BY <1>1, <1>3, <1>4, <1>5, <1>6, <2>1 DEF StagesOK, Settled
    <2>3. /\ webhook' \in [1..MaxOperations -> {"idle", "stored", "found", "handled"}]
          /\ \A k \in 1..MaxOperations : webhook'[k] = "found" => webhook[k] = "found"
      BY <1>3, <1>4, <2>1
    <2> QED
      BY <1>1, <1>2, <1>3, <1>4, <2>1, <2>2, <2>3, HandledAside
  <1>12. CASE WebhookFails(n)
    <2>1. /\ webhook[n] # "idle" /\ webhook' = [webhook EXCEPT ![n] = "idle"]
          /\ ignored' = IF webhook[n] = "handled" THEN ignored ELSE ignored \cup {n}
          /\ UNCHANGED <<stored, answered>>
      BY <1>12 DEF WebhookFails
    <2>2. StagesOK'
      BY <1>1, <1>3, <1>4, <1>5, <1>6, <2>1 DEF StagesOK, Settled
    <2>3. /\ webhook' \in [1..MaxOperations -> {"idle", "stored", "found", "handled"}]
          /\ \A k \in 1..MaxOperations : webhook'[k] = "found" => webhook[k] = "found"
      BY <1>3, <1>4, <2>1
    <2> QED
      BY <1>1, <1>2, <1>3, <1>4, <2>1, <2>2, <2>3, HandledAside
  <1> QED
    BY <1>7, <1>8, <1>9, <1>10, <1>11, <1>12

(* An event that takes effect is the last to do so. *)
LEMMA ApplyInv ==
    ASSUME BillingIInv, NEW n \in Events, webhook[n] \in {"stored", "found"},
           IsCheckout(n) \/ CheckedOut(sent[n].sub),
           applied' = Append(applied, n),
           webhook' = [webhook EXCEPT ![n] = "handled"],
           UNCHANGED <<sent, stored, answered, failures, budget, ignored>>,
           plan' \in Plans \cup {"free"}, subId' \in Subscriptions \cup {0}
    PROVE  /\ BillingTypeOK' /\ AppliedOnce' /\ StagesOK' /\ OthersFollow' /\ SentOK'
           /\ Len(applied) \in Nat /\ DOMAIN applied = 1..Len(applied)
           /\ DOMAIN applied' = 1..(Len(applied) + 1)
           /\ \A k \in 1..Len(applied) : applied'[k] = applied[k]
           /\ applied'[Len(applied) + 1] = n
  <1>1. n \in 1..MaxOperations
    BY Numbers
  <1>2. /\ webhook \in [1..MaxOperations -> {"idle", "stored", "found", "handled"}]
        /\ applied \in Seq(1..MaxOperations) /\ Applied \subseteq stored
    BY DEF BillingIInv, BillingTypeOK, StagesOK
  <1>3. /\ Len(applied) \in Nat /\ DOMAIN applied = 1..Len(applied)
        /\ applied' \in Seq(1..MaxOperations)
        /\ DOMAIN applied' = 1..(Len(applied) + 1)
        /\ \A k \in 1..Len(applied) : applied'[k] = applied[k]
        /\ applied'[Len(applied) + 1] = n
    BY <1>1, <1>2
  <1>4. n \in stored /\ n \notin answered /\ n \notin Applied
    BY <1>1 DEF BillingIInv, StagesOK
  <1>5. Applied' = Applied \cup {n}
    BY <1>3 DEF Applied
  <1>6. AppliedOnce'
    <2>1. \A k \in 1..Len(applied) : applied[k] # n
      BY <1>3, <1>4 DEF Applied
    <2> QED
      BY <1>3, <2>1 DEF BillingIInv, AppliedOnce
  <1>7. StagesOK'
    BY <1>1, <1>2, <1>3, <1>4, <1>5 DEF BillingIInv, StagesOK, Settled
  <1>8. BillingTypeOK'
    BY <1>2 DEF BillingIInv, BillingTypeOK, Events
  <1>9. SentOK'
    <2>1. /\ Events' = Events /\ \A x : Of(x)' = Of(x)
          /\ \A x : IsCheckout(x)' <=> IsCheckout(x)
      BY DEF Events, Of, IsCheckout
    <2> QED
      BY <2>1 DEF BillingIInv, SentOK
  <1>10. OthersFollow'
    <2>1. \A x : CheckedOut(sent[x].sub) => CheckedOut(sent[x].sub)'
      BY <1>3 DEF CheckedOut, IsCheckout
    <2>2. \A x : IsCheckout(x)' <=> IsCheckout(x)
      BY DEF IsCheckout
    <2>3. ASSUME NEW k \in DOMAIN applied', ~IsCheckout(applied[k])'
          PROVE  CheckedOut(sent[applied[k]].sub)'
      <3>1. CASE k = Len(applied) + 1
        BY <1>3, <2>1, <2>2, <2>3, <3>1
      <3>2. CASE k # Len(applied) + 1
        <4>1. k \in DOMAIN applied /\ applied'[k] = applied[k]
          BY <1>3, <3>2
        <4>2. ~IsCheckout(applied[k])
          BY <2>2, <2>3, <4>1
        <4>3. CheckedOut(sent[applied[k]].sub)
          BY <4>1, <4>2 DEF BillingIInv, OthersFollow
        <4> QED
          BY <2>1, <4>1, <4>3
      <3> QED
        BY <3>1, <3>2
    <2>4. ASSUME NEW k \in 1..MaxOperations, webhook'[k] = "found"
          PROVE  ~IsCheckout(k)' /\ CheckedOut(sent[k].sub)'
      <3>1. webhook[k] = "found"
        BY <1>2, <2>4
      <3> QED
        BY <2>1, <2>2, <3>1 DEF BillingIInv, OthersFollow
    <2> QED
      BY <2>3, <2>4 DEF OthersFollow
  <1> QED
    BY <1>3, <1>6, <1>7, <1>8, <1>9, <1>10

LEMMA UpdateStripeIdsInv ==
    ASSUME BillingIInv, NEW n \in Events, UpdateStripeIds(n)
    PROVE  BillingIInv' /\ budget' = budget
  <1>1. /\ webhook[n] = "stored" /\ IsCheckout(n) /\ subId' = sent[n].sub
        /\ applied' = Append(applied, n) /\ webhook' = [webhook EXCEPT ![n] = "handled"]
        /\ UNCHANGED <<plan, ignored, sent, stored, answered, failures, budget>>
    BY DEF UpdateStripeIds, Done, IsCheckout
  <1>2. sent[n].sub \in Subscriptions /\ plan \in Plans \cup {"free"}
    BY Numbers DEF EventSet, BillingIInv, BillingTypeOK
  <1>3. /\ BillingTypeOK' /\ AppliedOnce' /\ StagesOK' /\ OthersFollow' /\ SentOK'
        /\ Len(applied) \in Nat /\ DOMAIN applied = 1..Len(applied)
        /\ DOMAIN applied' = 1..(Len(applied) + 1)
        /\ \A k \in 1..Len(applied) : applied'[k] = applied[k]
        /\ applied'[Len(applied) + 1] = n
    BY <1>1, <1>2, ApplyInv
  <1>4. \A x : IsCheckout(x)' <=> IsCheckout(x)
    BY <1>1 DEF IsCheckout
  <1>5. LastSub'
    <2>1. /\ Len(applied) + 1 \in DOMAIN applied'
          /\ \A j \in DOMAIN applied' : ~(j > Len(applied) + 1)
      BY <1>3
    <2> QED
      BY <1>1, <1>3, <1>4, <2>1 DEF LastSub
  <1>6. LastPlan'
    <2> SUFFICES ASSUME NEW k \in DOMAIN applied', ~IsCheckout(applied[k])',
                        \A j \in DOMAIN applied' : j > k => IsCheckout(applied[j])'
                 PROVE  plan' = sent'[applied'[k]].plan
      BY DEF LastPlan
    <2>1. k # Len(applied) + 1
      BY <1>1, <1>3, <1>4
    <2>2. k \in DOMAIN applied /\ applied'[k] = applied[k] /\ ~IsCheckout(applied[k])
      BY <1>3, <1>4, <2>1
    <2>3. ASSUME NEW j \in DOMAIN applied, j > k PROVE IsCheckout(applied[j])
      <3>1. j \in DOMAIN applied' /\ applied'[j] = applied[j]
        BY <1>3
      <3> QED
        BY <1>4, <2>3, <3>1
    <2> QED
      BY <1>1, <2>2, <2>3 DEF BillingIInv, LastPlan
  <1> QED
    BY <1>1, <1>3, <1>5, <1>6 DEF BillingIInv

LEMMA UpdatePlanInv ==
    ASSUME BillingIInv, NEW n \in Events, UpdatePlan(n)
    PROVE  BillingIInv' /\ budget' = budget
  <1>1. /\ webhook[n] = "found" /\ plan' = sent[n].plan
        /\ applied' = Append(applied, n) /\ webhook' = [webhook EXCEPT ![n] = "handled"]
        /\ UNCHANGED <<subId, ignored, sent, stored, answered, failures, budget>>
    BY DEF UpdatePlan, Done
  <1>2. ~IsCheckout(n) /\ CheckedOut(sent[n].sub)
    BY <1>1, Numbers DEF BillingIInv, OthersFollow
  <1>3. sent[n].plan \in Plans \cup {"free"} /\ subId \in Subscriptions \cup {0}
    BY Numbers DEF EventSet, BillingIInv, BillingTypeOK
  <1>4. /\ BillingTypeOK' /\ AppliedOnce' /\ StagesOK' /\ OthersFollow' /\ SentOK'
        /\ Len(applied) \in Nat /\ DOMAIN applied = 1..Len(applied)
        /\ DOMAIN applied' = 1..(Len(applied) + 1)
        /\ \A k \in 1..Len(applied) : applied'[k] = applied[k]
        /\ applied'[Len(applied) + 1] = n
    BY <1>1, <1>2, <1>3, ApplyInv
  <1>5. \A x : IsCheckout(x)' <=> IsCheckout(x)
    BY <1>1 DEF IsCheckout
  <1>6. LastPlan'
    <2> SUFFICES ASSUME NEW k \in DOMAIN applied',
                        \A j \in DOMAIN applied' : j > k => IsCheckout(applied[j])'
                 PROVE  plan' = sent'[applied'[k]].plan
      BY DEF LastPlan
    <2>1. CASE k = Len(applied) + 1
      BY <1>1, <1>4, <2>1
    <2>2. CASE k # Len(applied) + 1
      <3>1. Len(applied) + 1 \in DOMAIN applied' /\ Len(applied) + 1 > k
        BY <1>4, <2>2
      <3> QED
        BY <1>2, <1>4, <1>5, <3>1
    <2> QED
      BY <2>1, <2>2
  <1>7. LastSub'
    <2> SUFFICES ASSUME subId # 0
                 PROVE  \E k \in DOMAIN applied' :
                           /\ IsCheckout(applied[k])' /\ sent'[applied'[k]].sub = subId'
                           /\ \A j \in DOMAIN applied' : j > k => ~IsCheckout(applied[j])'
      BY <1>1 DEF LastSub
    <2>1. PICK k \in DOMAIN applied :
             /\ IsCheckout(applied[k]) /\ sent[applied[k]].sub = subId
             /\ \A j \in DOMAIN applied : j > k => ~IsCheckout(applied[j])
      BY DEF BillingIInv, LastSub
    <2>2. k \in DOMAIN applied' /\ applied'[k] = applied[k]
      BY <1>4
    <2>3. ASSUME NEW j \in DOMAIN applied', j > k PROVE ~IsCheckout(applied[j])'
      <3>1. CASE j = Len(applied) + 1
        BY <1>2, <1>4, <1>5, <3>1
      <3>2. CASE j # Len(applied) + 1
        <4>1. j \in DOMAIN applied /\ applied'[j] = applied[j]
          BY <1>4, <3>2
        <4> QED
          BY <1>5, <2>1, <2>3, <4>1
      <3> QED
        BY <3>1, <3>2
    <2> QED
      BY <1>1, <1>5, <2>1, <2>2, <2>3
  <1> QED
    BY <1>1, <1>4, <1>6, <1>7 DEF BillingIInv

LEMMA BillingInductive ==
    ASSUME BillingIInv, BillingNext
    PROVE  BillingIInv' /\ budget' \in 0..budget
  <1>1. budget \in 0..budget
    BY DEF BillingIInv, BillingTypeOK
  <1>2. ASSUME NEW n \in Events, Handle(n) \/ WebhookFails(n)
        PROVE  BillingIInv' /\ budget' = budget
    BY <1>2, HandlerInv, UpdateStripeIdsInv, UpdatePlanInv DEF Handle
  <1> QED
    BY <1>1, <1>2, StripeInv DEF BillingNext

(* When every event is answered, the last one of the subscription has been *)
(* applied, and after it nothing but a checkout: another event of the      *)
(* subscription would be a later one, and one of a later subscription      *)
(* follows its own checkout, which is not before the last.                 *)
LEMMA BillingImpliesPlan == BillingIInv => PlanIsPaid
  <1> SUFFICES ASSUME BillingIInv, answered = Events, subId # 0, InOrder, Of(subId) \cap ignored = {}
               PROVE  plan = sent[LastOf(subId)].plan
    BY DEF PlanIsPaid
  <1> DEFINE last == LastOf(subId)
  <1>1. PICK c \in DOMAIN applied :
           /\ IsCheckout(applied[c]) /\ sent[applied[c]].sub = subId
           /\ \A j \in DOMAIN applied : j > c => ~IsCheckout(applied[j])
    BY DEF BillingIInv, LastSub
  <1>2. /\ Events = 1..Len(sent) /\ Len(sent) \in Nat
        /\ \A n \in Events : n \in 1..MaxOperations /\ sent[n] \in EventSet
        /\ \A k \in DOMAIN applied : applied[k] \in Events
    BY Numbers
  <1>3. DOMAIN applied \subseteq Nat
    BY DEF BillingIInv, StagesOK
  <1>4. last \in Of(subId) /\ \A k \in Of(subId) : k <= last
    <2>1. Of(subId) # {}
      BY <1>1, <1>2 DEF Of
    <2>2. \E n \in Of(subId) : \A k \in Of(subId) : k <= n
      BY <2>1 DEF BillingIInv, SentOK, BillingTypeOK
    <2> QED
      BY <2>2 DEF LastOf
  <1>5. last \in Events /\ sent[last].sub = subId
    BY <1>4 DEF Of
  <1>6. ~IsCheckout(last)
    <2> SUFFICES ASSUME IsCheckout(last) PROVE FALSE
      OBVIOUS
    <2>1. last + 1 \in Of(subId)
      BY <1>5 DEF BillingIInv, SentOK, Of
    <2> QED
      BY <1>2, <1>4, <1>5, <2>1
  <1>7. last \in Applied
    <2>1. last \in stored /\ webhook[last] = "idle"
      BY <1>2, <1>5 DEF BillingIInv, BillingTypeOK, StagesOK
    <2>2. Settled(last)
      BY <1>2, <1>5, <2>1 DEF BillingIInv, StagesOK
    <2> QED
      BY <1>4, <2>2 DEF Settled
  <1>8. PICK l \in DOMAIN applied : applied[l] = last
    BY <1>7 DEF Applied
  <1>9. ASSUME NEW j \in DOMAIN applied, j > l, ~IsCheckout(applied[j])
        PROVE  FALSE
    <2>1. last <= applied[j] /\ subId <= sent[applied[j]].sub
      BY <1>3, <1>5, <1>8, <1>9 DEF InOrder
    <2>2. applied[j] \in Nat /\ last \in Nat /\ subId \in Nat /\ sent[applied[j]].sub \in Nat
      BY <1>2, <1>5 DEF EventSet, Subscriptions
    <2>3. sent[applied[j]].sub # subId
      <3> SUFFICES ASSUME sent[applied[j]].sub = subId PROVE FALSE
        OBVIOUS
      <3>1. applied[j] \in Of(subId)
        BY <1>2 DEF Of
      <3>2. applied[j] = applied[l]
        BY <1>4, <1>8, <2>1, <2>2, <3>1
      <3>3. j = l
        BY <3>2 DEF BillingIInv, AppliedOnce
      <3> QED
        BY <1>3, <1>9, <3>3
    <2>4. CheckedOut(sent[applied[j]].sub)
      BY <1>9 DEF BillingIInv, OthersFollow
    <2>5. PICK i \in DOMAIN applied : IsCheckout(applied[i]) /\ sent[applied[i]].sub = sent[applied[j]].sub
      BY <2>4 DEF CheckedOut
    <2>6. i # c /\ ~(i > c)
      BY <1>1, <2>3, <2>5
    <2>7. i < c
      BY <1>3, <2>6
    <2>8. sent[applied[j]].sub <= subId
      BY <1>1, <2>5, <2>7 DEF InOrder
    <2> QED
      BY <2>1, <2>2, <2>3, <2>8
  <1> QED
    BY <1>6, <1>8, <1>9 DEF BillingIInv, LastPlan

-----------------------------------------------------------------------------
(* The monitors *)

LEMMA InvImplied == IInv => AdminInv
  BY DEF IInv, AdminInv, TypeOK, BillingIInv, RowsTyped, IncidentsTyped, CreateOK, EditorOK, DeletionOK, NumbersOK, UnresolvedOK, UnresolvedAt

LEMMA RowsFinite ==
    /\ Rows \subseteq Monitors /\ IsFiniteSet(Rows) /\ Cardinality(Rows) \in Nat
    /\ Monitors \subseteq Nat
  <1>1. Rows \subseteq Monitors
    BY DEF Rows
  <1>2. IsFiniteSet(Monitors) /\ Monitors \subseteq Nat
    BY MonitorAssumption, FS_Interval DEF Monitors
  <1> QED
    BY <1>1, <1>2, FS_Subset, FS_CardinalityType

LEMMA Initially == Init => IInv
  <1> SUFFICES ASSUME Init PROVE IInv
    OBVIOUS
  <1>1. BillingIInv /\ budget = MaxOperations
    BY BillingInitially DEF Init, BillingInit
  <1>2. RowsTyped /\ IncidentsTyped
    BY BillingAssumption DEF Init, RowsTyped, IncidentsTyped
  <1>3. PlanLimit["free"] \in Nat
    BY MonitorAssumption
  <1>4. PlanLimitHolds
    <2>1. Rows = {}
      BY DEF Init, Rows
    <2> QED
      BY <1>3, <2>1, FS_EmptySet DEF Init, PlanLimitHolds
  <1>5. DeletionResolves /\ DeletionOK
    BY DEF Init, DeletionResolves, DeletionOK, NumbersOK, UnresolvedOK, UnresolvedAt, AcksOK, Locked
  <1>6. CreateOK
    BY <1>3 DEF Init, CreateOK, NoCreate
  <1>7. EditorOK
    BY DEF Init, EditorOK, NoEditor
  <1>8. WritesPaid
    <2> SUFFICES ASSUME NEW m \in Monitors
                 PROVE  /\ IsFiniteSet(At(m))
                        /\ version[m] + Cardinality(At(m)) + Deleting(m) + budget <= MaxOperations
                        /\ edits[m] <= version[m]
      BY DEF WritesPaid
    <2>1. At(m) = {}
      BY DEF Init, At, NoEditor
    <2>2. IsFiniteSet(At(m)) /\ Cardinality(At(m)) = 0
      BY <2>1, FS_EmptySet
    <2>3. version[m] = 0 /\ edits[m] = 0 /\ Deleting(m) = 0
      BY DEF Init, Deleting
    <2> QED
      BY <1>1, <2>2, <2>3, BillingAssumption
  <1> QED
    BY <1>1, <1>2, <1>4, <1>5, <1>6, <1>7, <1>8 DEF IInv

(* The monitors take of the billing's state only operations and failures.  *)
LEMMA BillingAside ==
    ASSUME BillingIInv, budget' \in 0..budget, failures' \in 0..MaxFailures,
           UNCHANGED <<plan, subId, sent, stored, webhook, answered, applied, ignored>>
    PROVE  BillingIInv'
  <1>1. budget \in 0..MaxOperations /\ budget' \in 0..MaxOperations
    BY BillingAssumption DEF BillingIInv, BillingTypeOK
  <1>2. \A x : IsCheckout(x)' <=> IsCheckout(x)
    BY DEF IsCheckout
  <1>3. \A x : CheckedOut(sent[x].sub)' <=> CheckedOut(sent[x].sub)
    BY <1>2 DEF CheckedOut
  <1>4. BillingTypeOK' /\ AppliedOnce'
    BY <1>1 DEF BillingIInv, BillingTypeOK, AppliedOnce, Events
  <1>5. StagesOK' /\ LastPlan' /\ LastSub'
    BY <1>2 DEF BillingIInv, StagesOK, Applied, Settled, LastPlan, LastSub
  <1>6. OthersFollow'
    BY <1>2, <1>3 DEF BillingIInv, OthersFollow
  <1>7. SentOK'
    <2>1. /\ Events' = Events /\ Len(sent) \in Nat
          /\ \A x : Of(x)' = Of(x)
      BY Numbers DEF Events, Of
    <2> QED
      BY <1>1, <1>2, <2>1, BillingAssumption DEF BillingIInv, SentOK
  <1> QED
    BY <1>4, <1>5, <1>6, <1>7 DEF BillingIInv

(* A spent operation *)
LEMMA Spent ==
    ASSUME IInv, Spend(1)
    PROVE  budget \in Nat /\ budget' \in 0..budget /\ budget' + 1 = budget
  BY BillingAssumption DEF IInv, BillingIInv, BillingTypeOK, Spend

(* What a step that leaves the rows and the limits alone keeps.            *)
LEMMA LimitKept ==
    ASSUME IInv, row' = row, overtaken' = overtaken, highest' \in Nat, highest' >= highest
    PROVE  PlanLimitHolds'
  <1>1. Rows' = Rows
    BY DEF Rows
  <1> QED
    BY <1>1, RowsFinite DEF IInv, PlanLimitHolds, CreateOK

(* What a step that leaves the clients, the deletions and the versions     *)
(* alone keeps.                                                            *)
LEMMA PaidKept ==
    ASSUME IInv, budget' \in 0..budget, UNCHANGED <<version, edits, editor, deletion>>
    PROVE  WritesPaid'
  <1> SUFFICES ASSUME NEW m \in Monitors
               PROVE  /\ IsFiniteSet(At(m)')
                      /\ version[m] + Cardinality(At(m)') + Deleting(m)' + budget' <= MaxOperations
                      /\ edits[m] <= version[m]
    BY DEF WritesPaid
  <1>1. At(m)' = At(m) /\ Deleting(m)' = Deleting(m) /\ Deleting(m) \in 0..1
    BY DEF At, Deleting
  <1>2. /\ IsFiniteSet(At(m)) /\ edits[m] <= version[m]
        /\ version[m] + Cardinality(At(m)) + Deleting(m) + budget <= MaxOperations
    BY DEF IInv, WritesPaid
  <1>3. Cardinality(At(m)) \in Nat /\ version[m] \in Nat /\ budget \in Nat
    BY <1>2, FS_CardinalityType, BillingAssumption DEF IInv, BillingIInv, BillingTypeOK, RowsTyped
  <1> QED
    BY <1>1, <1>2, <1>3, BillingAssumption

(* What a step that leaves the incidents and the deletions alone keeps.    *)
LEMMA IncidentsKept ==
    ASSUME IInv, UNCHANGED <<row, incidentVars, deletionVars>>
    PROVE  IncidentsTyped' /\ DeletionResolves' /\ DeletionOK'
  <1>1. IncidentsTyped' /\ DeletionResolves'
    BY DEF IInv, IncidentsTyped, DeletionResolves
  <1>2. NumbersOK' /\ UnresolvedOK' /\ AcksOK'
    BY DEF IInv, DeletionOK, NumbersOK, UnresolvedOK, UnresolvedAt, AcksOK, Locked
  <1> QED
    BY <1>1, <1>2 DEF IInv, DeletionOK

LEMMA CreateInv ==
    ASSUME IInv, UNCHANGED <<rest, row, version, exact, edits, incidentVars, editor, deletionVars, overtaken>>,
           budget' \in 0..budget, highest' >= highest, CreateOK'
    PROVE  IInv'
  <1>1. BillingIInv'
    <2>1. failures' \in 0..MaxFailures
      BY DEF rest, IInv, BillingIInv, BillingTypeOK
    <2> QED
      BY <2>1, BillingAside DEF rest, IInv
  <1>2. PlanLimitHolds' /\ WritesPaid'
    BY LimitKept, PaidKept DEF CreateOK
  <1>3. RowsTyped' /\ EditorOK'
    BY DEF IInv, RowsTyped, EditorOK
  <1> QED
    BY <1>1, <1>2, <1>3, IncidentsKept DEF IInv

LEMMA CreateFindWorkspaceInv == ASSUME IInv, NEW r \in Creators, CreateFindWorkspace(r) PROVE IInv'
  <1>1. plan \in Plans \cup {"free"} /\ CreateOK
    BY DEF IInv, BillingIInv, BillingTypeOK
  <1>2. PlanLimit[plan] \in Nat /\ highest \in Nat
    BY <1>1, MonitorAssumption DEF CreateOK
  <1>3. highest' \in Nat /\ highest' >= highest /\ highest' >= PlanLimit[plan]
    BY <1>2 DEF CreateFindWorkspace
  <1>4. create' = [create EXCEPT ![r] = [pc |-> "limited", limit |-> PlanLimit[plan], counted |-> 0]]
    BY DEF CreateFindWorkspace
  <1>5. CreateOK'
    <2>1. overtaken' = overtaken
      BY DEF CreateFindWorkspace
    <2> QED
      BY <1>1, <1>2, <1>3, <1>4, <2>1 DEF CreateOK
  <1> QED
    BY <1>3, <1>5, Spent, CreateInv DEF CreateFindWorkspace

LEMMA CreateCountInv == ASSUME IInv, NEW r \in Creators, CreateCount(r) PROVE IInv'
  <1>1. CreateOK /\ create[r].pc = "limited" /\ highest' = highest
    BY DEF IInv, CreateCount
  <1>2. PICK k \in Nat : k = Cardinality(Rows)
    BY RowsFinite
  <1>3. create' = [create EXCEPT ![r] = IF k >= create[r].limit THEN NoCreate
                                        ELSE [pc |-> "counted", limit |-> create[r].limit, counted |-> k]]
    BY <1>2 DEF CreateCount
  <1>4. CreateOK'
    <2>1. overtaken' = overtaken
      BY DEF CreateCount
    <2>2. CASE k >= create[r].limit
      <3>1. create' = [create EXCEPT ![r] = [pc |-> "idle", limit |-> 0, counted |-> 0]]
        BY <1>3, <2>2 DEF NoCreate
      <3> QED
        BY <1>1, <2>1, <3>1 DEF CreateOK
    <2>3. CASE ~(k >= create[r].limit)
      <3>1. create' = [create EXCEPT ![r] = [pc |-> "counted", limit |-> create[r].limit, counted |-> k]]
        BY <1>3, <2>3
      <3>2. k < create[r].limit /\ create[r].limit \in Nat /\ create[r].limit <= highest
        BY <1>1, <1>2, <2>3 DEF CreateOK
      <3> QED
        BY <1>1, <1>2, <2>1, <3>1, <3>2 DEF CreateOK
    <2> QED
      BY <2>2, <2>3
  <1>5. budget' \in 0..budget /\ highest' >= highest
    BY <1>1, BillingAssumption DEF CreateCount, IInv, BillingIInv, BillingTypeOK, CreateOK
  <1> QED
    BY <1>4, <1>5, CreateInv DEF CreateCount

(* A request that had counted the rows there are keeps the limit it read;  *)
(* one that had counted fewer is an overtaken one.                         *)
LEMMA CreateInsertInv == ASSUME IInv, NEW r \in Creators, CreateInsert(r) PROVE IInv'
  <1>1. /\ create[r].pc = "counted" /\ Rows # Monitors
        /\ overtaken' = IF create[r].counted < Cardinality(Rows) THEN overtaken + 1 ELSE overtaken
        /\ create' = [create EXCEPT ![r] = NoCreate]
        /\ UNCHANGED <<rest, budget, version, edits, incidentVars, editor, deletionVars, highest>>
    BY DEF CreateInsert
  <1>2. PICK m : m = Min(Monitors \ Rows)
    OBVIOUS
  <1>3. m \in Monitors /\ m \notin Rows
    <2>1. Monitors \ Rows \in SUBSET Nat /\ Monitors \ Rows # {}
      BY <1>1, RowsFinite
    <2> QED
      BY <1>2, <2>1, MinElement
  <1>4. /\ row' = [row EXCEPT ![m] = "live"]
        /\ \E e \in BOOLEAN : exact' = [exact EXCEPT ![m] = e]
    BY <1>2 DEF CreateInsert, InsertMonitor
  <1>5. row[m] = "absent" /\ RowsTyped /\ CreateOK
    BY <1>3 DEF Rows, IInv
  <1>6. Rows' = Rows \cup {m}
    BY <1>3, <1>4, <1>5 DEF Rows, RowsTyped
  <1>7. Cardinality(Rows)' = Cardinality(Rows) + 1
    BY <1>3, <1>6, RowsFinite, FS_AddElement
  <1>8. CreateOK'
    BY <1>1, <1>5, RowsFinite DEF CreateOK, NoCreate
  <1>9. PlanLimitHolds'
    <2> DEFINE k == Cardinality(Rows)
    <2>1. k \in Nat /\ k <= highest + overtaken /\ Cardinality(Rows)' = k + 1
      BY <1>7, RowsFinite DEF IInv, PlanLimitHolds
    <2>2. /\ create[r].counted \in Nat /\ create[r].limit \in Nat
          /\ create[r].counted < create[r].limit /\ create[r].limit <= highest
          /\ highest \in Nat /\ overtaken \in Nat
      BY <1>1, <1>5 DEF CreateOK
    <2>3. k + 1 <= highest + overtaken'
      BY <1>1, <2>1, <2>2
    <2> QED
      BY <1>1, <2>1, <2>3 DEF PlanLimitHolds
  <1>10. RowsTyped'
    BY <1>1, <1>3, <1>4, <1>5 DEF RowsTyped
  <1>11. IncidentsTyped' /\ DeletionResolves' /\ DeletionOK' /\ EditorOK'
    <2>1. row'[m] = "live" /\ \A x \in Monitors \ {m} : row'[x] = row[x]
      BY <1>3, <1>4, <1>5 DEF RowsTyped
    <2>2. IncidentsTyped /\ DeletionOK /\ DeletionResolves
      BY DEF IInv
    <2>3. IncidentsTyped' /\ DeletionResolves' /\ EditorOK' /\ NumbersOK'
      BY <1>1, <2>1, <2>2 DEF IInv, IncidentsTyped, DeletionResolves, EditorOK, DeletionOK, NumbersOK
    <2>4. UnresolvedOK' /\ AcksOK'
      BY <1>1, <1>5, <2>1, <2>2 DEF IncidentsTyped, DeletionOK, UnresolvedOK, UnresolvedAt, AcksOK, Locked
    <2> QED
      BY <1>1, <1>5, <2>1, <2>2, <2>3, <2>4 DEF DeletionOK
  <1>12. BillingIInv' /\ WritesPaid'
    <2>1. failures' \in 0..MaxFailures /\ budget' \in 0..budget
      BY <1>1, BillingAssumption DEF rest, IInv, BillingIInv, BillingTypeOK
    <2> QED
      BY <1>1, <2>1, BillingAside, PaidKept DEF rest, IInv
  <1> QED
    BY <1>8, <1>9, <1>10, <1>11, <1>12 DEF IInv

(* The numbers that WritesPaid adds *)
LEMMA PaidNumbers ==
    ASSUME IInv, NEW m \in Monitors
    PROVE  /\ version[m] \in Nat /\ edits[m] \in Nat /\ budget \in Nat /\ Deleting(m) \in 0..1
           /\ IsFiniteSet(At(m)) /\ Cardinality(At(m)) \in Nat
           /\ version[m] + Cardinality(At(m)) + Deleting(m) + budget <= MaxOperations
           /\ edits[m] <= version[m] /\ MaxOperations \in Nat
  <1>1. IsFiniteSet(At(m)) /\ Cardinality(At(m)) \in Nat
    BY FS_CardinalityType DEF IInv, WritesPaid
  <1>2. /\ version[m] + Cardinality(At(m)) + Deleting(m) + budget <= MaxOperations
        /\ edits[m] <= version[m]
    BY DEF IInv, WritesPaid
  <1>3. version[m] \in 0..MaxOperations /\ edits[m] \in 0..MaxOperations
    BY DEF IInv, RowsTyped
  <1>4. budget \in 0..MaxOperations /\ Deleting(m) \in 0..1
    BY DEF IInv, BillingIInv, BillingTypeOK, Deleting
  <1> QED
    BY <1>1, <1>2, <1>3, <1>4, BillingAssumption

LEMMA BillingStays ==
    ASSUME IInv, UNCHANGED rest, budget' \in 0..budget
    PROVE  BillingIInv'
  <1>1. failures' \in 0..MaxFailures
    BY DEF rest, IInv, BillingIInv, BillingTypeOK
  <1> QED
    BY <1>1, BillingAside DEF rest, IInv

LEMMA SameBudget == IInv => budget \in 0..budget
  BY BillingAssumption DEF IInv, BillingIInv, BillingTypeOK

(* A step of a client that writes nothing *)
LEMMA ClientInv ==
    ASSUME IInv, EditorOK', WritesPaid', budget' \in 0..budget,
           UNCHANGED <<rest, row, version, exact, edits, incidentVars, create, deletionVars, highest, overtaken>>
    PROVE  IInv'
  <1>1. BillingIInv'
    BY BillingStays
  <1>2. PlanLimitHolds'
    BY LimitKept DEF IInv, CreateOK
  <1>3. RowsTyped' /\ CreateOK'
    BY DEF IInv, RowsTyped, CreateOK
  <1> QED
    BY <1>1, <1>2, <1>3, IncidentsKept DEF IInv

LEMMA FewerClients ==
    ASSUME IInv, UNCHANGED <<version, edits, deletion, budget>>,
           \A m \in Monitors : At(m)' \subseteq At(m)
    PROVE  WritesPaid'
  <1> SUFFICES ASSUME NEW m \in Monitors
               PROVE  /\ IsFiniteSet(At(m)')
                      /\ version[m] + Cardinality(At(m)') + Deleting(m)' + budget <= MaxOperations
                      /\ edits[m] <= version[m]
    BY DEF WritesPaid
  <1>1. /\ IsFiniteSet(At(m)') /\ Cardinality(At(m)') \in Nat
        /\ Cardinality(At(m)') <= Cardinality(At(m))
    BY PaidNumbers, FS_Subset, FS_CardinalityType
  <1>2. Deleting(m)' = Deleting(m)
    BY DEF Deleting
  <1> QED
    BY <1>1, <1>2, PaidNumbers

LEMMA GetMonitorInv ==
    ASSUME IInv, NEW c \in Editors, NEW m \in Monitors, GetMonitor(c, m)
    PROVE  IInv'
  <1>1. /\ editor[c].pc = "idle"
        /\ editor' = [editor EXCEPT ![c] = [pc |-> "read", monitor |-> m, seen |-> edits[m],
                                            etag |-> IF exact[m] THEN version[m] + 1 ELSE 0]]
        /\ UNCHANGED <<rest, row, version, exact, edits, incidentVars, create, deletionVars, highest, overtaken>>
        /\ Spend(1)
    BY DEF GetMonitor
  <1>2. budget' \in Nat /\ budget = budget' + 1
    BY <1>1, Spent
  <1>3. EditorOK
    BY DEF IInv
  <1>4. m \in Nat
    BY MonitorAssumption DEF Monitors
  <1>5. EditorOK'
    BY <1>1, <1>3, <1>4, PaidNumbers DEF EditorOK
  <1>6. WritesPaid'
    <2> SUFFICES ASSUME NEW x \in Monitors
                 PROVE  /\ IsFiniteSet(At(x)')
                        /\ version[x] + Cardinality(At(x)') + Deleting(x)' + budget' <= MaxOperations
                        /\ edits[x] <= version[x]
      BY <1>1 DEF WritesPaid
    <2>1. Deleting(x)' = Deleting(x)
      BY <1>1 DEF Deleting
    <2>2. CASE x = m
      <3>1. At(x)' = At(x) \cup {c} /\ c \notin At(x)
        BY <1>1, <1>3, <2>2 DEF At, EditorOK
      <3>2. IsFiniteSet(At(x)') /\ Cardinality(At(x)') = Cardinality(At(x)) + 1
        BY <3>1, PaidNumbers, FS_AddElement
      <3>3. /\ version[x] + Cardinality(At(x)) + Deleting(x) + budget <= MaxOperations
            /\ version[x] \in Nat /\ Cardinality(At(x)) \in Nat /\ Deleting(x) \in 0..1 /\ MaxOperations \in Nat
        BY PaidNumbers
      <3>4. edits[x] <= version[x]
        BY PaidNumbers
      <3> QED
        BY <1>2, <2>1, <3>2, <3>3, <3>4
    <2>3. CASE x # m
      <3>1. At(x)' = At(x)
        BY <1>1, <1>3, <2>3 DEF At, EditorOK
      <3>2. /\ version[x] + Cardinality(At(x)) + Deleting(x) + budget <= MaxOperations
            /\ version[x] \in Nat /\ Cardinality(At(x)) \in Nat /\ Deleting(x) \in 0..1 /\ MaxOperations \in Nat
        BY PaidNumbers
      <3>3. IsFiniteSet(At(x)) /\ edits[x] <= version[x]
        BY PaidNumbers
      <3> QED
        BY <1>2, <2>1, <3>1, <3>2, <3>3
    <2> QED
      BY <2>2, <2>3
  <1> QED
    BY <1>1, <1>5, <1>6, Spent, ClientInv

LEMMA PatchGetInv == ASSUME IInv, NEW c \in Editors, PatchGet(c) PROVE IInv'
  <1>1. PICK pc \in {"checked", "blind"} :
           editor' = [editor EXCEPT ![c] = IF row[editor[c].monitor] = "live" THEN [editor[c] EXCEPT !.pc = pc] ELSE NoEditor]
    BY DEF PatchGet
  <1>2. /\ editor[c].pc = "read" /\ EditorOK
        /\ UNCHANGED <<rest, budget, row, version, exact, edits, incidentVars, create, deletionVars, highest, overtaken>>
    BY DEF PatchGet, IInv
  <1>3. EditorOK'
    <2>1. CASE row[editor[c].monitor] = "live"
      BY <1>1, <1>2, <2>1 DEF EditorOK
    <2>2. CASE row[editor[c].monitor] # "live"
      BY <1>1, <1>2, <2>2 DEF EditorOK, NoEditor
    <2> QED
      BY <2>1, <2>2
  <1>4. \A m \in Monitors : At(m)' \subseteq At(m)
    <2>1. CASE row[editor[c].monitor] = "live"
      BY <1>1, <1>2, <2>1 DEF EditorOK, At
    <2>2. CASE row[editor[c].monitor] # "live"
      BY <1>1, <1>2, <2>2 DEF EditorOK, At, NoEditor
    <2> QED
      BY <2>1, <2>2
  <1> QED
    BY <1>2, <1>3, <1>4, FewerClients, ClientInv, SameBudget

LEMMA PatchConflictInv == ASSUME IInv, NEW c \in Editors, PatchConflict(c) PROVE IInv'
  <1>1. /\ editor' = [editor EXCEPT ![c] = NoEditor] /\ EditorOK
        /\ UNCHANGED <<rest, budget, row, version, exact, edits, incidentVars, create, deletionVars, highest, overtaken>>
    BY DEF PatchConflict, IInv
  <1>2. EditorOK'
    BY <1>1 DEF EditorOK, NoEditor
  <1>3. \A m \in Monitors : At(m)' \subseteq At(m)
    BY <1>1 DEF EditorOK, At, NoEditor
  <1> QED
    BY <1>1, <1>2, <1>3, FewerClients, ClientInv, SameBudget

(* A write of a row outdates the ETags that named its version.             *)
LEMMA WriteOutdates ==
    ASSUME IInv, NEW m \in Monitors, version' = [version EXCEPT ![m] = @ + 1],
           editor' \in [Editors -> [pc : {"idle", "read", "checked", "blind"}, monitor : Nat, etag : Nat, seen : Nat]],
           \A c \in Editors : editor'[c].pc # "idle" => editor'[c] = editor[c],
           \A x \in Monitors \ {m} : edits'[x] = edits[x]
    PROVE  EditorOK'
  <1>1. \A x \in Monitors : version[x] \in Nat
    BY PaidNumbers
  <1>2. version \in [Monitors -> 0..MaxOperations] /\ EditorOK
    BY DEF IInv, RowsTyped
  <1> SUFFICES ASSUME NEW c \in Editors, editor'[c].pc # "idle"
               PROVE  LET x == editor[c].monitor IN
                      /\ x \in Monitors /\ editor[c].etag <= version'[x] + 1
                      /\ editor[c].etag = version'[x] + 1 => editor[c].seen = edits'[x]
    BY DEF EditorOK
  <1> DEFINE x == editor[c].monitor
  <1>3. /\ x \in Monitors /\ editor[c].etag <= version[x] + 1 /\ editor[c].etag \in Nat
        /\ editor[c].etag = version[x] + 1 => editor[c].seen = edits[x]
    BY <1>2 DEF EditorOK
  <1>4. version[x] \in Nat
    BY <1>1, <1>3
  <1>5. CASE x = m
    <2>1. version'[x] = version[x] + 1
      BY <1>2, <1>5
    <2> QED
      BY <1>3, <1>4, <2>1
  <1>6. CASE x # m
    <2>1. version'[x] = version[x] /\ edits'[x] = edits[x]
      BY <1>2, <1>3, <1>6
    <2> QED
      BY <1>3, <2>1
  <1> QED
    BY <1>5, <1>6

LEMMA PatchInv ==
    ASSUME IInv, NEW c \in Editors, editor[c].pc # "idle", Patch(c)
    PROVE  IInv'
  <1>0. PICK m : m = editor[c].monitor
    OBVIOUS
  <1>1. /\ edits' = [edits EXCEPT ![m] = @ + 1]
        /\ version' = [version EXCEPT ![m] = @ + 1]
        /\ \E e \in BOOLEAN : exact' = [exact EXCEPT ![m] = e]
        /\ editor' = [editor EXCEPT ![c] = NoEditor]
        /\ UNCHANGED <<rest, budget, row, incidentVars, create, deletionVars, highest, overtaken>>
    BY <1>0 DEF Patch, Write
  <1>2. m \in Monitors /\ EditorOK /\ RowsTyped
    BY <1>0 DEF IInv, EditorOK
  <1>3. EditorOK'
    <2>1. editor' \in [Editors -> [pc : {"idle", "read", "checked", "blind"}, monitor : Nat, etag : Nat, seen : Nat]]
      BY <1>1, <1>2 DEF EditorOK, NoEditor
    <2>2. \A d \in Editors : editor'[d].pc # "idle" => editor'[d] = editor[d]
      BY <1>1, <1>2 DEF EditorOK, NoEditor
    <2>3. \A x \in Monitors \ {m} : edits'[x] = edits[x]
      BY <1>1, <1>2 DEF RowsTyped
    <2> QED
      BY <1>1, <1>2, <2>1, <2>2, <2>3, WriteOutdates
  <1>4. WritesPaid' /\ version'[m] \in 0..MaxOperations /\ edits'[m] \in 0..MaxOperations
    <2>1. c \in At(m)
      BY <1>0 DEF At
    <2>2. At(m)' = At(m) \ {c}
      BY <1>1, <1>2 DEF At, NoEditor, EditorOK
    <2>3. IsFiniteSet(At(m)') /\ Cardinality(At(m)') = Cardinality(At(m)) - 1 /\ Cardinality(At(m)') \in Nat
      BY <1>2, <2>1, <2>2, PaidNumbers, FS_RemoveElement, FS_CardinalityType
    <2>4. version'[m] = version[m] + 1 /\ edits'[m] = edits[m] + 1 /\ \A x : Deleting(x)' = Deleting(x)
      BY <1>1, <1>2 DEF RowsTyped, Deleting
    <2>5. /\ version'[m] + Cardinality(At(m)') + Deleting(m)' + budget' <= MaxOperations
          /\ edits'[m] <= version'[m]
          /\ version'[m] \in 0..MaxOperations /\ edits'[m] \in 0..MaxOperations
      BY <1>1, <1>2, <2>3, <2>4, PaidNumbers
    <2>6. ASSUME NEW x \in Monitors, x # m
          PROVE  /\ IsFiniteSet(At(x)')
                 /\ version'[x] + Cardinality(At(x)') + Deleting(x)' + budget' <= MaxOperations
                 /\ edits'[x] <= version'[x]
      <3>1. At(x)' = At(x)
        BY <1>0, <1>1, <1>2, <2>6 DEF At, NoEditor, EditorOK
      <3>2. version'[x] = version[x] /\ edits'[x] = edits[x]
        BY <1>1, <1>2, <2>6 DEF RowsTyped
      <3> QED
        BY <1>1, <2>4, <3>1, <3>2, PaidNumbers
    <2> QED
      BY <2>3, <2>5, <2>6 DEF WritesPaid
  <1>5. RowsTyped'
    BY <1>1, <1>2, <1>4 DEF RowsTyped
  <1>6. BillingIInv'
    BY <1>1, BillingStays, SameBudget
  <1>7. PlanLimitHolds'
    BY <1>1, LimitKept DEF IInv, CreateOK
  <1>8. IncidentsTyped' /\ DeletionResolves' /\ CreateOK' /\ DeletionOK'
    BY <1>1, IncidentsKept DEF IInv, CreateOK
  <1> QED
    BY <1>3, <1>4, <1>5, <1>6, <1>7, <1>8 DEF IInv

(* A write by something that had paid for it: a check, or a deletion.      *)
LEMMA WriteInv ==
    ASSUME IInv, NEW m \in Monitors, Write(m), budget' \in 0..budget,
           UNCHANGED <<rest, edits, create, editor, highest, overtaken>>,
           \A x \in Monitors \ {m} : deletion'[x] = deletion[x],
           Deleting(m)' \in Nat, Deleting(m)' + budget' + 1 <= Deleting(m) + budget
    PROVE  /\ BillingIInv' /\ WritesPaid' /\ EditorOK' /\ CreateOK'
           /\ version' \in [Monitors -> 0..MaxOperations] /\ exact' \in [Monitors -> BOOLEAN]
  <1>1. /\ version' = [version EXCEPT ![m] = @ + 1]
        /\ \E e \in BOOLEAN : exact' = [exact EXCEPT ![m] = e]
    BY DEF Write
  <1>2. RowsTyped /\ EditorOK /\ CreateOK
    BY DEF IInv
  <1>3. EditorOK'
    BY <1>1, <1>2, WriteOutdates DEF EditorOK
  <1>4. WritesPaid' /\ version'[m] \in 0..MaxOperations
    <2>1. \A x : At(x)' = At(x)
      BY DEF At
    <2>2. version'[m] = version[m] + 1
      BY <1>1, <1>2 DEF RowsTyped
    <2>3. /\ version'[m] + Cardinality(At(m)') + Deleting(m)' + budget' <= MaxOperations
          /\ edits[m] <= version'[m] /\ version'[m] \in 0..MaxOperations
      BY <2>1, <2>2, PaidNumbers
    <2>4. ASSUME NEW x \in Monitors, x # m
          PROVE  /\ version'[x] + Cardinality(At(x)') + Deleting(x)' + budget' <= MaxOperations
                 /\ edits[x] <= version'[x]
      <3>1. version'[x] = version[x] /\ Deleting(x)' = Deleting(x)
        BY <1>1, <1>2, <2>4 DEF RowsTyped, Deleting
      <3> QED
        BY <2>1, <3>1, PaidNumbers
    <2>5. \A x \in Monitors : IsFiniteSet(At(x)')
      BY <2>1, PaidNumbers
    <2> QED
      BY <2>3, <2>4, <2>5 DEF WritesPaid
  <1>5. version' \in [Monitors -> 0..MaxOperations] /\ exact' \in [Monitors -> BOOLEAN]
    BY <1>1, <1>2, <1>4 DEF RowsTyped
  <1>6. BillingIInv' /\ CreateOK'
    BY <1>2, BillingStays DEF CreateOK
  <1> QED
    BY <1>3, <1>4, <1>5, <1>6

LEMMA CheckInv == ASSUME IInv, NEW m \in Monitors, Check(m) PROVE IInv'
  <1>1. /\ Write(m) /\ Spend(1)
        /\ UNCHANGED <<rest, row, edits, incidentVars, create, editor, deletionVars, highest, overtaken>>
    BY DEF Check
  <1>2. Deleting(m)' = Deleting(m) /\ Deleting(m) \in 0..1
    BY <1>1, PaidNumbers DEF Deleting
  <1>3. /\ BillingIInv' /\ WritesPaid' /\ EditorOK' /\ CreateOK'
        /\ version' \in [Monitors -> 0..MaxOperations] /\ exact' \in [Monitors -> BOOLEAN]
    <2>1. budget' \in 0..budget /\ Deleting(m)' + budget' + 1 <= Deleting(m) + budget /\ Deleting(m)' \in Nat
      BY <1>1, <1>2, Spent
    <2> QED
      BY <1>1, <2>1, WriteInv
  <1>4. RowsTyped' /\ IncidentsTyped' /\ DeletionResolves' /\ DeletionOK'
    BY <1>1, <1>3, IncidentsKept DEF IInv, RowsTyped
  <1>5. PlanLimitHolds'
    BY <1>1, LimitKept DEF IInv, CreateOK
  <1> QED
    BY <1>3, <1>4, <1>5 DEF IInv

(* A step of the incidents alone *)
LEMMA IncidentInv ==
    ASSUME IInv, UNCHANGED <<rest, row, version, exact, edits, create, editor, deletion, highest, overtaken>>,
           budget' \in 0..budget, IncidentsTyped', DeletionResolves', DeletionOK'
    PROVE  IInv'
  <1>1. BillingIInv' /\ WritesPaid' /\ PlanLimitHolds'
    BY BillingStays, PaidKept, LimitKept DEF IInv, CreateOK
  <1>2. RowsTyped' /\ EditorOK' /\ CreateOK'
    BY DEF IInv, RowsTyped, EditorOK, CreateOK
  <1> QED
    BY <1>1, <1>2 DEF IInv

LEMMA OpenInv == ASSUME IInv, NEW m \in Monitors, Open(m) PROVE IInv'
  <1>1. /\ row[m] # "absent" /\ Spend(1)
        /\ opened' = [opened EXCEPT ![m] = @ + 1]
        /\ incident' = [incident EXCEPT ![m] = opened[m] + 1]
        /\ acked' = acked \ {m}
        /\ UNCHANGED <<rest, row, version, exact, edits, acks, create, editor, deletionVars, highest, overtaken>>
    BY DEF Open
  <1>2. IncidentsTyped /\ DeletionOK /\ DeletionResolves
    BY DEF IInv
  <1>3. IncidentsTyped'
    BY <1>1, <1>2 DEF IncidentsTyped
  <1>4. opened[m] \in Nat /\ opened'[m] = opened[m] + 1 /\ incident'[m] = opened[m] + 1
    BY <1>1, <1>2 DEF IncidentsTyped
  <1>5. \A x \in Monitors \ {m} : opened'[x] = opened[x] /\ incident'[x] = incident[x] /\ (x \in acked' <=> x \in acked)
    BY <1>1, <1>2 DEF IncidentsTyped
  <1>6. known[m] \in Nat /\ known[m] < incident'[m] /\ incident'[m] \notin reopened[m]
    BY <1>2, <1>4 DEF IncidentsTyped, DeletionOK, NumbersOK
  <1>7. NumbersOK'
    <2>1. \A x \in Monitors : opened[x] \in Nat /\ opened'[x] \in Nat /\ opened[x] <= opened'[x]
      BY <1>2, <1>4, <1>5 DEF IncidentsTyped
    <2>2. \A x \in Monitors : known[x] <= opened'[x] /\ incident'[x] <= opened'[x]
      BY <1>1, <1>2, <1>4, <1>5, <1>6, <2>1 DEF IncidentsTyped, DeletionOK, NumbersOK
    <2>3. \A x \in Monitors : \A i \in reopened[x] : i <= opened'[x]
      BY <1>2, <2>1 DEF IncidentsTyped, DeletionOK, NumbersOK
    <2>4. \A a \in acks : a.incident <= opened'[a.monitor]
      BY <1>2, <2>1 DEF IncidentsTyped, DeletionOK, NumbersOK
    <2> QED
      BY <1>1, <2>2, <2>3, <2>4 DEF NumbersOK
  <1>8. DeletionOK' /\ DeletionResolves'
    BY <1>1, <1>2, <1>5, <1>6, <1>7 DEF DeletionOK, UnresolvedOK, UnresolvedAt, AcksOK, DeletionResolves, Locked
  <1> QED
    BY <1>1, <1>3, <1>8, Spent, IncidentInv

LEMMA ResolveInv == ASSUME IInv, NEW m \in Monitors, Resolve(m) PROVE IInv'
  <1>1. /\ Spend(1) /\ incident' = [incident EXCEPT ![m] = 0]
        /\ UNCHANGED <<rest, row, version, exact, edits, acked, opened, acks, create, editor, deletionVars, highest, overtaken>>
    BY DEF Resolve
  <1>2. IncidentsTyped /\ DeletionOK /\ DeletionResolves
    BY DEF IInv
  <1>3. IncidentsTyped' /\ DeletionOK' /\ DeletionResolves'
    BY <1>1, <1>2 DEF IncidentsTyped, DeletionOK, NumbersOK, UnresolvedOK, UnresolvedAt, AcksOK, DeletionResolves, Locked
  <1> QED
    BY <1>1, <1>3, Spent, IncidentInv

LEMMA AckGetInv == ASSUME IInv, NEW m \in Monitors, AckGet(m) PROVE IInv'
  <1> DEFINE a == [monitor |-> m, incident |-> incident[m], before |-> row[m] # "deleted"]
  <1>1. /\ incident[m] # 0 /\ m \notin acked /\ Spend(1) /\ acks' = acks \cup {a}
        /\ UNCHANGED <<rest, row, version, exact, edits, incident, acked, opened, create, editor, deletionVars, highest, overtaken>>
    BY DEF AckGet
  <1>2. IncidentsTyped /\ DeletionOK /\ DeletionResolves
    BY DEF IInv
  <1>3. IncidentsTyped' /\ DeletionResolves'
    <2>1. a \in [monitor : Monitors, incident : Nat, before : BOOLEAN]
      BY <1>2 DEF IncidentsTyped
    <2> HIDE DEF a
    <2> QED
      BY <1>1, <1>2, <2>1 DEF IncidentsTyped, DeletionResolves
  <1>4. /\ a.monitor = m /\ a.incident = incident[m] /\ incident[m] <= opened[m] /\ row[m] # "absent"
        /\ ~a.before => row[m] = "deleted" /\ incident[m] > known[m]
    BY <1>1, <1>2 DEF DeletionOK, NumbersOK, UnresolvedOK, UnresolvedAt
  <1> HIDE DEF a
  <1>5. DeletionOK'
    BY <1>1, <1>2, <1>4 DEF DeletionOK, NumbersOK, UnresolvedOK, UnresolvedAt, AcksOK, Locked
  <1> QED
    BY <1>1, <1>3, <1>5, Spent, IncidentInv

(* The index lets the row be unresolved again only if no other is; then it *)
(* was read before the deletion, or is one opened after it had looked.     *)
LEMMA AckUpdateInv == ASSUME IInv, NEW a \in acks, AckUpdate(a) PROVE IInv'
  <1>1. PICK m : m = a.monitor
    OBVIOUS
  <1>2. /\ incident[m] \in {0, a.incident}
        /\ incident' = [incident EXCEPT ![m] = a.incident]
        /\ acked' = acked \cup {m}
        /\ reopened' = [reopened EXCEPT ![m] = IF incident[m] = 0 /\ a.before THEN reopened[m] \cup {a.incident} ELSE reopened[m]]
        /\ UNCHANGED <<rest, budget, row, version, exact, edits, opened, acks, create, editor, deletion, found, known,
                       highest, overtaken>>
    BY <1>1 DEF AckUpdate
  <1>3. IncidentsTyped /\ DeletionOK /\ DeletionResolves
    BY DEF IInv
  <1>4. m \in Monitors /\ a.incident \in Nat /\ a.before \in BOOLEAN
    BY <1>1, <1>3 DEF IncidentsTyped
  <1>5. /\ a.incident <= opened[m] /\ row[m] # "absent"
        /\ ~a.before => row[m] = "deleted" /\ a.incident > known[m]
    BY <1>1, <1>3 DEF DeletionOK, NumbersOK, AcksOK
  <1>6. IncidentsTyped'
    BY <1>2, <1>3, <1>4 DEF IncidentsTyped
  <1>7. /\ incident'[m] = a.incident /\ m \in acked' /\ \A i \in reopened'[m] : i \in reopened[m] \/ i = a.incident
        /\ incident[m] = 0 => a.incident \in reopened'[m] \/ a.incident > known[m]
        /\ reopened[m] \subseteq reopened'[m]
    BY <1>2, <1>3, <1>4, <1>5 DEF IncidentsTyped
  <1>8. \A x \in Monitors \ {m} : incident'[x] = incident[x] /\ reopened'[x] = reopened[x] /\ (x \in acked' <=> x \in acked)
    BY <1>2, <1>3 DEF IncidentsTyped
  <1>9. NumbersOK' /\ AcksOK'
    BY <1>2, <1>3, <1>5, <1>7, <1>8 DEF DeletionOK, NumbersOK, AcksOK
  <1>10. UnresolvedOK' /\ DeletionResolves'
    <2>1. ASSUME NEW x \in Monitors, x # m
          PROVE  UnresolvedAt(x)' /\ (row'[x] = "deleted" /\ incident'[x] # 0 => incident'[x] > known'[x] \/ incident'[x] \in reopened'[x])
      BY <1>2, <1>3, <1>8, <2>1 DEF DeletionOK, UnresolvedOK, UnresolvedAt, DeletionResolves, Locked
    <2>2. UnresolvedAt(m)' /\ (row'[m] = "deleted" /\ incident'[m] # 0 => incident'[m] > known'[m] \/ incident'[m] \in reopened'[m])
      BY <1>2, <1>3, <1>4, <1>5, <1>7 DEF DeletionOK, UnresolvedOK, UnresolvedAt, DeletionResolves, Locked
    <2> QED
      BY <2>1, <2>2 DEF UnresolvedOK, DeletionResolves
  <1>11. DeletionOK'
    BY <1>2, <1>3, <1>9, <1>10 DEF DeletionOK
  <1> QED
    BY <1>2, <1>6, <1>10, <1>11, SameBudget, IncidentInv

LEMMA DeleteGetInv == ASSUME IInv, NEW m \in Monitors, DeleteGet(m) PROVE IInv'
  <1>1. /\ row[m] = "live" /\ deletion[m] = "idle" /\ Spend(1)
        /\ deletion' = [deletion EXCEPT ![m] = "got"]
        /\ UNCHANGED <<rest, row, version, exact, edits, incidentVars, create, editor, found, known, reopened, highest, overtaken>>
    BY DEF DeleteGet
  <1>2. budget \in Nat /\ budget' \in 0..budget /\ budget' + 1 = budget
    BY <1>1, Spent
  <1>3. RowsTyped' /\ IncidentsTyped' /\ DeletionResolves' /\ EditorOK' /\ CreateOK'
    BY <1>1 DEF IInv, RowsTyped, IncidentsTyped, DeletionResolves, EditorOK, CreateOK
  <1>4. DeletionOK'
    BY <1>1 DEF IInv, RowsTyped, DeletionOK, NumbersOK, UnresolvedOK, UnresolvedAt, AcksOK, Locked
  <1>5. WritesPaid'
    <2> SUFFICES ASSUME NEW x \in Monitors
                 PROVE  /\ IsFiniteSet(At(x)')
                        /\ version[x] + Cardinality(At(x)') + Deleting(x)' + budget' <= MaxOperations
                        /\ edits[x] <= version[x]
      BY <1>1 DEF WritesPaid
    <2>1. At(x)' = At(x)
      BY <1>1 DEF At
    <2>2. Deleting(x)' <= Deleting(x) + 1 /\ Deleting(x)' \in Nat
      BY <1>1 DEF Deleting, IInv, RowsTyped
    <2> QED
      BY <1>2, <2>1, <2>2, PaidNumbers
  <1>6. BillingIInv' /\ PlanLimitHolds'
    BY <1>1, <1>2, BillingStays, LimitKept DEF IInv, CreateOK
  <1> QED
    BY <1>3, <1>4, <1>5, <1>6 DEF IInv

(* A step of a deletion that has begun, before it commits *)
LEMMA DeletingInv ==
    ASSUME IInv, NEW m \in Monitors, deletion[m] # "idle", budget' = budget,
           \E d \in {"idle", "selected", "holding"} : deletion' = [deletion EXCEPT ![m] = d],
           UNCHANGED <<plan, subId, sent, stored, webhook, answered, applied, ignored, row, version, exact, edits,
                       incidentVars, create, editor, highest, overtaken>>,
           failures' \in 0..MaxFailures, IncidentsTyped', DeletionResolves', NumbersOK', UnresolvedOK', AcksOK'
    PROVE  IInv'
  <1>1. RowsTyped /\ DeletionOK /\ row[m] = "live" /\ CreateOK
    BY DEF IInv, DeletionOK
  <1>2. RowsTyped' /\ EditorOK' /\ CreateOK'
    BY <1>1 DEF IInv, RowsTyped, EditorOK, CreateOK
  <1>3. DeletionOK'
    BY <1>1 DEF RowsTyped, DeletionOK
  <1>4. WritesPaid'
    <2> SUFFICES ASSUME NEW x \in Monitors
                 PROVE  /\ IsFiniteSet(At(x)')
                        /\ version[x] + Cardinality(At(x)') + Deleting(x)' + budget <= MaxOperations
                        /\ edits[x] <= version[x]
      BY DEF WritesPaid
    <2>1. At(x)' = At(x) /\ Deleting(x)' <= Deleting(x) /\ Deleting(x)' \in Nat
      BY <1>1 DEF At, Deleting, RowsTyped
    <2> QED
      BY <2>1, PaidNumbers
  <1>5. BillingIInv'
    BY SameBudget, BillingAside DEF IInv
  <1>6. PlanLimitHolds'
    BY <1>1, LimitKept DEF CreateOK
  <1> QED
    BY <1>2, <1>3, <1>4, <1>5, <1>6 DEF IInv

(* What the deletion finds is all that is unresolved. *)
LEMMA DeleteSweepInv == ASSUME IInv, NEW m \in Monitors, DeleteSweep(m) PROVE IInv'
  <1>1. /\ deletion[m] = "got"
        /\ deletion' = [deletion EXCEPT ![m] = "selected"]
        /\ found' = [found EXCEPT ![m] = incident[m]]
        /\ known' = [known EXCEPT ![m] = opened[m]]
        /\ reopened' = [reopened EXCEPT ![m] = {}]
        /\ UNCHANGED <<rest, budget, row, version, exact, edits, incidentVars, create, editor, highest, overtaken>>
    BY DEF DeleteSweep, Sweep
  <1>2. RowsTyped /\ IncidentsTyped /\ DeletionResolves /\ DeletionOK /\ row[m] = "live"
    BY <1>1 DEF IInv, DeletionOK
  <1>3. IncidentsTyped'
    BY <1>1, <1>2 DEF IncidentsTyped
  <1>4. /\ known'[m] = opened[m] /\ reopened'[m] = {} /\ found'[m] = incident[m] /\ opened[m] \in Nat
        /\ \A x \in Monitors \ {m} :
              known'[x] = known[x] /\ reopened'[x] = reopened[x] /\ found'[x] = found[x] /\ deletion'[x] = deletion[x]
    BY <1>1, <1>2 DEF IncidentsTyped, RowsTyped
  <1>5. NumbersOK' /\ AcksOK' /\ DeletionResolves'
    BY <1>1, <1>2, <1>4 DEF DeletionOK, NumbersOK, AcksOK, DeletionResolves
  <1>6. UnresolvedOK'
    BY <1>1, <1>2, <1>4 DEF DeletionOK, UnresolvedOK, UnresolvedAt, Locked
  <1>7. failures' \in 0..MaxFailures
    BY <1>1 DEF rest, IInv, BillingIInv, BillingTypeOK
  <1> QED
    BY <1>1, <1>3, <1>5, <1>6, <1>7, DeletingInv DEF rest

LEMMA DeleteResolveInv == ASSUME IInv, NEW m \in Monitors, DeleteResolve(m) PROVE IInv'
  <1>1. /\ deletion[m] = "selected"
        /\ deletion' = [deletion EXCEPT ![m] = "holding"]
        /\ UNCHANGED <<rest, budget, row, version, exact, edits, incidentVars, create, editor, found, known, reopened,
                       highest, overtaken>>
    BY DEF DeleteResolve
  <1>2. RowsTyped /\ IncidentsTyped /\ DeletionResolves /\ DeletionOK
    BY DEF IInv
  <1>3. IncidentsTyped' /\ DeletionResolves' /\ NumbersOK' /\ AcksOK'
    BY <1>1, <1>2 DEF IncidentsTyped, DeletionResolves, DeletionOK, NumbersOK, AcksOK
  <1>4. UnresolvedOK'
    BY <1>1, <1>2 DEF RowsTyped, DeletionOK, UnresolvedOK, UnresolvedAt, Locked
  <1>5. failures' \in 0..MaxFailures
    BY <1>1 DEF rest, IInv, BillingIInv, BillingTypeOK
  <1> QED
    BY <1>1, <1>3, <1>4, <1>5, DeletingInv DEF rest

LEMMA DeleteCommitInv == ASSUME IInv, NEW m \in Monitors, DeleteCommit(m) PROVE IInv'
  <1>1. /\ Locked(m) /\ Write(m)
        /\ deletion' = [deletion EXCEPT ![m] = "idle"]
        /\ row' = [row EXCEPT ![m] = "deleted"]
        /\ incident' = [incident EXCEPT ![m] = IF incident[m] = found[m] THEN 0 ELSE incident[m]]
        /\ found' = [found EXCEPT ![m] = 0]
        /\ UNCHANGED <<rest, budget, edits, acked, opened, acks, create, editor, known, reopened, highest, overtaken>>
    BY DEF DeleteCommit, Locked
  <1>2. RowsTyped /\ IncidentsTyped /\ DeletionResolves /\ DeletionOK
    BY DEF IInv
  <1>3. row[m] = "live"
    BY <1>1, <1>2 DEF DeletionOK, Locked
  <1>4. /\ BillingIInv' /\ WritesPaid' /\ EditorOK' /\ CreateOK'
        /\ version' \in [Monitors -> 0..MaxOperations] /\ exact' \in [Monitors -> BOOLEAN]
    <2>1. Deleting(m) = 1 /\ Deleting(m)' = 0
      BY <1>1, <1>2 DEF Deleting, RowsTyped, Locked
    <2>2. \A x \in Monitors \ {m} : deletion'[x] = deletion[x]
      BY <1>1, <1>2 DEF RowsTyped
    <2>3. budget' \in 0..budget /\ Deleting(m)' \in Nat /\ Deleting(m)' + budget' + 1 <= Deleting(m) + budget
      BY <1>1, <2>1, PaidNumbers
    <2> QED
      BY <1>1, <2>2, <2>3, WriteInv
  <1>5. RowsTyped' /\ IncidentsTyped'
    BY <1>1, <1>2, <1>4 DEF RowsTyped, IncidentsTyped
  <1>6. /\ row'[m] = "deleted" /\ deletion'[m] = "idle"
        /\ incident'[m] # 0 => incident'[m] = incident[m] /\ incident[m] # found[m]
        /\ incident'[m] = 0 \/ incident'[m] = incident[m]
        /\ \A x \in Monitors \ {m} :
              row'[x] = row[x] /\ deletion'[x] = deletion[x] /\ incident'[x] = incident[x] /\ found'[x] = found[x]
    BY <1>1, <1>2 DEF RowsTyped, IncidentsTyped
  <1>7. incident'[m] # 0 => incident[m] > known[m] \/ incident[m] \in reopened[m]
    BY <1>1, <1>2, <1>6 DEF DeletionOK, UnresolvedOK, UnresolvedAt
  <1>8. NumbersOK'
    BY <1>1, <1>2, <1>6 DEF IncidentsTyped, DeletionOK, NumbersOK
  <1>9. UnresolvedOK' /\ AcksOK' /\ DeletionResolves'
    <2>1. UnresolvedOK'
      BY <1>1, <1>2, <1>6, <1>7 DEF DeletionOK, UnresolvedOK, UnresolvedAt, Locked
    <2>2. AcksOK'
      BY <1>1, <1>2, <1>3, <1>6 DEF IncidentsTyped, DeletionOK, AcksOK
    <2>3. DeletionResolves'
      BY <1>1, <1>2, <1>6, <1>7 DEF DeletionResolves
    <2> QED
      BY <2>1, <2>2, <2>3
  <1>10. DeletionOK'
    BY <1>2, <1>6, <1>8, <1>9 DEF DeletionOK
  <1>11. PlanLimitHolds'
    <2>1. Rows' = Rows
      BY <1>1, <1>2, <1>3 DEF Rows, RowsTyped
    <2> QED
      BY <1>1, <2>1 DEF IInv, PlanLimitHolds
  <1> QED
    BY <1>4, <1>5, <1>9, <1>10, <1>11 DEF IInv

LEMMA DeleteFailsInv == ASSUME IInv, NEW m \in Monitors, DeleteFails(m) PROVE IInv'
  <1>1. /\ Locked(m) /\ failures < MaxFailures /\ failures' = failures + 1
        /\ deletion' = [deletion EXCEPT ![m] = "idle"]
        /\ found' = [found EXCEPT ![m] = 0]
        /\ UNCHANGED <<plan, subId, sent, stored, webhook, answered, applied, ignored, budget,
                       row, version, exact, edits, incidentVars, create, editor, known, reopened, highest, overtaken>>
    BY DEF DeleteFails
  <1>2. RowsTyped /\ IncidentsTyped /\ DeletionResolves /\ DeletionOK
    BY DEF IInv
  <1>3. IncidentsTyped' /\ DeletionResolves' /\ NumbersOK' /\ AcksOK'
    BY <1>1, <1>2 DEF IncidentsTyped, DeletionResolves, DeletionOK, NumbersOK, AcksOK
  <1>4. UnresolvedOK'
    BY <1>1, <1>2 DEF RowsTyped, IncidentsTyped, DeletionOK, UnresolvedOK, UnresolvedAt, Locked
  <1>5. failures' \in 0..MaxFailures
    BY <1>1, BillingAssumption DEF IInv, BillingIInv, BillingTypeOK
  <1>6. deletion[m] # "idle"
    BY <1>1 DEF Locked
  <1> QED
    BY <1>1, <1>3, <1>4, <1>5, <1>6, DeletingInv

(* What happens to the plan costs the monitors operations.                 *)
LEMMA BillingStep == ASSUME IInv, BillingNext, UNCHANGED monitorVars PROVE IInv'
  <1>1. BillingIInv' /\ budget' \in 0..budget
    BY BillingInductive DEF IInv
  <1>2. UNCHANGED <<row, version, exact, edits, incidentVars, create, editor, deletionVars, highest, overtaken>>
    BY DEF monitorVars
  <1>3. WritesPaid' /\ PlanLimitHolds'
    BY <1>1, <1>2, PaidKept, LimitKept DEF IInv, CreateOK
  <1>4. RowsTyped' /\ CreateOK' /\ EditorOK'
    BY <1>2 DEF IInv, RowsTyped, CreateOK, EditorOK
  <1> QED
    BY <1>1, <1>2, <1>3, <1>4, IncidentsKept DEF IInv

LEMMA Stutter == ASSUME IInv, UNCHANGED vars PROVE IInv'
  <1>1. UNCHANGED <<rest, budget, row, version, exact, edits, incidentVars, create, editor, deletionVars, highest, overtaken>>
    BY DEF vars, billingVars, monitorVars, rest
  <1>2. EditorOK' /\ WritesPaid'
    BY <1>1, SameBudget, PaidKept DEF IInv, EditorOK
  <1> QED
    BY <1>1, <1>2, SameBudget, ClientInv

LEMMA Inductive == IInv /\ [Next]_vars => IInv'
  <1> SUFFICES ASSUME IInv, [Next]_vars PROVE IInv'
    OBVIOUS
  <1>1. ASSUME NEW r \in Creators, CreateFindWorkspace(r) \/ CreateCount(r) \/ CreateInsert(r) PROVE IInv'
    BY <1>1, CreateFindWorkspaceInv, CreateCountInv, CreateInsertInv
  <1>2. ASSUME NEW c \in Editors, PatchGet(c) \/ PatchUpdate(c) \/ PatchConflict(c) \/ PatchBlind(c) PROVE IInv'
    BY <1>2, PatchGetInv, PatchConflictInv, PatchInv DEF PatchUpdate, PatchBlind
  <1>3. ASSUME NEW c \in Editors, NEW m \in Monitors, GetMonitor(c, m) PROVE IInv'
    BY <1>3, GetMonitorInv
  <1>4. ASSUME NEW m \in Monitors,
               \/ Check(m) \/ Open(m) \/ Resolve(m) \/ AckGet(m)
               \/ DeleteGet(m) \/ DeleteSweep(m) \/ DeleteResolve(m) \/ DeleteCommit(m) \/ DeleteFails(m)
        PROVE  IInv'
    BY <1>4, CheckInv, OpenInv, ResolveInv, AckGetInv, DeleteGetInv, DeleteSweepInv, DeleteResolveInv, DeleteCommitInv, DeleteFailsInv
  <1>5. CASE MonitorNext
    BY <1>1, <1>2, <1>3, <1>4, <1>5, AckUpdateInv DEF MonitorNext
  <1>6. CASE BillingNext /\ UNCHANGED monitorVars
    BY <1>6, BillingStep
  <1>7. CASE UNCHANGED vars
    BY <1>7, Stutter
  <1> QED
    BY <1>5, <1>6, <1>7 DEF Next

LEMMA Invariance == Spec => []IInv
  BY Initially, Inductive, PTL DEF Spec

(* No event changes the plan twice, however often Stripe delivers it, and  *)
(* the rows pass the highest limit that the plan has had by no more than   *)
(* the inserts of requests that had counted before another insert          *)
(* (handleWebhook, MonitorService.create).                                 *)
THEOREM AdminInvHolds == Spec => []AdminInv
  BY InvImplied, Invariance, PTL

(* Once every event is answered the plan is what the last event of the     *)
(* subscription says, unless one was ignored or took effect out of order   *)
(* (handleWebhook).                                                        *)
THEOREM PlanIsPaidHolds == Spec => []PlanIsPaid
  <1>1. IInv => PlanIsPaid
    BY BillingImpliesPlan DEF IInv
  <1> QED
    BY <1>1, Invariance, PTL

(* A deleted monitor has an unresolved incident only if that was opened    *)
(* after the deletion had looked, or was acknowledged after its resolution *)
(* by a member who had read it before the monitor was deleted              *)
(* (MonitorService.delete, IncidentRepository.acknowledge).                *)
THEOREM DeletionResolvesHolds == Spec => []DeletionResolves
  <1>1. IInv => DeletionResolves
    BY DEF IInv
  <1> QED
    BY <1>1, Invariance, PTL

(* The edits of a row change when a client's change is made, and a client  *)
(* whose ETag matches has seen the last of them.                           *)
LEMMA NoLostUpdateStep ==
    ASSUME IInv, Next, NEW c \in Editors, editor[c].pc = "checked",
           edits'[editor[c].monitor] > edits[editor[c].monitor], editor'[c].pc = "idle"
    PROVE  editor[c].seen = edits[editor[c].monitor]
  <1>1. editor[c].monitor \in Monitors /\ EditorOK /\ RowsTyped
    BY DEF IInv, EditorOK
  <1>2. edits' # edits
    <2>1. edits[editor[c].monitor] \in Nat
      BY <1>1, PaidNumbers
    <2> QED
      BY <2>1
  <1>3. PICK d \in Editors : PatchUpdate(d) \/ PatchBlind(d)
    BY <1>2 DEF Next, MonitorNext, BillingNext, monitorVars, CreateFindWorkspace, CreateCount, CreateInsert,
                PatchGet, PatchConflict, GetMonitor, Check, Open, Resolve, AckGet, AckUpdate,
                DeleteGet, DeleteSweep, Sweep, DeleteResolve, DeleteCommit, DeleteFails
  <1>4. Patch(d) /\ (editor[d].pc = "checked" => Matches(d))
    BY <1>3 DEF PatchUpdate, PatchBlind
  <1>5. d = c
    BY <1>1, <1>4 DEF Patch, EditorOK
  <1> QED
    BY <1>1, <1>4, <1>5 DEF Matches, EditorOK

(* No client that sends If-Match overwrites a change that it has not seen, *)
(* however often the row is written in between (MonitorService.update).    *)
THEOREM NoLostUpdateHolds == Spec => NoLostUpdate
  <1>1. IInv /\ [Next]_vars
          => [\A c \in Editors :
                LET m == editor[c].monitor IN
                (editor[c].pc = "checked" /\ edits'[m] > edits[m] /\ editor'[c].pc = "idle")
                   => editor[c].seen = edits[m]]_vars
    BY NoLostUpdateStep
  <1> QED
    BY <1>1, Invariance, PTL DEF Spec, NoLostUpdate
=============================================================================
