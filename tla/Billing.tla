------------------------------- MODULE Billing -------------------------------
(***************************************************************************)
(* The plan of one workspace: subscriptions are made and changed at        *)
(* Stripe, whose events reach the webhook at least once and in any order.  *)
(***************************************************************************)
EXTENDS Naturals, Sequences, FiniteSets

CONSTANTS
    MaxSubscriptions, \* subscriptions made one after the other (a bound)
    Plans,            \* the plans that have a price
    MaxOperations,    \* events of Stripe and requests of clients, together (a bound)
    MaxFailures       \* requests that fail half way (a bound)

ASSUME BillingAssumption ==
    /\ MaxSubscriptions \in Nat
    /\ "free" \notin Plans
    /\ MaxOperations \in Nat
    /\ MaxFailures \in Nat

VARIABLES
    plan,         \* workspaces.plan
    subId,        \* workspaces.stripe_sub_id, 0: NULL
    sent,         \* the events in the order in which Stripe sent them
    stored,       \* stripe_events
    webhook,      \* where the handler of an event stands
    answered,     \* the events that Stripe got a 200 for
    failures,
    budget,       \* the operations that are left
    \* history variables
    applied,      \* the events that have taken effect, in order
    ignored       \* the events that never will

billingVars == <<plan, subId, sent, stored, webhook, answered, failures, budget, applied, ignored>>

Subscriptions == 1..MaxSubscriptions
Events        == DOMAIN sent

BillingTypeOK ==
    /\ plan \in Plans \cup {"free"}
    /\ subId \in Subscriptions \cup {0}
    /\ sent \in Seq([type : {"checkout", "updated", "deleted"}, sub : Subscriptions, plan : Plans \cup {"free"}])
    /\ answered \subseteq stored /\ stored \subseteq Events
    /\ webhook \in [1..MaxOperations -> {"idle", "stored", "found", "handled"}]
    /\ failures \in 0..MaxFailures
    /\ budget \in 0..MaxOperations

BillingInit ==
    /\ plan = "free"
    /\ subId = 0
    /\ sent = <<>>
    /\ stored = {} /\ answered = {} /\ ignored = {}
    /\ webhook = [n \in 1..MaxOperations |-> "idle"]
    /\ failures = 0
    /\ budget = MaxOperations
    /\ applied = <<>>

-----------------------------------------------------------------------------
(* What happens at Stripe: external *)

Of(s)        == {n \in Events : sent[n].sub = s}
LastOf(s)    == CHOOSE n \in Of(s) : \A k \in Of(s) : k <= n
Cancelled(s) == \E n \in Of(s) : sent[n].type = "deleted"

Spend(k) == budget >= k /\ budget' = budget - k

Send(events) ==
    /\ Spend(Len(events))
    /\ sent' = sent \o events
    /\ UNCHANGED <<plan, subId, stored, webhook, answered, failures, applied, ignored>>

(* The page of createCheckoutSession is paid for, once or twice.  The      *)
(* subscription becomes active with an update of its own.                  *)
Checkout(s, p) ==
    /\ Of(s) = {} /\ (s = 1 \/ Of(s - 1) # {})
    /\ Send(<<[type |-> "checkout", sub |-> s, plan |-> p], [type |-> "updated", sub |-> s, plan |-> p]>>)

(* In the portal of createPortalSession the price is changed ... *)
ChangePrice(s, p) ==
    /\ Of(s) # {} /\ ~Cancelled(s)
    /\ sent[LastOf(s)].plan # p
    /\ Send(<<[type |-> "updated", sub |-> s, plan |-> p]>>)

(* ... or the subscription cancelled. *)
Cancel(s) ==
    /\ Of(s) # {} /\ ~Cancelled(s)
    /\ Send(<<[type |-> "deleted", sub |-> s, plan |-> "free"]>>)

-----------------------------------------------------------------------------
(* handleWebhook *)

Unanswered(n) == n \in Events \ answered /\ webhook[n] = "idle"

(* Mutant: an event that is stored is handled again. *)
ReceiveAgain(n) ==
    /\ Unanswered(n)
    /\ stored' = stored \cup {n}
    /\ webhook' = [webhook EXCEPT ![n] = "stored"]
    /\ UNCHANGED <<plan, subId, sent, answered, failures, budget, applied, ignored>>

(* INSERT ... ON CONFLICT DO NOTHING: an event is handled once *)
Receive(n) ==
    /\ Unanswered(n) /\ n \notin stored
    /\ stored' = stored \cup {n}
    /\ webhook' = [webhook EXCEPT ![n] = "stored"]
    /\ UNCHANGED <<plan, subId, sent, answered, failures, budget, applied, ignored>>

(* One that is stored was handled, or is lost: it is answered at once. *)
ReceiveDuplicate(n) ==
    /\ Unanswered(n) /\ n \in stored
    /\ answered' = answered \cup {n}
    /\ UNCHANGED <<plan, subId, sent, stored, webhook, failures, budget, applied, ignored>>

Done(n) ==
    /\ webhook' = [webhook EXCEPT ![n] = "handled"]
    /\ UNCHANGED <<sent, stored, answered, failures, budget>>

(* The 200 *)
Answer(n) ==
    /\ webhook[n] = "handled"
    /\ webhook' = [webhook EXCEPT ![n] = "idle"]
    /\ answered' = answered \cup {n}
    /\ UNCHANGED <<plan, subId, sent, stored, failures, budget, applied, ignored>>

(* checkout.session.completed *)
UpdateStripeIds(n) ==
    /\ webhook[n] = "stored" /\ sent[n].type = "checkout"
    /\ subId' = sent[n].sub
    /\ applied' = Append(applied, n)
    /\ Done(n)
    /\ UNCHANGED <<plan, ignored>>

(* customer.subscription.updated, .deleted: the SELECT by stripe_sub_id *)
FindWorkspace(n) ==
    /\ webhook[n] = "stored" /\ sent[n].type # "checkout"
    /\ subId = sent[n].sub
    /\ webhook' = [webhook EXCEPT ![n] = "found"]
    /\ UNCHANGED <<plan, subId, sent, stored, answered, failures, budget, applied, ignored>>

FindNoWorkspace(n) ==
    /\ webhook[n] = "stored" /\ sent[n].type # "checkout"
    /\ subId # sent[n].sub
    /\ ignored' = ignored \cup {n}
    /\ Done(n)
    /\ UNCHANGED <<plan, subId, applied>>

(* Mutant: a cancelled subscription keeps the plan of its price. *)
UpdatePlanOfPrice(n) ==
    /\ webhook[n] = "found"
    /\ plan' = IF sent[n].plan = "free" THEN plan ELSE sent[n].plan
    /\ applied' = Append(applied, n)
    /\ Done(n)
    /\ UNCHANGED <<subId, ignored>>

UpdatePlan(n) ==
    /\ webhook[n] = "found"
    /\ plan' = sent[n].plan
    /\ applied' = Append(applied, n)
    /\ Done(n)
    /\ UNCHANGED <<subId, ignored>>

(* A statement fails or the process dies after the event was stored, or    *)
(* the 200 is lost: Stripe will send it again, as a duplicate.             *)
WebhookFails(n) ==
    /\ webhook[n] # "idle"
    /\ failures < MaxFailures
    /\ failures' = failures + 1
    /\ webhook' = [webhook EXCEPT ![n] = "idle"]
    /\ ignored' = IF webhook[n] = "handled" THEN ignored ELSE ignored \cup {n}
    /\ UNCHANGED <<plan, subId, sent, stored, answered, budget, applied>>

Handle(n) ==
    \/ Receive(n) \/ ReceiveDuplicate(n)
    \/ UpdateStripeIds(n) \/ FindWorkspace(n) \/ FindNoWorkspace(n) \/ UpdatePlan(n) \/ Answer(n)

BillingNext ==
    \/ \E s \in Subscriptions : Cancel(s) \/ \E p \in Plans : Checkout(s, p) \/ ChangePrice(s, p)
    \/ \E n \in Events : Handle(n) \/ WebhookFails(n)

-----------------------------------------------------------------------------
InOrder ==
    \A j, k \in DOMAIN applied : j < k =>
        applied[j] <= applied[k] /\ sent[applied[j]].sub <= sent[applied[k]].sub

(* Once every event is answered, the plan is what the last event of the    *)
(* workspace's subscription says, if the events took effect in the order   *)
(* in which they were sent, no event of an earlier subscription did after  *)
(* a new one had replaced it, and none of this subscription was ignored,   *)
(* because it came before its checkout or failed half way.                 *)
PlanIsPaid ==
    (answered = Events /\ subId # 0 /\ InOrder /\ Of(subId) \cap ignored = {})
        => plan = sent[LastOf(subId)].plan

(* No event takes effect twice, however often it is delivered. *)
AppliedOnce == \A j, k \in DOMAIN applied : applied[j] = applied[k] => j = k

=============================================================================
