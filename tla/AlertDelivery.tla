---------------------------- MODULE AlertDelivery ----------------------------
(***************************************************************************)
(* Alerts from the queue to the channels: an alert worker polls a batch,   *)
(* sends every alert to every channel of its workspace, writes each result *)
(* to alert_log, and deletes the message if nothing failed, or gives it    *)
(* back, to be sent to every channel again.  AzureAlertWorker does the     *)
(* same with Service Bus, which refuses both once the lock is lost; an     *)
(* error then ends the poll's wait for the other messages of the batch.    *)
(***************************************************************************)
EXTENDS Naturals, FiniteSets

CONSTANTS
    Workers,          \* alert worker processes
    Alerts,           \* messages of the alert queue, all of one workspace
    Orphans,          \* alerts whose monitor or incident was deleted
    Malformed,        \* sets of alerts that may be unparseable
    Channels,
    Workspaces,       \* the sets of active channels a workspace may have
    Webhooks,         \* channels of the one type that alert_log does not take
    Clouds,           \* the values of CLOUD: "aws", "azure"
    MaxReceives,      \* maxReceiveCount of the queue
    MaxFaults         \* failures, lapses and exits (a bound)

ASSUME AlertAssumption ==
    /\ Orphans \subseteq Alerts /\ Malformed \subseteq SUBSET Alerts
    /\ Webhooks \subseteq Channels /\ Workspaces \subseteq SUBSET Channels
    /\ Clouds \subseteq {"aws", "azure"}
    /\ MaxReceives \in Nat \ {0} /\ MaxFaults \in Nat

VARIABLES
    cloud, malformed, channels,   \* of the deployment; they never change
    place,        \* where a message is
    receives,     \* how often it was received
    notified,     \* how often a channel got an alert
    log,          \* alert_log: pairs of alert and channel with status 'sent'
    deliveries,   \* the messages in the hands of workers
    faults

rigid == <<cloud, malformed, channels>>
vars == <<rigid, place, receives, notified, log, deliveries, faults>>

(* A delivery, the nth receive of an alert: the channels it still has to   *)
(* send to, those sent to but not logged, and those that failed; does the  *)
(* next poll wait for it?                                                  *)
Delivery == [alert : Alerts, by : Workers, nth : 1..MaxReceives,
             step : {"load", "send", "end"},
             left : SUBSET Channels, unlogged : SUBSET Channels, failed : SUBSET Channels,
             awaited : BOOLEAN]

TypeOK ==
    /\ cloud \in Clouds /\ malformed \in Malformed /\ channels \in Workspaces
    /\ place \in [Alerts -> {"visible", "inFlight", "deleted", "dead"}]
    /\ receives \in [Alerts -> 0..MaxReceives]
    /\ notified \in [Alerts \X Channels -> 0..MaxReceives]
    /\ log \subseteq Alerts \X Channels
    /\ deliveries \subseteq Delivery
    /\ faults \in 0..MaxFaults

Init ==
    /\ cloud \in Clouds /\ malformed \in Malformed /\ channels \in Workspaces
    /\ place = [a \in Alerts |-> "visible"]
    /\ receives = [a \in Alerts |-> 0]
    /\ notified = [x \in Alerts \X Channels |-> 0]
    /\ log = {}
    /\ deliveries = {}
    /\ faults = 0

Current(d)  == place[d.alert] = "inFlight" /\ d.nth = receives[d.alert]
Refused(d)  == cloud = "azure" /\ ~Current(d)
HeldBy(w)   == {d \in deliveries : d.by = w}
Become(d, e) == deliveries' = (deliveries \ {d}) \cup {e}
Settle(d)   == deliveries' = deliveries \ {d}
Fault       == faults < MaxFaults /\ faults' = faults + 1

-----------------------------------------------------------------------------
(* A poll, which waits until the batch before it is done, or one of it     *)
(* rejects (Promise.all).                                                  *)
Poll(w) ==
    /\ \A d \in HeldBy(w) : ~d.awaited
    /\ \E batch \in SUBSET {a \in Alerts : place[a] = "visible" /\ receives[a] < MaxReceives} :
         /\ batch # {}
         /\ place' = [a \in Alerts |-> IF a \in batch THEN "inFlight" ELSE place[a]]
         /\ receives' = [a \in Alerts |-> receives[a] + IF a \in batch THEN 1 ELSE 0]
         /\ deliveries' = deliveries \cup
              {[alert |-> a, by |-> w, nth |-> receives[a] + 1, step |-> "load",
                left |-> {}, unlogged |-> {}, failed |-> {},
                awaited |-> TRUE] : a \in batch}
    /\ UNCHANGED <<rigid, notified, log, faults>>

(* dispatchAlerts reads the incident, the monitor and the channels; an     *)
(* alert about something that is gone is done, as is an unparseable one.   *)
Load(d) ==
    /\ d.step = "load"
    /\ Become(d, IF d.alert \in Orphans \cup malformed
                 THEN [d EXCEPT !.step = "end"]
                 ELSE [d EXCEPT !.step = "send", !.left = channels])
    /\ UNCHANGED <<rigid, place, receives, notified, log, faults>>

Notify(d, ch) == notified' = [notified EXCEPT ![<<d.alert, ch>>] = @ + 1]

(* sendToChannel, up to the log entry *)
Send(d, ch) ==
    /\ ch \in d.left
    /\ Notify(d, ch)
    /\ Become(d, [d EXCEPT !.left = @ \ {ch}, !.unlogged = @ \cup {ch}])
    /\ UNCHANGED <<rigid, place, receives, log, faults>>

(* The channel answers with an error, or times out, which the channel may  *)
(* have got all the same.  The entry 'failed' is written, or is not.       *)
SendFails(d, ch) ==
    /\ ch \in d.left
    /\ Fault
    /\ Notify(d, ch) \/ UNCHANGED notified
    /\ Become(d, [d EXCEPT !.left = @ \ {ch}, !.failed = @ \cup {ch}])
    /\ UNCHANGED <<rigid, place, receives, log>>

(* A webhook's answer of 400 or more is an error to AlertWorker, and to    *)
(* AzureAlertWorker none.                                                  *)
ErrorAnswerIgnored(d, ch) ==
    /\ cloud = "azure" /\ ch \in d.left \cap Webhooks
    /\ Fault
    /\ Become(d, [d EXCEPT !.left = @ \ {ch}, !.unlogged = @ \cup {ch}])
    /\ UNCHANGED <<rigid, place, receives, notified, log>>

LogSent(d, ch) ==
    /\ ch \in d.unlogged \ Webhooks
    /\ log' = log \cup {<<d.alert, ch>>}
    /\ Become(d, [d EXCEPT !.unlogged = @ \ {ch}])
    /\ UNCHANGED <<rigid, place, receives, notified, faults>>

(* The entry 'sent' cannot be written: the same catch makes the channel a  *)
(* failed one.                                                             *)
LogFails(d, ch) ==
    /\ ch \in d.unlogged
    /\ IF ch \in Webhooks THEN UNCHANGED faults ELSE Fault
    /\ Become(d, [d EXCEPT !.unlogged = @ \ {ch}, !.failed = @ \cup {ch}])
    /\ UNCHANGED <<rigid, place, receives, notified, log>>

(* Mutant: the results of the channels are not looked at. *)
DeletesAnyway(d) ==
    /\ d.step = "send" /\ d.left = {} /\ d.unlogged = {}
    /\ Become(d, [d EXCEPT !.step = "end"])
    /\ UNCHANGED <<rigid, place, receives, notified, log, faults>>

(* Promise.allSettled without a rejection *)
AllSent(d) ==
    /\ d.step = "send" /\ d.left = {} /\ d.unlogged = {}
    /\ d.failed = {}
    /\ Become(d, [d EXCEPT !.step = "end"])
    /\ UNCHANGED <<rigid, place, receives, notified, log, faults>>

(* ChangeMessageVisibility to 0, or an error that is ignored *)
GiveBack(d) ==
    /\ ~Refused(d)
    /\ place' = [place EXCEPT ![d.alert] = IF Current(d) THEN "visible" ELSE @]
    /\ Settle(d)
    /\ UNCHANGED <<rigid, receives, notified, log>>

(* Mutant: nothing catches the rejection, and the poll waits for ever. *)
FailedHangs(d) ==
    /\ d.step = "send" /\ d.left = {} /\ d.unlogged = {}
    /\ d.failed # {}
    /\ UNCHANGED vars

(* ... with one: the message goes back, for all of its channels. *)
SomeFailed(d) ==
    /\ d.step = "send" /\ d.left = {} /\ d.unlogged = {}
    /\ d.failed # {}
    /\ GiveBack(d)
    /\ UNCHANGED faults

(* Mutant: the message is given back after the dispatch. *)
DeleteGivesBack(d) ==
    /\ d.step = "end"
    /\ GiveBack(d)
    /\ UNCHANGED faults

(* deleteMessage: a handle that is not current any more may still work. *)
DeleteMessage(d) ==
    /\ d.step = "end" /\ ~Refused(d)
    /\ \/ place' = [place EXCEPT ![d.alert] =
                      IF @ \in {"inFlight", "visible"} THEN "deleted" ELSE @]
       \/ ~Current(d) /\ UNCHANGED place
    /\ Settle(d)
    /\ UNCHANGED <<rigid, receives, notified, log, faults>>

(* A read or the delete fails: the message goes back. *)
DispatchFails(d) ==
    /\ d.step \in {"load", "end"} /\ d.alert \notin malformed
    /\ Fault
    /\ GiveBack(d)

(* processMessage rejects: the poll sleeps and goes on, without the rest   *)
(* of its batch, which nobody awaits any more.                             *)
Rejects(d) ==
    /\ deliveries' = (deliveries \ HeldBy(d.by)) \cup
                        {[e EXCEPT !.awaited = FALSE] : e \in HeldBy(d.by) \ {d}}
    /\ UNCHANGED <<rigid, place, receives, notified, log>>

(* The delete is refused and then the abandon, or the abandon alone. *)
LockLost(d) ==
    /\ Refused(d)
    /\ d.step = "end" \/ (d.step = "send" /\ d.left = {} /\ d.unlogged = {} /\ d.failed # {})
    /\ Rejects(d)
    /\ UNCHANGED faults

(* An abandon fails, or the delete of an unparseable message. *)
SettleFails(d) ==
    /\ cloud = "azure" \/ (d.alert \in malformed /\ d.step = "end")
    /\ d.step = "load" => d.alert \notin malformed
    /\ d.step # "send" \/ (d.left = {} /\ d.unlogged = {} /\ d.failed # {})
    /\ Fault
    /\ Rejects(d)

(* The process crashes or is stopped: nothing waits for its dispatches. *)
Exit(w) ==
    /\ HeldBy(w) # {}
    /\ Fault
    /\ deliveries' = deliveries \ HeldBy(w)
    /\ UNCHANGED <<rigid, place, receives, notified, log>>

-----------------------------------------------------------------------------
(* The queue: VisibilityTimeout passes for a message that nobody gave back *)
(* or whose dispatch takes too long.                                       *)
Lapse(a) ==
    /\ place[a] = "inFlight"
    /\ IF \E d \in deliveries : d.alert = a /\ Current(d) THEN Fault ELSE UNCHANGED faults
    /\ place' = [place EXCEPT ![a] = "visible"]
    /\ UNCHANGED <<rigid, receives, notified, log, deliveries>>

Redrive(a) ==
    /\ place[a] = "visible" /\ receives[a] = MaxReceives
    /\ place' = [place EXCEPT ![a] = "dead"]
    /\ UNCHANGED <<rigid, receives, notified, log, deliveries, faults>>

-----------------------------------------------------------------------------
Dispatch(d) ==
    \/ Load(d) \/ AllSent(d) \/ SomeFailed(d) \/ DeleteMessage(d) \/ LockLost(d)
    \/ \E ch \in Channels : Send(d, ch) \/ LogSent(d, ch) \/ LogFails(d, ch)

Queue(a) == Lapse(a) \/ Redrive(a)

Next ==
    \/ \E w \in Workers : Poll(w) \/ Exit(w)
    \/ \E d \in deliveries : Dispatch(d) \/ DispatchFails(d) \/ SettleFails(d)
    \/ \E d \in deliveries, ch \in Channels : SendFails(d, ch) \/ ErrorAnswerIgnored(d, ch)
    \/ \E a \in Alerts : Queue(a)

Spec == Init /\ [][Next]_vars

(* Workers poll, a dispatch goes on (the channels have timeouts), and the  *)
(* queue keeps its timers.                                                 *)
Fairness ==
    /\ WF_vars(\E w \in Workers : Poll(w))
    /\ \A w \in Workers : WF_vars(\E d \in HeldBy(w) : Dispatch(d))
    /\ \A a \in Alerts : WF_vars(Queue(a))

FairSpec == Spec /\ Fairness

-----------------------------------------------------------------------------
(* An alert leaves the queue only if every channel got it and the log says *)
(* so, or if what it is about is gone: a channel that fails keeps it there *)
(* whatever the others do, through redeliveries and exits.                 *)
DeletedWasSent ==
    \A a \in Alerts \ (Orphans \cup malformed) :
        place[a] = "deleted" =>
            \A ch \in channels : notified[<<a, ch>>] >= 1 /\ <<a, ch>> \in log

(* A channel gets an alert at most once more often than something failed:  *)
(* without a failure, nobody is notified twice.  (Not so beside a webhook, *)
(* whose entry alert_log refuses.)                                         *)
RepeatsNeedFailures ==
    channels \cap Webhooks = {} =>
        \A a \in Alerts, ch \in Channels : notified[<<a, ch>>] <= faults + 1

(* Every alert is sent to all channels and deleted, or is a dead letter. *)
AlertsSettle == \A a \in Alerts : <>(place[a] \in {"deleted", "dead"})

(* With the types: an alert is on the queue or was sent (dispatchAlerts).  *)
AlertInv == TypeOK /\ DeletedWasSent
=============================================================================
