---------------------------- MODULE MonitorAdmin ----------------------------
(***************************************************************************)
(* The monitors of one workspace: clients create them up to the limit of   *)
(* the plan, change them under an optimistic lock and delete them, while   *)
(* the scheduler and the workers keep checking them and Stripe changes the *)
(* plan (module Billing).                                                  *)
(***************************************************************************)
EXTENDS Billing, FiniteSetsExt

CONSTANTS
    MaxMonitors,      \* rows of monitors (a bound)
    Creators,         \* requests that create a monitor
    Editors,          \* clients that read a monitor and then change it
    PlanLimit         \* PLAN_MONITOR_LIMITS

ASSUME MonitorAssumption ==
    /\ MaxMonitors \in Nat
    /\ PlanLimit \in [Plans \cup {"free"} -> Nat]

VARIABLES
    row,          \* of a monitor; a deleted one keeps its row (deleted_at)
    version,      \* updated_at, as a counter
    exact,        \* are its microseconds 0, so that a client can name it?
    edits,        \* the changes that clients have made to it
    incident,     \* the number of its unresolved incident, 0 for none
    acked,        \* the monitors whose unresolved incident is acknowledged
    opened,       \* how many incidents it has had: they are numbered
    acks,         \* the incidents that members have read as open to acknowledge
    create,       \* where a request stands, and the limit it has read
    editor,       \* where a client stands, with the ETag and the edits it saw
    deletion,     \* where the deletion of a monitor stands, see DeleteSweep
    found,        \* the incident that the deletion has found, 0 for none
    \* history variables
    highest,      \* the highest limit that the plan has had
    overtaken,    \* inserts by requests that had counted before another insert
    known,        \* how many incidents there were when the deletion looked
    reopened      \* those acknowledged, since it looked, after their resolution

incidentVars == <<incident, acked, opened, acks>>
deletionVars == <<deletion, found, known, reopened>>
monitorVars == <<row, version, exact, edits, create, editor, highest, overtaken, incidentVars, deletionVars>>
vars        == <<billingVars, monitorVars>>
rest        == <<plan, subId, sent, stored, webhook, answered, failures, applied, ignored>>

Monitors == 1..MaxMonitors
Rows     == {m \in Monitors : row[m] # "absent"}
NoEditor == [pc |-> "idle", monitor |-> 0, etag |-> 0, seen |-> 0]
NoCreate == [pc |-> "idle", limit |-> 0, counted |-> 0]

TypeOK ==
    /\ BillingTypeOK
    /\ row \in [Monitors -> {"absent", "live", "deleted"}]
    /\ version \in [Monitors -> 0..MaxOperations]
    /\ exact \in [Monitors -> BOOLEAN]
    /\ edits \in [Monitors -> 0..MaxOperations]
    /\ incident \in [Monitors -> Nat] /\ acked \subseteq Monitors
    /\ acks \subseteq [monitor : Monitors, incident : Nat, before : BOOLEAN]
    /\ \A r \in Creators : create[r].pc \in {"idle", "limited", "counted"}
    /\ \A c \in Editors : editor[c].pc \in {"idle", "read", "checked", "blind"}
    /\ deletion \in [Monitors -> {"idle", "got", "selected", "holding"}]
    /\ found \in [Monitors -> Nat]
    /\ \A m \in Monitors : incident[m] <= opened[m] /\ (incident[m] # 0 => row[m] # "absent")

Init ==
    /\ BillingInit
    /\ row = [m \in Monitors |-> "absent"]
    /\ version = [m \in Monitors |-> 0]
    /\ exact = [m \in Monitors |-> FALSE]
    /\ edits = [m \in Monitors |-> 0]
    /\ incident = [m \in Monitors |-> 0] /\ acked = {} /\ acks = {}
    /\ opened = [m \in Monitors |-> 0]
    /\ create = [r \in Creators |-> NoCreate]
    /\ editor = [c \in Editors |-> NoEditor]
    /\ deletion = [m \in Monitors |-> "idle"] /\ found = [m \in Monitors |-> 0]
    /\ highest = PlanLimit["free"] /\ overtaken = 0
    /\ known = [m \in Monitors |-> 0] /\ reopened = [m \in Monitors |-> {}]

-----------------------------------------------------------------------------
(* MonitorService.create *)

(* The plan is read ... *)
CreateFindWorkspace(r) ==
    /\ create[r].pc = "idle" /\ Spend(1)
    /\ create' = [create EXCEPT ![r] = [pc |-> "limited", limit |-> PlanLimit[plan], counted |-> 0]]
    /\ highest' = IF PlanLimit[plan] > highest THEN PlanLimit[plan] ELSE highest
    /\ UNCHANGED <<rest, row, version, exact, edits, incidentVars, editor, deletionVars, overtaken>>

(* ... and the monitors are counted, the deleted ones with them ... *)
CreateCount(r) ==
    /\ create[r].pc = "limited"
    /\ create' = [create EXCEPT ![r] = IF Cardinality(Rows) >= create[r].limit THEN NoCreate
                                       ELSE [pc |-> "counted", limit |-> create[r].limit, counted |-> Cardinality(Rows)]]
    /\ UNCHANGED <<rest, budget, row, version, exact, edits, incidentVars, editor, deletionVars, highest, overtaken>>

(* INSERT INTO monitors, RETURNING its updated_at *)
InsertMonitor(m) ==
    /\ row' = [row EXCEPT ![m] = "live"]
    /\ \E e \in BOOLEAN : exact' = [exact EXCEPT ![m] = e]

(* ... before the row is inserted. *)
CreateInsert(r) ==
    /\ create[r].pc = "counted" /\ Rows # Monitors
    /\ InsertMonitor(Min(Monitors \ Rows))
    /\ overtaken' = IF create[r].counted < Cardinality(Rows) THEN overtaken + 1 ELSE overtaken
    /\ create' = [create EXCEPT ![r] = NoCreate]
    /\ UNCHANGED <<rest, budget, version, edits, incidentVars, editor, deletionVars, highest>>

-----------------------------------------------------------------------------
(* The transaction of a deletion holds the lock of the row. *)
Locked(m) == deletion[m] \in {"selected", "holding"}

(* The row of a monitor is written: the trigger sets updated_at. *)
Write(m) ==
    /\ version' = [version EXCEPT ![m] = @ + 1]
    /\ \E e \in BOOLEAN : exact' = [exact EXCEPT ![m] = e]

(* A client reads a monitor.  The JSON has milliseconds: unless the        *)
(* microseconds are 0, the ETag names no version (0).                      *)
GetMonitor(c, m) ==
    /\ editor[c].pc = "idle" /\ row[m] = "live" /\ Spend(1)
    /\ editor' = [editor EXCEPT ![c] = [pc |-> "read", monitor |-> m, seen |-> edits[m],
                                       etag |-> IF exact[m] THEN version[m] + 1 ELSE 0]]
    /\ UNCHANGED <<rest, row, version, exact, edits, incidentVars, create, deletionVars, highest, overtaken>>

(* PATCH, with If-Match or without.  update() first gets the monitor: 404  *)
(* if it is deleted.                                                       *)
PatchGet(c) ==
    /\ editor[c].pc = "read"
    /\ \E pc \in {"checked", "blind"} :
          editor' = [editor EXCEPT ![c] = IF row[editor[c].monitor] = "live" THEN [@ EXCEPT !.pc = pc] ELSE NoEditor]
    /\ UNCHANGED <<rest, budget, row, version, exact, edits, incidentVars, create, deletionVars, highest, overtaken>>

Patch(c) ==
    LET m == editor[c].monitor IN
    /\ ~Locked(m)
    /\ edits' = [edits EXCEPT ![m] = @ + 1]
    /\ Write(m)
    /\ editor' = [editor EXCEPT ![c] = NoEditor]
    /\ UNCHANGED <<rest, budget, row, incidentVars, create, deletionVars, highest, overtaken>>

Matches(c) == exact[editor[c].monitor] /\ editor[c].etag = version[editor[c].monitor] + 1

(* Mutant: the UPDATE only looks for the row. *)
PatchOverwrites(c) == editor[c].pc = "checked" /\ Patch(c)

(* With If-Match the row is changed if it is still the version of the ETag *)
PatchUpdate(c) == editor[c].pc = "checked" /\ Matches(c) /\ Patch(c)

(* ... and answered with 409 if it is not; ... *)
PatchConflict(c) ==
    /\ editor[c].pc = "checked" /\ ~Matches(c) /\ ~Locked(editor[c].monitor)
    /\ editor' = [editor EXCEPT ![c] = NoEditor]
    /\ UNCHANGED <<rest, budget, row, version, exact, edits, incidentVars, create, deletionVars, highest, overtaken>>

(* ... without, it is changed as it is, deleted or not. *)
PatchBlind(c) == editor[c].pc = "blind" /\ Patch(c)

(* findDue and updateLastCheckedAt: a check writes the row, of a deleted   *)
(* monitor too.                                                            *)
Check(m) ==
    /\ row[m] # "absent" /\ ~Locked(m) /\ Spend(1)
    /\ Write(m)
    /\ UNCHANGED <<rest, row, edits, incidentVars, create, editor, deletionVars, highest, overtaken>>

-----------------------------------------------------------------------------
(* The incidents of a monitor: at most one is unresolved, as the unique    *)
(* index has it.                                                           *)

(* The deletion has written the incident's row and not committed yet. *)
Held(m, i) == deletion[m] = "holding" /\ found[m] = i

(* The evaluation of a result opens an incident ... *)
Open(m) ==
    /\ row[m] # "absent" /\ incident[m] = 0 /\ Spend(1)
    /\ opened' = [opened EXCEPT ![m] = @ + 1]
    /\ incident' = [incident EXCEPT ![m] = opened[m] + 1]
    /\ acked' = acked \ {m}
    /\ UNCHANGED <<rest, row, version, exact, edits, acks, create, editor, deletionVars, highest, overtaken>>

(* ... or resolves it, as a member may. *)
Resolve(m) ==
    /\ incident[m] # 0 /\ ~Held(m, incident[m]) /\ Spend(1)
    /\ incident' = [incident EXCEPT ![m] = 0]
    /\ UNCHANGED <<rest, row, version, exact, edits, acked, opened, acks, create, editor, deletionVars, highest, overtaken>>

(* A member who acknowledges it reads it as open (before: its monitor is   *)
(* not deleted yet) ...                                                    *)
AckGet(m) ==
    /\ incident[m] # 0 /\ m \notin acked /\ Spend(1)
    /\ acks' = acks \cup {[monitor |-> m, incident |-> incident[m], before |-> row[m] # "deleted"]}
    /\ UNCHANGED <<rest, row, version, exact, edits, incident, acked, opened, create, editor, deletionVars, highest, overtaken>>

(* ... and then updates its row, whatever its status is by then: what was  *)
(* resolved in between is unresolved again, if the index allows it.        *)
AckUpdate(a) ==
    LET m == a.monitor IN
    /\ incident[m] \in {0, a.incident} /\ ~Held(m, a.incident)
    /\ incident' = [incident EXCEPT ![m] = a.incident]
    /\ acked' = acked \cup {m}
    /\ reopened' = [reopened EXCEPT ![m] = IF incident[m] = 0 /\ a.before THEN @ \cup {a.incident} ELSE @]
    /\ UNCHANGED <<rest, budget, row, version, exact, edits, opened, acks, create, editor, deletion, found, known,
                   highest, overtaken>>

-----------------------------------------------------------------------------
(* MonitorService.delete *)
DeleteGet(m) ==
    /\ row[m] = "live" /\ deletion[m] = "idle" /\ Spend(1)
    /\ deletion' = [deletion EXCEPT ![m] = "got"]
    /\ UNCHANGED <<rest, row, version, exact, edits, incidentVars, create, editor, found, known, reopened, highest, overtaken>>

(* The transaction marks the row, whose lock it holds from then on, and    *)
(* looks for the unresolved incident, which it does not lock ...           *)
Sweep(m, i) ==
    /\ deletion[m] = "got"
    /\ deletion' = [deletion EXCEPT ![m] = "selected"]
    /\ found' = [found EXCEPT ![m] = i]
    /\ known' = [known EXCEPT ![m] = opened[m]]
    /\ reopened' = [reopened EXCEPT ![m] = {}]
    /\ UNCHANGED <<rest, budget, row, version, exact, edits, incidentVars, create, editor, highest, overtaken>>

(* Mutant: acknowledged incidents are left. *)
DeleteSweepOpen(m) == Sweep(m, IF m \in acked THEN 0 ELSE incident[m])

DeleteSweep(m) == Sweep(m, incident[m])

(* ... before it resolves what it has found ... *)
DeleteResolve(m) ==
    /\ deletion[m] = "selected" /\ found[m] # 0
    /\ deletion' = [deletion EXCEPT ![m] = "holding"]
    /\ UNCHANGED <<rest, budget, row, version, exact, edits, incidentVars, create, editor, found, known, reopened,
                   highest, overtaken>>

(* ... and commits both, *)
DeleteCommit(m) ==
    /\ deletion[m] = IF found[m] = 0 THEN "selected" ELSE "holding"
    /\ deletion' = [deletion EXCEPT ![m] = "idle"]
    /\ row' = [row EXCEPT ![m] = "deleted"]
    /\ incident' = [incident EXCEPT ![m] = IF @ = found[m] THEN 0 ELSE @]
    /\ found' = [found EXCEPT ![m] = 0]
    /\ Write(m)
    /\ UNCHANGED <<rest, budget, edits, acked, opened, acks, create, editor, known, reopened, highest, overtaken>>

(* ... or fails, and rolls both back. *)
DeleteFails(m) ==
    /\ Locked(m) /\ failures < MaxFailures
    /\ failures' = failures + 1
    /\ deletion' = [deletion EXCEPT ![m] = "idle"]
    /\ found' = [found EXCEPT ![m] = 0]
    /\ UNCHANGED <<plan, subId, sent, stored, webhook, answered, applied, ignored, budget,
                   row, version, exact, edits, incidentVars, create, editor, known, reopened, highest, overtaken>>

MonitorNext ==
    \/ \E r \in Creators : CreateFindWorkspace(r) \/ CreateCount(r) \/ CreateInsert(r)
    \/ \E c \in Editors : PatchGet(c) \/ PatchUpdate(c) \/ PatchConflict(c) \/ PatchBlind(c) \/ \E m \in Monitors : GetMonitor(c, m)
    \/ \E m \in Monitors : Check(m) \/ Open(m) \/ Resolve(m) \/ AckGet(m)
    \/ \E a \in acks : AckUpdate(a)
    \/ \E m \in Monitors : DeleteGet(m) \/ DeleteSweep(m) \/ DeleteResolve(m) \/ DeleteCommit(m) \/ DeleteFails(m)

Next ==
    \/ MonitorNext
    \/ BillingNext /\ UNCHANGED monitorVars

Spec == Init /\ [][Next]_vars

-----------------------------------------------------------------------------
(* The plan's limit is passed by as many monitors as were inserted on a    *)
(* count that another request had already made stale, and by no more.      *)
PlanLimitHolds == Cardinality(Rows) <= highest + overtaken

(* No client that sends If-Match overwrites a change that it has not seen, *)
(* however often the scheduler writes the row in between.                  *)
NoLostUpdate ==
    [][\A c \in Editors :
          LET m == editor[c].monitor IN
          (editor[c].pc = "checked" /\ edits'[m] > edits[m] /\ editor'[c].pc = "idle") => editor[c].seen = edits[m]]_vars

(* An unresolved incident of a deleted monitor was opened after the        *)
(* deletion had looked, by a check under way or by one of the checks that  *)
(* go on; or it was acknowledged after its resolution, by a member who had *)
(* read it before the monitor was deleted.                                 *)
DeletionResolves ==
    \A m \in Monitors :
        row[m] = "deleted" /\ incident[m] # 0 => incident[m] > known[m] \/ incident[m] \in reopened[m]

(* With the types: an event is applied to the plan once, and the plan      *)
(* limits the monitors (handleWebhook, create).                            *)
AdminInv == TypeOK /\ AppliedOnce /\ PlanLimitHolds
=============================================================================
