------------------------- MODULE IncidentLifecycle -------------------------
(***************************************************************************)
(* How incidents of one workspace are opened, acknowledged, grouped,       *)
(* resolved and announced.  Three kinds of process share the incidents     *)
(* table and interleave at every await of the code:                        *)
(*                                                                         *)
(*   - Workers    run IncidentEvaluator.evaluate at the end of a check     *)
(*                job (CheckWorker.executeCheck);                          *)
(*   - DeadLetterWorkers run DLQWorker.handleDeadLetter;                   *)
(*   - Clients    are API requests in IncidentService.acknowledge/resolve. *)
(*                                                                         *)
(* An incident is a row of the table.  Row ids are numbered in the order   *)
(* of started_at; a row that is not there yet has the status "unused".     *)
(***************************************************************************)
EXTENDS Naturals, FiniteSets

CONSTANTS
    Monitors,            \* the monitors of the workspace
    Workers,             \* check jobs that may be evaluated at the same time
    DeadLetterWorkers,   \* DLQ workers
    Clients,             \* API requests that may be served at the same time
    MaxIncidents,        \* rows of the incidents table (a bound)
    MaxGroups,           \* rows of incident_groups (a bound)
    None,                \* null
    Results,             \* the check results that occur
    InMaintenance,       \* the answers isInMaintenance may give
    Required,            \* INCIDENT_CONSECUTIVE_FAILURES_REQUIRED
    GroupThreshold,      \* GROUP_THRESHOLD
    MaxFaults,           \* how many times a process is cut short (a bound)
    RecentCanExpire,     \* may Redis expire monitor:<id>:recent between checks?
    GroupWindowCloses    \* may GROUP_WINDOW_SECONDS pass?

Incidents == 1..MaxIncidents
Groups    == 1..MaxGroups

ASSUME ProcessAssumption ==
    /\ Workers \cap DeadLetterWorkers = {}
    /\ Workers \cap Clients = {}
    /\ DeadLetterWorkers \cap Clients = {}
    /\ None \notin Workers \cup DeadLetterWorkers \cup Clients
    /\ None \notin Monitors \cup Nat

ASSUME ConfigAssumption ==
    /\ Results \subseteq {"up", "degraded", "down"}
    /\ "up" \in Results
    /\ InMaintenance \subseteq BOOLEAN /\ FALSE \in InMaintenance
    /\ Required \in 1..10
    /\ MaxIncidents \in Nat /\ MaxGroups \in Nat
    /\ GroupThreshold \in Nat
    /\ MaxFaults \in Nat
    /\ RecentCanExpire \in BOOLEAN
    /\ GroupWindowCloses \in BOOLEAN

Processes == Workers \cup DeadLetterWorkers \cup Clients

VARIABLES
    streak,        \* leading results other than "up" in monitor:<id>:recent
    incident,      \* the incidents table
    group,         \* the incident_groups table
    timeline,      \* incident_timeline: the kinds of entry each incident has
    alerts,        \* the alert jobs that were put on the queue for each incident
    insertLock,    \* holder of the advisory lock of a monitor
    groupLock,     \* holder of the advisory lock of the workspace's groups
    job,           \* where each process is, and what it has read
    faults         \* processes cut short so far

vars == <<streak, incident, group, timeline, alerts, insertLock, groupLock,
          job, faults>>

locks == <<insertLock, groupLock>>

-----------------------------------------------------------------------------
(* Types                                                                   *)

Entries    == {"detected", "deadLettered", "acknowledged", "recovered", "manual"}
AlertKinds == {"opened", "resolved"}

Row == [status  : {"unused", "open", "acknowledged", "resolved"},
        monitor : Monitors \cup {None},
        ended   : BOOLEAN,                \* resolved_at IS NOT NULL
        group   : Groups \cup {None},
        recent  : BOOLEAN]                \* started within GROUP_WINDOW_SECONDS

OpeningSteps == {"opened", "grouping", "grouped", "announceOpened"}
ClosingSteps == {"resolved", "counted", "closing", "announceResolved"}

Step == {"idle", "pushed", "mustOpen", "mustResolve", "inserting"}
          \cup OpeningSteps \cup ClosingSteps
          \cup {"dlqRead", "dlqInserted"}
          \cup {"ackRead", "acked", "manualRead", "manualResolved"}

Job == [step    : Step,
        monitor : Monitors \cup {None},
        status  : Results \cup {None},
        failing : BOOLEAN,                       \* allFailing
        incident: Incidents \cup {None},         \* the row being worked on
        group   : Groups \cup {None},            \* existingGroupId, resolved.groupId
        batch   : SUBSET Incidents]              \* maybeGroup's `recent`

IdleJob == [step |-> "idle", monitor |-> None, status |-> None,
            failing |-> FALSE, incident |-> None, group |-> None, batch |-> {}]

TypeOK ==
    /\ streak \in [Monitors -> 0..Required]
    /\ incident \in [Incidents -> Row]
    /\ group \in [Groups -> {"unused", "active", "resolved"}]
    /\ timeline \in [Incidents -> SUBSET Entries]
    /\ alerts \in [Incidents -> SUBSET AlertKinds]
    /\ insertLock \in [Monitors -> Processes \cup {None}]
    /\ groupLock \in Workers \cup {None}
    /\ job \in [Processes -> Job]
    /\ faults \in Nat

-----------------------------------------------------------------------------
(* What the queries of the repositories return                             *)

Unresolved(i) == incident[i].status \in {"open", "acknowledged"}

(* SELECT ... WHERE monitor_id = $1 AND status != 'resolved' *)
OpenOf(m) == {i \in Incidents : incident[i].monitor = m /\ Unresolved(i)}

(* SELECT ... WHERE started_at >= NOW() - 60 s AND status != 'resolved' *)
RecentlyOpened == {i \in Incidents : Unresolved(i) /\ incident[i].recent}

(* Mutant: the index was never created. *)
NoUniqueIndex(i, m) == TRUE

(* The partial unique index of migration 008: one row of a monitor in      *)
(* status open or acknowledged.                                            *)
IndexAdmits(i, m) == OpenOf(m) \subseteq {i}

-----------------------------------------------------------------------------
(* Steps of a process                                                      *)

At(p, s)     == job[p].step = s
Goto(p, s)   == job' = [job EXCEPT ![p].step = s]
Leave(p)     == job' = [job EXCEPT ![p] = IdleJob]

(* Go on with row i; what was read before is not used any more. *)
Resume(p, s, i, g) ==
    job' = [job EXCEPT ![p] = [IdleJob EXCEPT !.step = s, !.incident = i,
                                              !.group = g]]
Note(i, e)   == timeline' = [timeline EXCEPT ![i] = @ \cup {e}]

Init ==
    /\ streak = [m \in Monitors |-> 0]
    /\ incident = [i \in Incidents |->
                     [status |-> "unused", monitor |-> None, ended |-> FALSE,
                      group |-> None, recent |-> FALSE]]
    /\ group = [g \in Groups |-> "unused"]
    /\ timeline = [i \in Incidents |-> {}]
    /\ alerts = [i \in Incidents |-> {}]
    /\ insertLock = [m \in Monitors |-> None]
    /\ groupLock = None
    /\ job = [p \in Processes |-> IdleJob]
    /\ faults = 0

-----------------------------------------------------------------------------
(* The check job: IncidentEvaluator.evaluate                               *)

(* What the next push finds in the list: EXPIRE removes it 600 s after the *)
(* last one.                                                               *)
RecentRuns(m) == IF RecentCanExpire THEN {streak[m], 0} ELSE {streak[m]}

Pushed(w, m, r, allFailing) ==
    job' = [job EXCEPT ![w] = [IdleJob EXCEPT !.step = "pushed", !.monitor = m,
                                              !.status = r, !.failing = allFailing]]

(* Mutant: LTRIM is forgotten. *)
PushUntrimmed(w, m, r) ==
    /\ At(w, "idle")
    /\ \E before \in RecentRuns(m) :
          streak' = [streak EXCEPT ![m] = IF r = "up" THEN 0 ELSE before + 1]
    /\ Pushed(w, m, r, streak'[m] >= Required)
    /\ UNCHANGED <<incident, group, timeline, alerts, locks, faults>>

(* The check of a job of monitor m returned r and evaluate pushes it:      *)
(* PUSH_AND_GET_LUA keeps the last Required results and returns them; all  *)
(* of them fail iff the leading run of failures has length Required.       *)
(* Evaluations of one monitor overlap: several regions, a backlog, a       *)
(* redelivered job.                                                        *)
PushResult(w, m, r) ==
    /\ At(w, "idle")
    /\ \E before \in RecentRuns(m) :
          streak' = [streak EXCEPT ![m] = IF r = "up" THEN 0
                                         ELSE IF before < Required THEN before + 1
                                         ELSE Required]
    /\ Pushed(w, m, r, streak'[m] = Required)
    /\ UNCHANGED <<incident, group, timeline, alerts, locks, faults>>

(* findOpenByMonitorId: the latest unresolved incident, or null. *)
OpenIncident(m, i) == \/ i \in OpenOf(m) /\ \A j \in OpenOf(m) : j <= i
                      \/ i = None /\ OpenOf(m) = {}

(* Mutant: an open incident ends the evaluation before the recovery branch. *)
DecideWithEarlyReturn(w) ==
    LET m == job[w].monitor IN
    /\ At(w, "pushed")
    /\ \E open \in Incidents \cup {None}, paused \in InMaintenance :
          /\ OpenIncident(m, open)
          /\ job' = [job EXCEPT ![w] =
                IF job[w].failing /\ open = None /\ ~paused
                THEN [IdleJob EXCEPT !.step = "mustOpen", !.monitor = m]
                ELSE IdleJob]
    /\ UNCHANGED <<streak, incident, group, timeline, alerts, locks, faults>>

(* Read the open incident and isInMaintenance, in parallel, and decide.    *)
(* Maintenance windows begin and end at any time: paused may be anything.  *)
Decide(w) ==
    LET m == job[w].monitor IN
    /\ At(w, "pushed")
    /\ \E open \in Incidents \cup {None}, paused \in InMaintenance :
          /\ OpenIncident(m, open)
          /\ job' = [job EXCEPT ![w] =
                IF job[w].failing /\ open = None /\ ~paused
                THEN [IdleJob EXCEPT !.step = "mustOpen", !.monitor = m]
                ELSE IF job[w].status = "up" /\ open # None
                THEN [IdleJob EXCEPT !.step = "mustResolve", !.incident = open]
                ELSE IdleJob]
    /\ UNCHANGED <<streak, incident, group, timeline, alerts, locks, faults>>

-----------------------------------------------------------------------------
(* IncidentRepository.insert, called by the evaluator and the DLQ worker   *)

MayInsert(p) == At(p, "mustOpen") \/ At(p, "dlqRead")

AfterInsert(p) == IF p \in Workers THEN "opened" ELSE "dlqInserted"

NextRow(i) == /\ incident[i].status = "unused"
              /\ \A j \in 1..(i - 1) : incident[j].status # "unused"

SpareRow == \E i \in Incidents : incident[i].status = "unused"

(* BEGIN; advisory lock; SELECT finds an unresolved row; COMMIT.  The      *)
(* caller gets that row and goes on as if it had inserted it.              *)
InsertFindsExisting(p) ==
    /\ MayInsert(p)
    /\ insertLock[job[p].monitor] = None
    /\ \E i \in OpenOf(job[p].monitor) :
          Resume(p, AfterInsert(p), i, None)
    /\ UNCHANGED <<streak, incident, group, timeline, alerts,
                   locks, faults>>

(* BEGIN; advisory lock; SELECT finds nothing: the transaction stays open. *)
InsertFindsNone(p) ==
    /\ MayInsert(p)
    /\ insertLock[job[p].monitor] = None
    /\ OpenOf(job[p].monitor) = {}
    /\ insertLock' = [insertLock EXCEPT ![job[p].monitor] = p]
    /\ job' = [job EXCEPT ![p] = [IdleJob EXCEPT !.step = "inserting",
                                                 !.monitor = job[p].monitor]]
    /\ UNCHANGED <<streak, incident, group, timeline, alerts,
                   groupLock, faults>>

(* INSERT; COMMIT, which releases the lock. *)
InsertRow(p) ==
    LET m == job[p].monitor IN
    /\ At(p, "inserting")
    /\ \E i \in Incidents :
          /\ NextRow(i)
          /\ IndexAdmits(i, m)
          /\ incident' = [incident EXCEPT
                            ![i] = [status |-> "open", monitor |-> m,
                                    ended |-> FALSE, group |-> None,
                                    recent |-> TRUE]]
          /\ Resume(p, AfterInsert(p), i, None)
    /\ insertLock' = [insertLock EXCEPT ![m] = None]
    /\ UNCHANGED <<streak, group, timeline, alerts, groupLock,
                   faults>>

(* INSERT violates the unique index, or (bound) there is no row id left:   *)
(* ROLLBACK, and the error fails the job, which the queue delivers again.  *)
InsertCollides(p) ==
    /\ At(p, "inserting")
    /\ OpenOf(job[p].monitor) # {} \/ ~SpareRow
    /\ insertLock' = [insertLock EXCEPT ![job[p].monitor] = None]
    /\ Leave(p)
    /\ UNCHANGED <<streak, incident, group, timeline, alerts,
                   groupLock, faults>>

-----------------------------------------------------------------------------
(* The rest of the opening branch: maybeGroup, timeline, alert             *)

(* Mutant: without a group the evaluator returns. *)
ReturnsWithoutGroup(w) ==
    /\ At(w, "opened")
    /\ groupLock = None
    /\ Cardinality(RecentlyOpened) < GroupThreshold
    /\ Leave(w)
    /\ UNCHANGED <<streak, incident, group, timeline, alerts, locks, faults>>

(* maybeGroup below the threshold: ROLLBACK, null. *)
GroupNotNeeded(w) ==
    /\ At(w, "opened")
    /\ groupLock = None
    /\ Cardinality(RecentlyOpened) < GroupThreshold
    /\ Goto(w, "grouped")
    /\ UNCHANGED <<streak, incident, group, timeline, alerts,
                   locks, faults>>

GroupsOf(S) == {incident[i].group : i \in S} \ {None}

(* Mutant: maybeGroup does not wait for the workspace lock. *)
GroupWithoutLock(w) ==
    /\ At(w, "opened")
    /\ Cardinality(RecentlyOpened) >= GroupThreshold
    /\ \E g \in IF GroupsOf(RecentlyOpened) = {} THEN {None}
                ELSE GroupsOf(RecentlyOpened) :
          job' = [job EXCEPT ![w].step = "grouping", ![w].group = g,
                             ![w].batch = RecentlyOpened]
    /\ UNCHANGED <<streak, incident, group, timeline, alerts, locks, faults>>

(* maybeGroup takes the workspace lock, reads the recent incidents and     *)
(* takes the group of one that has a group.                                *)
GroupBegin(w) ==
    /\ At(w, "opened")
    /\ groupLock = None
    /\ Cardinality(RecentlyOpened) >= GroupThreshold
    /\ groupLock' = w
    /\ \E g \in IF GroupsOf(RecentlyOpened) = {} THEN {None}
                ELSE GroupsOf(RecentlyOpened) :
          job' = [job EXCEPT ![w].step = "grouping", ![w].group = g,
                             ![w].batch = RecentlyOpened]
    /\ UNCHANGED <<streak, incident, group, timeline, alerts, insertLock, faults>>

(* existingGroupId: the new incident joins that group. *)
GroupJoin(w) ==
    /\ At(w, "grouping") /\ job[w].group # None
    /\ incident' = [incident EXCEPT ![job[w].incident].group = job[w].group]
    /\ groupLock' = None
    /\ Resume(w, "grouped", job[w].incident, None)
    /\ UNCHANGED <<streak, group, timeline, alerts, insertLock, faults>>

(* None: a new group for all of them and the new one. *)
GroupCreate(w) ==
    LET members == job[w].batch \cup {job[w].incident} IN
    /\ At(w, "grouping") /\ job[w].group = None
    /\ \E g \in Groups :
          /\ group[g] = "unused"
          /\ \A h \in 1..(g - 1) : group[h] # "unused"
          /\ group' = [group EXCEPT ![g] = "active"]
          /\ incident' = [i \in Incidents |->
                            IF i \in members
                            THEN [incident[i] EXCEPT !.group = g]
                            ELSE incident[i]]
    /\ groupLock' = None
    /\ Resume(w, "grouped", job[w].incident, None)
    /\ UNCHANGED <<streak, timeline, alerts, insertLock, faults>>

(* maybeGroup fails: ROLLBACK; the evaluator logs the error and goes on.   *)
(* (Bound: it also does when there is no group id left.)                   *)
GroupFails(w) ==
    /\ At(w, "opened") \/ At(w, "grouping")
    /\ \/ faults < MaxFaults /\ faults' = faults + 1
       \/ /\ At(w, "grouping")
          /\ \A g \in Groups : group[g] # "unused"
          /\ UNCHANGED faults
    /\ groupLock' = IF groupLock = w THEN None ELSE groupLock
    /\ Resume(w, "grouped", job[w].incident, None)
    /\ UNCHANGED <<streak, incident, group, timeline, alerts,
                   insertLock>>

NoteDetected(w) ==
    /\ At(w, "grouped")
    /\ Note(job[w].incident, "detected")
    /\ Goto(w, "announceOpened")
    /\ UNCHANGED <<streak, incident, group, alerts, locks, faults>>

(* enqueueAlert.  (A send that the queue rejects throws: see Abort.) *)
SendAlert(p, i, kind) ==
    /\ alerts' = [alerts EXCEPT ![i] = @ \cup {kind}]
    /\ Leave(p)
    /\ UNCHANGED <<streak, incident, group, timeline, locks, faults>>

EnqueueOpened(w) ==
    /\ At(w, "announceOpened")
    /\ SendAlert(w, job[w].incident, "opened")

-----------------------------------------------------------------------------
(* The resolving branch: resolve, resolveGroup, timeline, alert            *)

(* UPDATE incidents SET status = 'resolved' WHERE id = $1: whatever the    *)
(* row has become since it was read.                                       *)
SetResolved(i) ==
    incident' = [incident EXCEPT ![i].status = "resolved", ![i].ended = TRUE]

(* Mutant: without a group the evaluator returns. *)
ResolveEndsWithoutGroup(w) ==
    LET i == job[w].incident IN
    /\ At(w, "mustResolve")
    /\ SetResolved(i)
    /\ IF incident[i].group = None THEN Leave(w)
       ELSE Resume(w, "resolved", i, incident[i].group)
    /\ UNCHANGED <<streak, group, timeline, alerts, locks, faults>>

(* Mutant: the alert goes out before the timeline entry. *)
ResolveAlertsFirst(w) ==
    LET i == job[w].incident IN
    /\ At(w, "mustResolve")
    /\ SetResolved(i)
    /\ Resume(w, "announceResolved", i, None)
    /\ UNCHANGED <<streak, group, timeline, alerts, locks, faults>>

ResolveRow(w) ==
    LET i == job[w].incident IN
    /\ At(w, "mustResolve")
    /\ SetResolved(i)
    /\ Resume(w, IF incident[i].group = None THEN "closing" ELSE "resolved",
              i, incident[i].group)
    /\ UNCHANGED <<streak, group, timeline, alerts, locks, faults>>

(* resolveGroup counts the unresolved incidents of the group...            *)
CountGroup(w) ==
    /\ At(w, "resolved")
    /\ Goto(w, IF \E i \in Incidents : incident[i].group = job[w].group /\ Unresolved(i)
               THEN "closing" ELSE "counted")
    /\ UNCHANGED <<streak, incident, group, timeline, alerts,
                   locks, faults>>

(* ... and if it saw none marks the group resolved, in a second statement. *)
ResolveGroup(w) ==
    /\ At(w, "counted")
    /\ group' = [group EXCEPT ![job[w].group] = "resolved"]
    /\ Goto(w, "closing")
    /\ UNCHANGED <<streak, incident, timeline, alerts, locks, faults>>

(* resolveGroup fails: the evaluator logs the error and goes on. *)
ResolveGroupFails(w) ==
    /\ At(w, "resolved") \/ At(w, "counted")
    /\ faults < MaxFaults
    /\ faults' = faults + 1
    /\ Goto(w, "closing")
    /\ UNCHANGED <<streak, incident, group, timeline, alerts, locks>>

NoteRecovered(w) ==
    /\ At(w, "closing")
    /\ Note(job[w].incident, "recovered")
    /\ Goto(w, "announceResolved")
    /\ UNCHANGED <<streak, incident, group, alerts, locks, faults>>

EnqueueResolved(w) ==
    /\ At(w, "announceResolved")
    /\ SendAlert(w, job[w].incident, "resolved")

-----------------------------------------------------------------------------
(* DLQWorker.handleDeadLetter                                              *)

(* A dead letter of monitor m; no unresolved incident: insert one.  (With  *)
(* one, the handler changes nothing of this module and deletes the         *)
(* message.)                                                               *)
DeadLetter(d, m) ==
    /\ At(d, "idle")
    /\ OpenOf(m) = {}
    /\ job' = [job EXCEPT ![d] = [IdleJob EXCEPT !.step = "dlqRead",
                                                 !.monitor = m]]
    /\ UNCHANGED <<streak, incident, group, timeline, alerts,
                   locks, faults>>

NoteDeadLettered(d) ==
    /\ At(d, "dlqInserted")
    /\ Note(job[d].incident, "deadLettered")
    /\ Leave(d)
    /\ UNCHANGED <<streak, incident, group, alerts, locks, faults>>

-----------------------------------------------------------------------------
(* IncidentService.acknowledge and resolve: get, check, UPDATE, timeline   *)

AckGet(c, i) ==
    /\ At(c, "idle")
    /\ incident[i].status = "open"
    /\ job' = [job EXCEPT ![c] = [IdleJob EXCEPT !.step = "ackRead",
                                                 !.incident = i]]
    /\ UNCHANGED <<streak, incident, group, timeline, alerts,
                   locks, faults>>

(* UPDATE ... SET status = 'acknowledged' WHERE id = $1 *)
AckUpdate(c) ==
    LET i == job[c].incident IN
    /\ At(c, "ackRead")
    /\ IndexAdmits(i, incident[i].monitor)
    /\ incident' = [incident EXCEPT ![i].status = "acknowledged"]
    /\ Goto(c, "acked")
    /\ UNCHANGED <<streak, group, timeline, alerts, locks, faults>>

(* The index rejects the UPDATE: another incident of the monitor is open. *)
AckCollides(c) ==
    LET i == job[c].incident IN
    /\ At(c, "ackRead")
    /\ ~IndexAdmits(i, incident[i].monitor)
    /\ Leave(c)
    /\ UNCHANGED <<streak, incident, group, timeline, alerts,
                   locks, faults>>

NoteAcknowledged(c) ==
    /\ At(c, "acked")
    /\ Note(job[c].incident, "acknowledged")
    /\ Leave(c)
    /\ UNCHANGED <<streak, incident, group, alerts, locks, faults>>

ManualGet(c, i) ==
    /\ At(c, "idle")
    /\ Unresolved(i)
    /\ job' = [job EXCEPT ![c] = [IdleJob EXCEPT !.step = "manualRead",
                                                 !.incident = i]]
    /\ UNCHANGED <<streak, incident, group, timeline, alerts,
                   locks, faults>>

ManualUpdate(c) ==
    /\ At(c, "manualRead")
    /\ SetResolved(job[c].incident)
    /\ Goto(c, "manualResolved")
    /\ UNCHANGED <<streak, group, timeline, alerts, locks, faults>>

NoteManual(c) ==
    /\ At(c, "manualResolved")
    /\ Note(job[c].incident, "manual")
    /\ Leave(c)
    /\ UNCHANGED <<streak, incident, group, alerts, locks, faults>>

-----------------------------------------------------------------------------
(* The environment                                                         *)

(* An exception or a crash cuts a process short at any await.  PostgreSQL  *)
(* rolls its open transaction back, which releases its advisory lock; what *)
(* it committed before stays.                                              *)
Abort(p) ==
    /\ ~At(p, "idle")
    /\ faults < MaxFaults
    /\ faults' = faults + 1
    /\ Leave(p)
    /\ insertLock' = [m \in Monitors |->
                        IF insertLock[m] = p THEN None ELSE insertLock[m]]
    /\ groupLock' = IF groupLock = p THEN None ELSE groupLock
    /\ UNCHANGED <<streak, incident, group, timeline, alerts>>

(* An incident is older than GROUP_WINDOW_SECONDS. *)
LeaveGroupWindow(i) ==
    /\ GroupWindowCloses
    /\ incident[i].recent
    /\ incident' = [incident EXCEPT ![i].recent = FALSE]
    /\ UNCHANGED <<streak, group, timeline, alerts, locks, job,
                   faults>>

-----------------------------------------------------------------------------
Evaluate(w) ==
    \/ Decide(w)
    \/ GroupNotNeeded(w) \/ GroupBegin(w) \/ GroupJoin(w) \/ GroupCreate(w)
    \/ NoteDetected(w) \/ EnqueueOpened(w)
    \/ ResolveRow(w) \/ CountGroup(w) \/ ResolveGroup(w)
    \/ NoteRecovered(w) \/ EnqueueResolved(w)

Insert(p) == \/ InsertFindsExisting(p) \/ InsertFindsNone(p)
             \/ InsertRow(p) \/ InsertCollides(p)

Serve(c) ==
    \/ AckUpdate(c) \/ AckCollides(c) \/ NoteAcknowledged(c)
    \/ ManualUpdate(c) \/ NoteManual(c)

Environment ==
    \/ \E p \in Processes : Abort(p)
    \/ \E w \in Workers : GroupFails(w) \/ ResolveGroupFails(w)
    \/ \E i \in Incidents : LeaveGroupWindow(i)

Next ==
    \/ \E w \in Workers, m \in Monitors, r \in Results : PushResult(w, m, r)
    \/ \E w \in Workers : Evaluate(w)
    \/ \E p \in Workers \cup DeadLetterWorkers : Insert(p)
    \/ \E d \in DeadLetterWorkers, m \in Monitors : DeadLetter(d, m)
    \/ \E d \in DeadLetterWorkers : NoteDeadLettered(d)
    \/ \E c \in Clients, i \in Incidents : AckGet(c, i) \/ ManualGet(c, i)
    \/ \E c \in Clients : Serve(c)
    \/ Environment

Spec == Init /\ [][Next]_vars

(* The scheduler keeps every monitor checked, and a process that can move  *)
(* does.  Nothing is asked of clients, dead letters or the environment.    *)
Fairness ==
    /\ \A m \in Monitors : WF_vars(\E w \in Workers, r \in Results : PushResult(w, m, r))
    /\ \A w \in Workers : WF_vars(Evaluate(w)) /\ WF_vars(Insert(w))
    /\ \A d \in DeadLetterWorkers : WF_vars(Insert(d)) /\ WF_vars(NoteDeadLettered(d))
    /\ \A c \in Clients : WF_vars(Serve(c))

FairSpec == Spec /\ Fairness

-----------------------------------------------------------------------------
(* Safety                                                                  *)

(* A monitor never has two unresolved incidents, whatever evaluators, dead *)
(* letters and API requests do at the same time (IncidentRepository.insert *)
(* and the index of migration 008).                                        *)
OneOpenIncident ==
    \A i, j \in Incidents :
       /\ Unresolved(i) /\ Unresolved(j)
       /\ incident[i].monitor = incident[j].monitor
       => i = j

(* The advisory lock does its work: between the SELECT and the INSERT of   *)
(* insert() nobody opens an incident of the monitor.  The one row that can *)
(* be open by then was resolved before and an acknowledge brought it back. *)
LockProtectsInsert ==
    \A p \in Processes :
       At(p, "inserting") => \A i \in OpenOf(job[p].monitor) : incident[i].ended

(* As long as no process was cut short, no incident is opened in silence:  *)
(* it was announced, or the DLQ worker opened it (that path sends nothing),*)
(* or the process that will announce it is still under way.                *)
NoSilentIncident ==
    faults = 0 =>
       \A i \in Incidents : incident[i].status # "unused" =>
          \/ "opened" \in alerts[i]
          \/ "deadLettered" \in timeline[i]
          \/ \E p \in Processes :
                /\ job[p].incident = i
                /\ job[p].step \in OpeningSteps \cup {"dlqInserted"}

(* Likewise a recovery: a resolved incident was announced as resolved, or  *)
(* a user resolved it (that path sends nothing), or it is under way.       *)
NoSilentRecovery ==
    faults = 0 =>
       \A i \in Incidents : incident[i].ended =>
          \/ "resolved" \in alerts[i]
          \/ "manual" \in timeline[i]
          \/ \E p \in Processes :
                /\ job[p].incident = i
                /\ job[p].step \in ClosingSteps \cup {"manualResolved"}

(* Whenever a process was cut short: an alert on the queue is explained by *)
(* the database, which the alert worker and the dashboard read.            *)
AlertsExplained ==
    \A i \in Incidents :
       /\ "opened" \in alerts[i] => "detected" \in timeline[i]
       /\ "resolved" \in alerts[i] => "recovered" \in timeline[i] /\ incident[i].ended

(* The workspace's lock does its work: between maybeGroup's SELECT and its *)
(* INSERT of a group, nobody groups the incidents it has read; so two      *)
(* evaluators that see the same burst do not make a group each.            *)
LockProtectsGroup ==
    \A w \in Workers :
       At(w, "grouping") /\ job[w].group = None => GroupsOf(job[w].batch) = {}

-----------------------------------------------------------------------------
(* Liveness                                                                *)

ResultsAre(m, S) ==
    \A w \in Workers :
       At(w, "pushed") /\ job[w].monitor = m => job[w].status \in S

(* Once every check of a monitor succeeds, its incidents are resolved for  *)
(* good, in spite of evaluations that still act on an older result.        *)
RecoveryResolves ==
    \A m \in Monitors :
       <>[]ResultsAre(m, {"up"}) /\ []SpareRow => <>[](OpenOf(m) = {})

(* Once every check of a monitor fails, it has an incident for good, even  *)
(* if an evaluation that saw an older success still resolves one.          *)
OutageOpens ==
    \A m \in Monitors :
       <>[]ResultsAre(m, Results \ {"up"}) /\ []SpareRow => <>[](OpenOf(m) # {})

(* The incidents of a monitor follow its checks: when they stop changing,  *)
(* so do the incidents, and they say what the checks say (evaluate).       *)
IncidentsFollowChecks == RecoveryResolves /\ OutageOpens
=============================================================================
