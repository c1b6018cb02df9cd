---------------------- MODULE IncidentLifecycle_proofs ----------------------
(* What holds of IncidentLifecycle for every value of its constants.       *)
EXTENDS IncidentLifecycle, TLAPS

(* Where a job names a monitor, and where it names a row of the table. *)
MonitorSteps == {"pushed", "mustOpen", "inserting", "dlqRead"}
RowSteps     == OpeningSteps \cup ClosingSteps
                  \cup {"mustResolve", "dlqInserted", "ackRead", "acked",
                        "manualRead", "manualResolved"}

(* What a job j of process p has read is really there. *)
JobOK(p, j) ==
    /\ j \in Job
    /\ j.step \in MonitorSteps => j.monitor \in Monitors
    /\ j.step \in RowSteps =>
          j.incident \in Incidents /\ incident[j.incident].status # "unused"
    /\ j.step \in {"resolved", "counted"} => j.group \in Groups
    /\ j.step = "inserting" => insertLock[j.monitor] = p

JobInv == \A p \in Processes : JobOK(p, job[p])

RowInv ==
    \A i \in Incidents :
       /\ incident[i].status # "unused" => incident[i].monitor \in Monitors
       /\ incident[i].status = "resolved" => incident[i].ended

IInv == TypeOK /\ JobInv /\ RowInv /\ OneOpenIncident /\ LockProtectsInsert

-----------------------------------------------------------------------------
LEMMA Initially == Init => IInv
  BY ProcessAssumption, ConfigAssumption
     DEF Init, IInv, TypeOK, JobInv, JobOK, RowInv, OneOpenIncident, LockProtectsInsert,
         Row, Job, IdleJob, Step, Unresolved, OpenOf, At, MonitorSteps, RowSteps,
         OpeningSteps, ClosingSteps, Processes, Incidents, Groups

LEMMA IdleJobOK ==
  ASSUME NEW p \in Processes
  PROVE  JobOK(p, IdleJob)
  BY DEF JobOK, Job, IdleJob, Step, MonitorSteps, RowSteps, OpeningSteps, ClosingSteps

(* Process p goes on with the job j, and neither the incidents table nor   *)
(* the locks of insert change.                                             *)
LEMMA QuietStep ==
  ASSUME IInv,
         NEW p \in Processes, NEW j, JobOK(p, j), j.step # "inserting",
         job' = [job EXCEPT ![p] = j],
         UNCHANGED <<incident, insertLock>>,
         streak' \in [Monitors -> 0..Required],
         group' \in [Groups -> {"unused", "active", "resolved"}],
         timeline' \in [Incidents -> SUBSET Entries],
         alerts' \in [Incidents -> SUBSET AlertKinds],
         groupLock' \in Workers \cup {None},
         faults' \in Nat
  PROVE  IInv'
  <1>1. \A q \in Processes : job'[q] = IF q = p THEN j ELSE job[q]
    BY DEF IInv, TypeOK
  <1>2. TypeOK'
    BY DEF IInv, TypeOK, JobOK
  <1>3. JobInv'
    BY <1>1 DEF IInv, JobInv, JobOK
  <1>4. RowInv' /\ OneOpenIncident'
    BY DEF IInv, RowInv, OneOpenIncident, Unresolved
  <1>5. LockProtectsInsert'
    BY <1>1 DEF IInv, LockProtectsInsert, OpenOf, Unresolved, At
  <1>6. QED
    BY <1>2, <1>3, <1>4, <1>5 DEF IInv

(* Process p forgets what it read. *)
LEMMA LeaveInv ==
  ASSUME IInv, NEW p \in Processes, Leave(p),
         UNCHANGED <<incident, insertLock, group, streak, groupLock, faults>>,
         timeline' \in [Incidents -> SUBSET Entries],
         alerts' \in [Incidents -> SUBSET AlertKinds]
  PROVE  IInv'
  <1>1. IdleJob.step # "inserting" /\ job' = [job EXCEPT ![p] = IdleJob]
    BY DEF IdleJob, Leave
  <1> QED
    BY <1>1, IdleJobOK, QuietStep DEF IInv, TypeOK

(* Process p goes from one step on its row to another. *)
LEMMA GotoInv ==
  ASSUME IInv, NEW p \in Processes, NEW s \in RowSteps, Goto(p, s),
         job[p].step \in RowSteps,
         s = "counted" => job[p].step = "resolved",
         s # "resolved",
         UNCHANGED <<incident, insertLock, streak>>,
         group' \in [Groups -> {"unused", "active", "resolved"}],
         groupLock' \in Workers \cup {None},
         faults' \in Nat,
         timeline' \in [Incidents -> SUBSET Entries],
         alerts' \in [Incidents -> SUBSET AlertKinds]
  PROVE  IInv'
  <1> DEFINE j == [job[p] EXCEPT !.step = s]
  <1>1. job' = [job EXCEPT ![p] = j]
    BY DEF Goto
  <1>2. JobOK(p, j) /\ j.step # "inserting"
    BY DEF IInv, JobInv, JobOK, Job, Step, MonitorSteps, RowSteps, OpeningSteps, ClosingSteps
  <1> QED
    BY <1>1, <1>2, QuietStep DEF IInv, TypeOK

(* Process p goes on with a row of the table. *)
LEMMA ResumeOK ==
  ASSUME NEW p \in Processes, NEW s \in RowSteps, NEW i \in Incidents,
         NEW g \in Groups \cup {None},
         incident[i].status # "unused",
         s \in {"resolved", "counted"} => g \in Groups
  PROVE  /\ JobOK(p, [IdleJob EXCEPT !.step = s, !.incident = i, !.group = g])
         /\ s # "inserting"
  BY DEF JobOK, Job, IdleJob, Step, MonitorSteps, RowSteps, OpeningSteps, ClosingSteps

LEMMA ResumeInv ==
  ASSUME IInv, NEW p \in Processes, NEW s \in RowSteps, NEW i \in Incidents,
         Resume(p, s, i, None), s \notin {"resolved", "counted"},
         incident[i].status # "unused",
         UNCHANGED <<incident, insertLock, group, streak, timeline, alerts>>,
         groupLock' \in Workers \cup {None},
         faults' \in Nat
  PROVE  IInv'
  <1> DEFINE j == [IdleJob EXCEPT !.step = s, !.incident = i, !.group = None]
  <1>1. JobOK(p, j) /\ s # "inserting"
    BY ResumeOK
  <1>2. job' = [job EXCEPT ![p] = j] /\ j.step = s
    BY DEF Resume, IdleJob
  <1> QED
    BY <1>1, <1>2, QuietStep DEF IInv, TypeOK

-----------------------------------------------------------------------------
(* The evaluator *)

LEMMA PushResultInv ==
  ASSUME IInv, NEW w \in Workers, NEW m \in Monitors, NEW r \in Results, PushResult(w, m, r)
  PROVE  IInv'
  <1> DEFINE j == [IdleJob EXCEPT !.step = "pushed", !.monitor = m, !.status = r,
                                  !.failing = (streak'[m] = Required)]
  <1>1. streak' \in [Monitors -> 0..Required] /\ job' = [job EXCEPT ![w] = j]
    BY ConfigAssumption DEF PushResult, Pushed, RecentRuns, IInv, TypeOK
  <1>2. JobOK(w, j) /\ j.step # "inserting"
    BY DEF JobOK, Job, IdleJob, Step, MonitorSteps, RowSteps, OpeningSteps, ClosingSteps
  <1>3. QED
    BY <1>1, <1>2, QuietStep DEF PushResult, locks, IInv, TypeOK, Processes

LEMMA DecideInv ==
  ASSUME IInv, NEW w \in Workers, Decide(w)
  PROVE  IInv'
  <1> DEFINE m == job[w].monitor
  <1>1. w \in Processes /\ m \in Monitors
    BY DEF Processes, Decide, At, IInv, JobInv, JobOK, MonitorSteps
  <1>2. PICK open \in Incidents \cup {None}, paused \in InMaintenance :
           /\ OpenIncident(m, open)
           /\ job' = [job EXCEPT ![w] =
                IF job[w].failing /\ open = None /\ ~paused
                THEN [IdleJob EXCEPT !.step = "mustOpen", !.monitor = m]
                ELSE IF job[w].status = "up" /\ open # None
                THEN [IdleJob EXCEPT !.step = "mustResolve", !.incident = open]
                ELSE IdleJob]
    BY DEF Decide
  <1> DEFINE opens    == [IdleJob EXCEPT !.step = "mustOpen", !.monitor = m]
             resolves == [IdleJob EXCEPT !.step = "mustResolve", !.incident = open]
  <1>3. JobOK(w, opens) /\ opens.step # "inserting"
    BY <1>1 DEF JobOK, Job, IdleJob, Step, MonitorSteps, RowSteps, OpeningSteps, ClosingSteps
  <1>4. ASSUME open # None
        PROVE  JobOK(w, resolves) /\ resolves.step # "inserting"
    <2>1. open \in Incidents /\ incident[open].status # "unused"
      BY <1>2, <1>4 DEF OpenIncident, OpenOf, Unresolved
    <2> QED
      BY <2>1 DEF JobOK, Job, IdleJob, Step, MonitorSteps, RowSteps, OpeningSteps, ClosingSteps
  <1>5. JobOK(w, IdleJob) /\ IdleJob.step # "inserting"
    BY <1>1, IdleJobOK DEF IdleJob
  <1> HIDE DEF opens, resolves
  <1>6. /\ UNCHANGED <<incident, insertLock>>
        /\ streak' \in [Monitors -> 0..Required]
        /\ group' \in [Groups -> {"unused", "active", "resolved"}]
        /\ timeline' \in [Incidents -> SUBSET Entries]
        /\ alerts' \in [Incidents -> SUBSET AlertKinds]
        /\ groupLock' \in Workers \cup {None}
        /\ faults' \in Nat
    BY DEF Decide, locks, IInv, TypeOK
  <1>7. CASE job' = [job EXCEPT ![w] = opens]
    BY <1>1, <1>3, <1>6, <1>7, QuietStep
  <1>8. CASE job' = [job EXCEPT ![w] = resolves] /\ open # None
    BY <1>1, <1>4, <1>6, <1>8, QuietStep
  <1>9. CASE job' = [job EXCEPT ![w] = IdleJob]
    BY <1>1, <1>5, <1>6, <1>9, QuietStep
  <1> QED
    BY <1>2, <1>7, <1>8, <1>9 DEF opens, resolves

LEMMA GroupingInv ==
  ASSUME IInv, NEW w \in Workers, GroupNotNeeded(w) \/ GroupBegin(w) \/ GroupFails(w)
  PROVE  IInv'
  <1>1. /\ w \in Processes /\ job[w].step \in RowSteps
        /\ job[w].incident \in Incidents
        /\ incident[job[w].incident].status # "unused"
        /\ "grouped" \in RowSteps /\ "grouping" \in RowSteps
    BY DEF Processes, GroupNotNeeded, GroupBegin, GroupFails, At, IInv, JobInv, JobOK,
           RowSteps, OpeningSteps
  <1>2. CASE GroupNotNeeded(w)
    BY <1>1, <1>2, GotoInv DEF GroupNotNeeded, locks, IInv, TypeOK
  <1>3. CASE GroupBegin(w)
    <2>1. PICK g \in IF GroupsOf(RecentlyOpened) = {} THEN {None}
                     ELSE GroupsOf(RecentlyOpened) :
             job' = [job EXCEPT ![w].step = "grouping", ![w].group = g,
                                ![w].batch = RecentlyOpened]
      BY <1>3 DEF GroupBegin
    <2> DEFINE j == [job[w] EXCEPT !.step = "grouping", !.group = g,
                                   !.batch = RecentlyOpened]
    <2>2. g \in Groups \cup {None} /\ RecentlyOpened \subseteq Incidents
      BY <2>1 DEF GroupsOf, RecentlyOpened, IInv, TypeOK, Row
    <2>3. job' = [job EXCEPT ![w] = j]
      BY <1>1, <2>1 DEF IInv, TypeOK
    <2>4. JobOK(w, j) /\ j.step # "inserting"
      BY <1>1, <2>2, ZenonT(40) DEF IInv, JobInv, JobOK, Job, Step, MonitorSteps, RowSteps,
                        OpeningSteps, ClosingSteps
    <2> QED
      BY <1>1, <1>3, <2>3, <2>4, QuietStep DEF GroupBegin, IInv, TypeOK
  <1>4. CASE GroupFails(w)
    <2>1. faults' \in Nat /\ groupLock' \in Workers \cup {None}
      BY <1>4 DEF GroupFails, IInv, TypeOK
    <2> QED
      BY <1>1, <1>4, <2>1, ResumeInv DEF GroupFails, IInv, TypeOK
  <1> QED
    BY <1>2, <1>3, <1>4

LEMMA NotesInv ==
  ASSUME IInv, NEW w \in Workers,
         \/ NoteDetected(w) \/ EnqueueOpened(w)
         \/ CountGroup(w) \/ ResolveGroup(w) \/ ResolveGroupFails(w)
         \/ NoteRecovered(w) \/ EnqueueResolved(w)
  PROVE  IInv'
  <1>1. w \in Processes
    BY DEF Processes
  <1>2. CASE NoteDetected(w)
    BY <1>1, <1>2, GotoInv
       DEF NoteDetected, Note, At, locks, IInv, TypeOK, Entries, RowSteps, OpeningSteps
  <1>3. CASE EnqueueOpened(w)
    BY <1>1, <1>3, LeaveInv DEF EnqueueOpened, SendAlert, locks, IInv, TypeOK, AlertKinds
  <1>4. CASE CountGroup(w)
    BY <1>1, <1>4, GotoInv DEF CountGroup, At, locks, IInv, TypeOK, RowSteps, ClosingSteps
  <1>5. CASE ResolveGroup(w)
    BY <1>1, <1>5, GotoInv DEF ResolveGroup, At, locks, IInv, TypeOK, RowSteps, ClosingSteps
  <1>6. CASE ResolveGroupFails(w)
    BY <1>1, <1>6, GotoInv DEF ResolveGroupFails, At, locks, IInv, TypeOK, RowSteps, ClosingSteps
  <1>7. CASE NoteRecovered(w)
    BY <1>1, <1>7, GotoInv
       DEF NoteRecovered, Note, At, locks, IInv, TypeOK, Entries, RowSteps, ClosingSteps
  <1>8. CASE EnqueueResolved(w)
    BY <1>1, <1>8, LeaveInv DEF EnqueueResolved, SendAlert, locks, IInv, TypeOK, AlertKinds
  <1> QED
    BY <1>2, <1>3, <1>4, <1>5, <1>6, <1>7, <1>8

-----------------------------------------------------------------------------
(* Dead letters and API requests *)

LEMMA DeadLetterInv ==
  ASSUME IInv, NEW d \in DeadLetterWorkers, NEW m \in Monitors, DeadLetter(d, m)
  PROVE  IInv'
  <1> DEFINE j == [IdleJob EXCEPT !.step = "dlqRead", !.monitor = m]
  <1>1. JobOK(d, j) /\ j.step # "inserting"
    BY DEF JobOK, Job, IdleJob, Step, MonitorSteps, RowSteps, OpeningSteps, ClosingSteps
  <1> QED
    BY <1>1, QuietStep DEF DeadLetter, locks, IInv, TypeOK, Processes

LEMMA NoteDeadLetteredInv ==
  ASSUME IInv, NEW d \in DeadLetterWorkers, NoteDeadLettered(d)
  PROVE  IInv'
  BY LeaveInv DEF NoteDeadLettered, Note, locks, IInv, TypeOK, Entries, Processes

LEMMA GetsInv ==
  ASSUME IInv, NEW c \in Clients, NEW i \in Incidents, AckGet(c, i) \/ ManualGet(c, i)
  PROVE  IInv'
  <1> DEFINE j(s) == [IdleJob EXCEPT !.step = s, !.incident = i]
  <1>1. ASSUME NEW s \in {"ackRead", "manualRead"}
        PROVE  JobOK(c, j(s)) /\ j(s).step # "inserting"
    BY DEF JobOK, Job, IdleJob, Step, MonitorSteps, RowSteps, OpeningSteps, ClosingSteps,
           AckGet, ManualGet, Unresolved
  <1>2. \E s \in {"ackRead", "manualRead"} : job' = [job EXCEPT ![c] = j(s)]
    BY DEF AckGet, ManualGet
  <1> HIDE DEF j
  <1> QED
    BY <1>1, <1>2, QuietStep DEF AckGet, ManualGet, locks, IInv, TypeOK, Processes

LEMMA ServesInv ==
  ASSUME IInv, NEW c \in Clients, AckCollides(c) \/ NoteAcknowledged(c) \/ NoteManual(c)
  PROVE  IInv'
  BY LeaveInv DEF AckCollides, NoteAcknowledged, NoteManual, Note, locks, IInv, TypeOK,
                  Entries, Processes

-----------------------------------------------------------------------------
(* insert *)

LEMMA InsertFindsExistingInv ==
  ASSUME IInv, NEW p \in Workers \cup DeadLetterWorkers, InsertFindsExisting(p)
  PROVE  IInv'
  <1>1. PICK i \in OpenOf(job[p].monitor) : Resume(p, AfterInsert(p), i, None)
    BY DEF InsertFindsExisting
  <1>2. /\ i \in Incidents /\ incident[i].status # "unused"
        /\ AfterInsert(p) \in RowSteps \ {"resolved", "counted"}
    BY <1>1 DEF OpenOf, Unresolved, AfterInsert, RowSteps, OpeningSteps
  <1> QED
    BY <1>1, <1>2, ResumeInv DEF InsertFindsExisting, locks, IInv, TypeOK, Processes

LEMMA InsertFindsNoneInv ==
  ASSUME IInv, NEW p \in Workers \cup DeadLetterWorkers, InsertFindsNone(p)
  PROVE  IInv'
  <1> DEFINE m == job[p].monitor
             j == [IdleJob EXCEPT !.step = "inserting", !.monitor = m]
  <1>1. p \in Processes /\ m \in Monitors
    BY DEF Processes, InsertFindsNone, MayInsert, At, IInv, JobInv, JobOK, MonitorSteps
  <1>2. /\ insertLock[m] = None /\ OpenOf(m) = {}
        /\ insertLock' = [insertLock EXCEPT ![m] = p]
        /\ job' = [job EXCEPT ![p] = j]
        /\ UNCHANGED <<streak, incident, group, timeline, alerts, groupLock, faults>>
    BY DEF InsertFindsNone
  <1>3. JobOK(p, j)'
    BY <1>1, <1>2 DEF IInv, TypeOK, JobOK, Job, IdleJob, Step, MonitorSteps, RowSteps,
                      OpeningSteps, ClosingSteps
  <1>4. \A q \in Processes : job'[q] = IF q = p THEN j ELSE job[q]
    BY <1>2 DEF IInv, TypeOK
  <1>5. TypeOK'
    BY <1>1, <1>2, <1>3 DEF IInv, TypeOK, JobOK
  <1>6. ASSUME NEW q \in Processes, q # p PROVE JobOK(q, job[q])'
    <2>1. q # None
      BY ProcessAssumption DEF Processes
    <2> QED
      BY <1>2, <1>4, <1>6, <2>1 DEF IInv, TypeOK, JobInv, JobOK, MonitorSteps
  <1>7. JobInv'
    BY <1>3, <1>4, <1>6 DEF JobInv
  <1>8. RowInv' /\ OneOpenIncident'
    BY <1>2 DEF IInv, RowInv, OneOpenIncident, Unresolved
  <1>9. LockProtectsInsert'
    BY <1>2, <1>4 DEF IInv, LockProtectsInsert, OpenOf, Unresolved, At, IdleJob
  <1> QED
    BY <1>5, <1>7, <1>8, <1>9 DEF IInv

LEMMA InsertRowInv ==
  ASSUME IInv, NEW p \in Workers \cup DeadLetterWorkers, InsertRow(p)
  PROVE  IInv'
  <1> DEFINE m == job[p].monitor
  <1>1. /\ p \in Processes /\ p # None /\ m \in Monitors
        /\ job[p].step = "inserting" /\ insertLock[m] = p
    BY ProcessAssumption
       DEF Processes, InsertRow, At, IInv, JobInv, JobOK, MonitorSteps
  <1>2. PICK i \in Incidents :
           /\ NextRow(i) /\ IndexAdmits(i, m)
           /\ incident' = [incident EXCEPT
                            ![i] = [status |-> "open", monitor |-> m, ended |-> FALSE,
                                    group |-> None, recent |-> TRUE]]
           /\ Resume(p, AfterInsert(p), i, None)
    BY DEF InsertRow
  <1> DEFINE row == [status |-> "open", monitor |-> m, ended |-> FALSE,
                     group |-> None, recent |-> TRUE]
             j == [IdleJob EXCEPT !.step = AfterInsert(p), !.incident = i, !.group = None]
  <1>3. \A k \in Incidents : incident'[k] = IF k = i THEN row ELSE incident[k]
    BY <1>2 DEF IInv, TypeOK
  <1>4. incident' \in [Incidents -> Row]
    BY <1>1, <1>2 DEF IInv, TypeOK, Row
  <1>5. job' = [job EXCEPT ![p] = j] /\ AfterInsert(p) \in {"opened", "dlqInserted"}
    BY <1>2 DEF Resume, AfterInsert
  <1>6. JobOK(p, j)' /\ j.step \in {"opened", "dlqInserted"}
    <2>1. incident'[i].status # "unused"
      BY <1>3
    <2> QED
      BY <1>5, <2>1 DEF JobOK, Job, IdleJob, Step, MonitorSteps, RowSteps, OpeningSteps,
                        ClosingSteps
  <1>7. \A q \in Processes : job'[q] = IF q = p THEN j ELSE job[q]
    BY <1>5 DEF IInv, TypeOK
  <1>8. insertLock' = [insertLock EXCEPT ![m] = None]
        /\ UNCHANGED <<streak, group, timeline, alerts, groupLock, faults>>
    BY DEF InsertRow
  <1>9. TypeOK'
    BY <1>1, <1>4, <1>5, <1>6, <1>8 DEF IInv, TypeOK, JobOK
  <1>10. ASSUME NEW q \in Processes, q # p PROVE JobOK(q, job[q])'
    BY <1>1, <1>3, <1>7, <1>8, <1>10 DEF IInv, TypeOK, JobInv, JobOK, MonitorSteps
  <1>11. JobInv'
    BY <1>6, <1>7, <1>10 DEF JobInv
  <1>12. RowInv'
    BY <1>1, <1>3 DEF IInv, RowInv
  <1>13. OneOpenIncident'
    BY <1>2, <1>3 DEF IInv, OneOpenIncident, IndexAdmits, OpenOf, Unresolved
  <1>14. ASSUME NEW q \in Processes, q # p, job[q].step = "inserting"
         PROVE  job[q].monitor # m
    BY <1>1, <1>14 DEF IInv, JobInv, JobOK
  <1>15. LockProtectsInsert'
    <2> SUFFICES ASSUME NEW q \in Processes, job'[q].step = "inserting",
                        NEW k \in Incidents, incident'[k].monitor = job'[q].monitor,
                        incident'[k].status \in {"open", "acknowledged"}
                 PROVE  incident'[k].ended
      BY DEF LockProtectsInsert, OpenOf, Unresolved, At
    <2>1. q # p /\ job'[q] = job[q]
      BY <1>6, <1>7
    <2>2. k # i
      BY <1>3, <1>14, <2>1
    <2> QED
      BY <1>3, <2>1, <2>2 DEF IInv, LockProtectsInsert, OpenOf, Unresolved, At
  <1> QED
    BY <1>9, <1>11, <1>12, <1>13, <1>15 DEF IInv

(* Both give the locks of p back and forget its job. *)
LEMMA ReleaseInv ==
  ASSUME IInv, NEW p \in Processes, InsertCollides(p) \/ Abort(p)
  PROVE  IInv'
  <1>1. /\ job' = [job EXCEPT ![p] = IdleJob]
        /\ UNCHANGED <<streak, incident, group, timeline, alerts>>
        /\ groupLock' \in Workers \cup {None} /\ faults' \in Nat
    BY DEF InsertCollides, Abort, Leave, IInv, TypeOK
  <1>2. p # None /\ IdleJob.step = "idle"
    BY ProcessAssumption DEF Processes, IdleJob
  <1>3. InsertCollides(p) => insertLock[job[p].monitor] = p
    BY DEF InsertCollides, At, IInv, JobInv, JobOK
  <1>4. /\ insertLock' \in [Monitors -> Processes \cup {None}]
        /\ \A m \in Monitors : insertLock[m] # p => insertLock'[m] = insertLock[m]
    BY <1>3 DEF InsertCollides, Abort, IInv, TypeOK
  <1>5. \A q \in Processes : job'[q] = IF q = p THEN IdleJob ELSE job[q]
    BY <1>1 DEF IInv, TypeOK
  <1>6. JobOK(p, IdleJob)'
    BY <1>2 DEF JobOK, Job, IdleJob, Step, MonitorSteps, RowSteps, OpeningSteps, ClosingSteps
  <1>7. TypeOK'
    BY <1>1, <1>4, <1>6 DEF IInv, TypeOK, JobOK
  <1>8. ASSUME NEW q \in Processes, q # p PROVE JobOK(q, job[q])'
    BY <1>1, <1>4, <1>5, <1>8 DEF IInv, JobInv, JobOK, MonitorSteps
  <1>9. JobInv'
    BY <1>5, <1>6, <1>8 DEF JobInv
  <1>10. RowInv' /\ OneOpenIncident'
    BY <1>1 DEF IInv, RowInv, OneOpenIncident, Unresolved
  <1>11. LockProtectsInsert'
    BY <1>1, <1>2, <1>5 DEF IInv, LockProtectsInsert, OpenOf, Unresolved, At
  <1> QED
    BY <1>7, <1>9, <1>10, <1>11 DEF IInv

-----------------------------------------------------------------------------
(* Updates of rows *)

(* An update of the table that opens no incident. *)
LEMMA UpdateStep ==
  ASSUME IInv,
         incident' \in [Incidents -> Row],
         \A i \in Incidents :
            /\ incident[i].status = "unused" <=> incident'[i].status = "unused"
            /\ incident'[i].monitor = incident[i].monitor
            /\ incident[i].ended => incident'[i].ended
            /\ incident'[i].status = "resolved" => incident'[i].ended
            /\ Unresolved(i)' => Unresolved(i),
         NEW p \in Processes, NEW j, JobOK(p, j)', j.step # "inserting",
         job' = [job EXCEPT ![p] = j],
         UNCHANGED <<streak, timeline, alerts, insertLock, faults>>,
         group' \in [Groups -> {"unused", "active", "resolved"}],
         groupLock' \in Workers \cup {None}
  PROVE  IInv'
  <1>1. \A q \in Processes : job'[q] = IF q = p THEN j ELSE job[q]
    BY DEF IInv, TypeOK
  <1>2. TypeOK'
    BY DEF IInv, TypeOK, JobOK
  <1>3. JobInv'
    BY <1>1 DEF IInv, JobInv, JobOK
  <1>4. RowInv' /\ OneOpenIncident'
    BY DEF IInv, RowInv, OneOpenIncident
  <1>5. LockProtectsInsert'
    BY <1>1 DEF IInv, LockProtectsInsert, OpenOf, At
  <1> QED
    BY <1>2, <1>3, <1>4, <1>5 DEF IInv

(* Process p goes on with row i after an update. *)
LEMMA ResumeOKNext ==
  ASSUME NEW p \in Processes, NEW s \in RowSteps, NEW i \in Incidents,
         NEW g \in Groups \cup {None},
         incident'[i].status # "unused",
         s \in {"resolved", "counted"} => g \in Groups
  PROVE  /\ JobOK(p, [IdleJob EXCEPT !.step = s, !.incident = i, !.group = g])'
         /\ s # "inserting"
  BY DEF JobOK, Job, IdleJob, Step, MonitorSteps, RowSteps, OpeningSteps, ClosingSteps

LEMMA JoinsInv ==
  ASSUME IInv, NEW w \in Workers, GroupJoin(w) \/ GroupCreate(w)
  PROVE  IInv'
  <1>1. PICK i \in Incidents : i = job[w].incident /\ incident[i].status # "unused"
    BY DEF Processes, GroupJoin, GroupCreate, At, IInv, JobInv, JobOK, RowSteps, OpeningSteps
  <1> DEFINE j == [IdleJob EXCEPT !.step = "grouped", !.incident = i, !.group = None]
  <1>2. /\ w \in Processes
        /\ job' = [job EXCEPT ![w] = j]
        /\ UNCHANGED <<streak, timeline, alerts, insertLock, faults>>
        /\ groupLock' \in Workers \cup {None}
    BY <1>1 DEF GroupJoin, GroupCreate, Resume, Processes
  <1>3. /\ incident' \in [Incidents -> Row]
        /\ group' \in [Groups -> {"unused", "active", "resolved"}]
        /\ \A k \in Incidents :
              /\ incident'[k].status = incident[k].status
              /\ incident'[k].monitor = incident[k].monitor
              /\ incident'[k].ended = incident[k].ended
    <2>1. CASE GroupJoin(w)
      <3>1. job[w].group \in Groups
        BY <1>2, <2>1 DEF GroupJoin, IInv, JobInv, JobOK, Job
      <3> QED
        BY <1>1, <2>1, <3>1 DEF GroupJoin, IInv, TypeOK, Row
    <2>2. CASE GroupCreate(w)
      BY <2>2 DEF GroupCreate, IInv, TypeOK, Row
    <2> QED
      BY <2>1, <2>2
  <1>4. JobOK(w, j)' /\ j.step # "inserting"
    <2>1. "grouped" \in RowSteps /\ incident'[i].status # "unused" /\ j.step = "grouped"
      BY <1>1, <1>3 DEF RowSteps, OpeningSteps, IdleJob
    <2> QED
      BY <1>2, <2>1, ResumeOKNext
  <1>5. \A k \in Incidents :
           /\ incident[k].ended => incident'[k].ended
           /\ incident'[k].status = "resolved" => incident'[k].ended
           /\ Unresolved(k)' => Unresolved(k)
    BY <1>3 DEF IInv, RowInv, Unresolved
  <1> HIDE DEF j
  <1> QED
    BY <1>2, <1>3, <1>4, <1>5, UpdateStep

LEMMA ResolvesInv ==
  ASSUME IInv, NEW p \in Processes, ResolveRow(p) \/ ManualUpdate(p)
  PROVE  IInv'
  <1>1. PICK i \in Incidents, g \in Groups \cup {None}, k \in Job :
           /\ i = job[p].incident /\ k = job[p]
           /\ g = incident[i].group /\ incident[i].status # "unused"
    <2>1. /\ job[p].incident \in Incidents /\ job[p] \in Job
          /\ incident[job[p].incident].status # "unused"
      BY DEF ResolveRow, ManualUpdate, At, IInv, JobInv, JobOK, RowSteps
    <2>2. incident[job[p].incident].group \in Groups \cup {None}
      BY <2>1 DEF IInv, TypeOK, Row
    <2> QED
      BY <2>1, <2>2
  <1> DEFINE s == IF g = None THEN "closing" ELSE "resolved"
             closes == [IdleJob EXCEPT !.step = s, !.incident = i, !.group = g]
             answers == [k EXCEPT !.step = "manualResolved"]
  <1>2. incident' = [incident EXCEPT ![i].status = "resolved", ![i].ended = TRUE]
        /\ UNCHANGED <<streak, group, timeline, alerts, insertLock, groupLock, faults>>
    BY <1>1 DEF ResolveRow, ManualUpdate, SetResolved, locks
  <1>3. /\ incident' \in [Incidents -> Row]
        /\ \A n \in Incidents :
              /\ incident'[n].monitor = incident[n].monitor
              /\ incident'[n].status = IF n = i THEN "resolved" ELSE incident[n].status
              /\ incident'[n].ended = IF n = i THEN TRUE ELSE incident[n].ended
    <2> DEFINE row == [incident[i] EXCEPT !.status = "resolved", !.ended = TRUE]
    <2>1. incident \in [Incidents -> Row] /\ incident[i] \in Row
      BY DEF IInv, TypeOK
    <2>2. incident' = [incident EXCEPT ![i] = row]
      BY <1>2, <2>1
    <2>3. row \in Row /\ row.monitor = incident[i].monitor
          /\ row.status = "resolved" /\ row.ended = TRUE
      BY <2>1 DEF Row
    <2> HIDE DEF row
    <2> QED
      BY <2>1, <2>2, <2>3
  <1>4. /\ incident'[i].status # "unused"
        /\ \A n \in Incidents :
              /\ incident[n].status = "unused" <=> incident'[n].status = "unused"
              /\ incident'[n].monitor = incident[n].monitor
              /\ incident[n].ended => incident'[n].ended
              /\ incident'[n].status = "resolved" => incident'[n].ended
              /\ Unresolved(n)' => Unresolved(n)
    BY <1>1, <1>3 DEF IInv, RowInv, Unresolved
  <1>5. CASE ResolveRow(p)
    <2>1. s \in RowSteps /\ s \notin {"counted", "inserting"} /\ (s = "resolved" => g \in Groups)
      BY DEF RowSteps, ClosingSteps
    <2>2. closes.step = s
      BY DEF IdleJob
    <2>3. JobOK(p, closes)' /\ closes.step # "inserting"
      BY <1>4, <2>1, <2>2, ResumeOKNext
    <2>4. job' = [job EXCEPT ![p] = closes]
      BY <1>1, <1>5 DEF ResolveRow, Resume
    <2> HIDE DEF closes
    <2> QED
      BY <1>2, <1>3, <1>4, <2>3, <2>4, UpdateStep DEF IInv, TypeOK
  <1>6. CASE ManualUpdate(p)
    <2>1. JobOK(p, answers)' /\ answers.step # "inserting"
      <3>1. /\ answers \in Job /\ answers.step = "manualResolved"
            /\ answers.incident = i
        BY <1>1 DEF Job, Step
      <3> HIDE DEF answers
      <3> QED
        BY <1>4, <3>1 DEF JobOK, MonitorSteps, RowSteps, OpeningSteps, ClosingSteps
    <2>2. job' = [job EXCEPT ![p] = answers]
      BY <1>1, <1>6 DEF ManualUpdate, Goto
    <2> HIDE DEF answers
    <2> QED
      BY <1>2, <1>3, <1>4, <2>1, <2>2, UpdateStep DEF IInv, TypeOK
  <1> QED
    BY <1>5, <1>6

(* An acknowledge may bring a resolved row back: the index still admits one *)
(* unresolved row of the monitor, and that row was ended before.            *)
LEMMA AckUpdateInv ==
  ASSUME IInv, NEW c \in Clients, AckUpdate(c)
  PROVE  IInv'
  <1> DEFINE i == job[c].incident
             j == [job[c] EXCEPT !.step = "acked"]
  <1>1. c \in Processes /\ i \in Incidents /\ incident[i].status # "unused"
    BY DEF Processes, AckUpdate, At, IInv, JobInv, JobOK, RowSteps
  <1>2. /\ incident' \in [Incidents -> Row]
        /\ \A k \in Incidents :
              /\ incident'[k].monitor = incident[k].monitor
              /\ incident'[k].status = IF k = i THEN "acknowledged" ELSE incident[k].status
              /\ incident'[k].ended = incident[k].ended
        /\ UNCHANGED <<streak, group, timeline, alerts, insertLock, groupLock, faults>>
        /\ job' = [job EXCEPT ![c] = j]
    BY <1>1, SMTT(30) DEF AckUpdate, Goto, locks, IInv, TypeOK, Row
  <1>3. \A q \in Processes : job'[q] = IF q = c THEN j ELSE job[q]
    BY <1>2 DEF IInv, TypeOK
  <1>4. JobOK(c, j)' /\ j.step # "inserting"
    BY <1>1, <1>2 DEF IInv, JobInv, JobOK, Job, Step, MonitorSteps, RowSteps,
                      OpeningSteps, ClosingSteps
  <1>5. TypeOK'
    BY <1>1, <1>2, <1>4 DEF IInv, TypeOK, JobOK
  <1>6. JobInv'
    BY <1>1, <1>2, <1>3, <1>4 DEF IInv, JobInv, JobOK
  <1>7. RowInv'
    BY <1>1, <1>2 DEF IInv, RowInv
  <1>8. \A k \in Incidents :
           incident[k].monitor = incident[i].monitor /\ Unresolved(k) => k = i
    BY DEF AckUpdate, IndexAdmits, OpenOf
  <1>9. OneOpenIncident'
    BY <1>1, <1>2, <1>8 DEF IInv, OneOpenIncident, Unresolved
  <1>10. Unresolved(i) \/ incident[i].ended
    BY <1>1 DEF IInv, TypeOK, Row, RowInv, Unresolved
  <1>11. LockProtectsInsert'
    <2> SUFFICES ASSUME NEW q \in Processes, job'[q].step = "inserting",
                        NEW k \in Incidents, incident'[k].monitor = job'[q].monitor,
                        incident'[k].status \in {"open", "acknowledged"}
                 PROVE  incident'[k].ended
      BY DEF LockProtectsInsert, OpenOf, Unresolved, At
    <2>1. job'[q] = job[q]
      BY <1>3, <1>4
    <2>2. k \in OpenOf(job[q].monitor) \/ incident[k].ended
      BY <1>1, <1>2, <1>10, <2>1 DEF OpenOf, Unresolved
    <2> QED
      BY <1>2, <2>1, <2>2 DEF IInv, LockProtectsInsert, At
  <1> QED
    BY <1>5, <1>6, <1>7, <1>9, <1>11 DEF IInv

LEMMA LeaveGroupWindowInv ==
  ASSUME IInv, NEW i \in Incidents, LeaveGroupWindow(i)
  PROVE  IInv'
  <1>1. /\ incident' \in [Incidents -> Row]
        /\ \A k \in Incidents :
              /\ incident'[k].monitor = incident[k].monitor
              /\ incident'[k].status = incident[k].status
              /\ incident'[k].ended = incident[k].ended
        /\ UNCHANGED <<streak, group, timeline, alerts, insertLock, groupLock, job, faults>>
    BY DEF LeaveGroupWindow, locks, IInv, TypeOK, Row
  <1>2. TypeOK'
    BY <1>1 DEF IInv, TypeOK
  <1>3. JobInv'
    BY <1>1 DEF IInv, JobInv, JobOK
  <1>4. RowInv' /\ OneOpenIncident'
    BY <1>1 DEF IInv, RowInv, OneOpenIncident, Unresolved
  <1>5. LockProtectsInsert'
    BY <1>1 DEF IInv, LockProtectsInsert, OpenOf, Unresolved, At
  <1> QED
    BY <1>2, <1>3, <1>4, <1>5 DEF IInv

-----------------------------------------------------------------------------
LEMMA Inductive == IInv /\ [Next]_vars => IInv'
  <1> SUFFICES ASSUME IInv, [Next]_vars PROVE IInv'
    OBVIOUS
  <1>1. ASSUME NEW w \in Workers, NEW m \in Monitors, NEW r \in Results, PushResult(w, m, r)
        PROVE  IInv'
    BY <1>1, PushResultInv
  <1>2. ASSUME NEW w \in Workers, Evaluate(w) PROVE IInv'
    BY <1>2, DecideInv, GroupingInv, JoinsInv, NotesInv, ResolvesInv DEF Evaluate, Processes
  <1>3. ASSUME NEW p \in Workers \cup DeadLetterWorkers, Insert(p) PROVE IInv'
    BY <1>3, InsertFindsExistingInv, InsertFindsNoneInv, InsertRowInv, ReleaseInv
       DEF Insert, Processes
  <1>4. ASSUME NEW d \in DeadLetterWorkers, NEW m \in Monitors, DeadLetter(d, m)
        PROVE  IInv'
    BY <1>4, DeadLetterInv
  <1>5. ASSUME NEW d \in DeadLetterWorkers, NoteDeadLettered(d) PROVE IInv'
    BY <1>5, NoteDeadLetteredInv
  <1>6. ASSUME NEW c \in Clients, NEW i \in Incidents, AckGet(c, i) \/ ManualGet(c, i)
        PROVE  IInv'
    BY <1>6, GetsInv
  <1>7. ASSUME NEW c \in Clients, Serve(c) PROVE IInv'
    BY <1>7, AckUpdateInv, ServesInv, ResolvesInv DEF Serve, Processes
  <1>8. CASE Environment
    BY <1>8, ReleaseInv, GroupingInv, NotesInv, LeaveGroupWindowInv
       DEF Environment
  <1>9. CASE UNCHANGED vars
    BY <1>9 DEF vars, IInv, TypeOK, JobInv, JobOK, RowInv, OneOpenIncident,
                LockProtectsInsert, Unresolved, OpenOf, At
  <1> QED
    BY <1>1, <1>2, <1>3, <1>4, <1>5, <1>6, <1>7, <1>8, <1>9 DEF Next

LEMMA Invariance == Spec => []IInv
  BY Initially, Inductive, PTL DEF Spec

(* Every variable keeps its type. *)
THEOREM TypeCorrect == Spec => []TypeOK
  <1>1. IInv => TypeOK
    BY DEF IInv
  <1> QED
    BY <1>1, Invariance, PTL

(* Whatever evaluators, dead letters and API requests there are, a monitor *)
(* never has two unresolved incidents.                                     *)
THEOREM OneOpenIncidentHolds == Spec => []OneOpenIncident
  <1>1. IInv => OneOpenIncident
    BY DEF IInv
  <1> QED
    BY <1>1, Invariance, PTL

(* The advisory lock of insert() keeps every other opener out. *)
THEOREM LockProtectsInsertHolds == Spec => []LockProtectsInsert
  <1>1. IInv => LockProtectsInsert
    BY DEF IInv
  <1> QED
    BY <1>1, Invariance, PTL

-----------------------------------------------------------------------------
(* What is announced, and what is announced of every row *)

(* A job k that will announce the opening of row i, and that will announce *)
(* its resolution, or that the user has resolved it.                       *)
Opens(k, i)  == k.incident = i /\ k.step \in OpeningSteps \cup {"dlqInserted"}
Closes(k, i) == k.incident = i /\ k.step \in ClosingSteps \cup {"manualResolved"}

(* A job that is about to send an alert has written what explains it. *)
Prepared(k) ==
    /\ k.step = "announceOpened" => "detected" \in timeline[k.incident]
    /\ k.step \in ClosingSteps => incident[k.incident].ended
    /\ k.step = "announceResolved" => "recovered" \in timeline[k.incident]

Explained ==
    /\ AlertsExplained /\ NoSilentIncident /\ NoSilentRecovery
    /\ \A p \in Processes : Prepared(job[p])
    /\ \A i \in Incidents : incident[i].ended => incident[i].status # "unused"

LEMMA InitiallyExplained == Init => Explained
  BY DEF Init, Explained, AlertsExplained, NoSilentIncident, NoSilentRecovery, Prepared,
         IdleJob, ClosingSteps

(* Process p goes on with the job k: the tables only grow, and if p leaves *)
(* a row, without a fault, it has announced what it did to it.             *)
LEMMA ExplainedStep ==
  ASSUME IInv, Explained,
         NEW p \in Processes, NEW k, job' = [job EXCEPT ![p] = k],
         faults' \in Nat, faults' >= faults,
         \A i \in Incidents : timeline[i] \subseteq timeline'[i] /\ alerts[i] \subseteq alerts'[i],
         \A i \in Incidents :
            /\ incident[i].status # "unused" => incident'[i].status # "unused"
            /\ incident[i].ended => incident'[i].ended
            /\ incident'[i].status # "unused" => incident[i].status # "unused" \/ Opens(k, i)
            /\ incident'[i].ended => incident[i].ended \/ (Closes(k, i) /\ incident[i].status # "unused"),
         \A i \in Incidents :
            /\ "opened" \in alerts'[i] => "opened" \in alerts[i] \/ "detected" \in timeline[i]
            /\ "resolved" \in alerts'[i] =>
                  "resolved" \in alerts[i] \/ ("recovered" \in timeline[i] /\ incident[i].ended),
         \A i \in Incidents :
            /\ Opens(job[p], i) =>
                  \/ Opens(k, i) \/ faults' # 0
                  \/ "opened" \in alerts'[i] \/ "deadLettered" \in timeline'[i]
            /\ Closes(job[p], i) =>
                  \/ Closes(k, i) \/ faults' # 0
                  \/ "resolved" \in alerts'[i] \/ "manual" \in timeline'[i],
         Prepared(k)'
  PROVE  Explained'
  <1>1. \A q \in Processes : job'[q] = IF q = p THEN k ELSE job[q]
    BY DEF IInv, TypeOK
  <1>2. faults' = 0 => faults = 0
    BY DEF IInv, TypeOK
  <1>3. AlertsExplained'
    BY DEF Explained, AlertsExplained
  <1>4. NoSilentIncident'
    <2> SUFFICES ASSUME faults' = 0, NEW i \in Incidents, incident'[i].status # "unused",
                        "opened" \notin alerts'[i], "deadLettered" \notin timeline'[i]
                 PROVE  \E q \in Processes : Opens(job'[q], i)
      BY DEF NoSilentIncident, Opens
    <2>1. CASE Opens(k, i)
      BY <1>1, <2>1
    <2>2. CASE ~Opens(k, i)
      <3>1. PICK q \in Processes : Opens(job[q], i)
        BY <1>2, <2>2 DEF Explained, NoSilentIncident, Opens
      <3>2. q # p
        BY <2>2, <3>1
      <3> QED
        BY <1>1, <3>1, <3>2
    <2> QED
      BY <2>1, <2>2
  <1>5. NoSilentRecovery'
    <2> SUFFICES ASSUME faults' = 0, NEW i \in Incidents, incident'[i].ended,
                        "resolved" \notin alerts'[i], "manual" \notin timeline'[i]
                 PROVE  \E q \in Processes : Closes(job'[q], i)
      BY DEF NoSilentRecovery, Closes
    <2>1. CASE Closes(k, i)
      BY <1>1, <2>1
    <2>2. CASE ~Closes(k, i)
      <3>1. PICK q \in Processes : Closes(job[q], i)
        BY <1>2, <2>2 DEF Explained, NoSilentRecovery, Closes
      <3>2. q # p
        BY <2>2, <3>1
      <3> QED
        BY <1>1, <3>1, <3>2
    <2> QED
      BY <2>1, <2>2
  <1>6. ASSUME NEW q \in Processes PROVE Prepared(job[q])'
    <2>1. CASE q = p
      BY <1>1, <2>1 DEF Prepared
    <2>2. CASE q # p
      <3>1. job'[q] = job[q] /\ Prepared(job[q]) /\ JobOK(q, job[q])
        BY <1>1, <2>2 DEF Explained, IInv, JobInv
      <3>2. job[q].step \in ClosingSteps \cup {"announceOpened"} => job[q].incident \in Incidents
        BY <3>1 DEF JobOK, RowSteps, OpeningSteps
      <3> QED
        BY <3>1, <3>2 DEF Prepared, ClosingSteps
    <2> QED
      BY <2>1, <2>2
  <1>7. \A i \in Incidents : incident'[i].ended => incident'[i].status # "unused"
    BY DEF Explained
  <1> QED
    BY <1>3, <1>4, <1>5, <1>6, <1>7 DEF Explained

(* A step that neither begins nor ends the work on a row. *)
LEMMA QuietExplained ==
  ASSUME IInv, Explained,
         NEW p \in Processes, NEW k, job' = [job EXCEPT ![p] = k],
         UNCHANGED <<incident, alerts, faults>>,
         \A i \in Incidents : timeline[i] \subseteq timeline'[i],
         job[p].step \notin OpeningSteps \cup ClosingSteps \cup {"dlqInserted", "manualResolved"},
         k.step \notin ClosingSteps \cup {"announceOpened"}
  PROVE  Explained'
  <1>1. faults \in Nat
    BY DEF IInv, TypeOK
  <1>2. Prepared(k)'
    BY DEF Prepared, ClosingSteps
  <1>3. \A i \in Incidents : ~Opens(job[p], i) /\ ~Closes(job[p], i)
    BY DEF Opens, Closes
  <1>4. /\ faults' \in Nat /\ faults' >= faults
        /\ \A i \in Incidents : alerts[i] \subseteq alerts'[i]
        /\ \A i \in Incidents :
            /\ incident[i].status # "unused" => incident'[i].status # "unused"
            /\ incident[i].ended => incident'[i].ended
            /\ incident'[i].status # "unused" => incident[i].status # "unused" \/ Opens(k, i)
            /\ incident'[i].ended => incident[i].ended \/ (Closes(k, i) /\ incident[i].status # "unused")
        /\ \A i \in Incidents :
            /\ "opened" \in alerts'[i] => "opened" \in alerts[i] \/ "detected" \in timeline[i]
            /\ "resolved" \in alerts'[i] =>
                  "resolved" \in alerts[i] \/ ("recovered" \in timeline[i] /\ incident[i].ended)
    BY <1>1
  <1> QED
    BY <1>2, <1>3, <1>4, ExplainedStep

(* The steps that neither begin nor end the work on a row. *)
Quiet(p) ==
    \/ \E m \in Monitors, r \in Results : PushResult(p, m, r)
    \/ Decide(p) \/ InsertFindsExisting(p) \/ InsertFindsNone(p) \/ InsertCollides(p)
    \/ \E m \in Monitors : DeadLetter(p, m)
    \/ \E i \in Incidents : AckGet(p, i) \/ ManualGet(p, i)
    \/ AckCollides(p) \/ NoteAcknowledged(p)

LEMMA QuietFacts ==
  ASSUME IInv, NEW p \in Processes, Quiet(p)
  PROVE  /\ job' = [job EXCEPT ![p] = job'[p]]
         /\ job'[p].step \in {"idle", "pushed", "mustOpen", "mustResolve", "inserting", "opened",
                              "dlqRead", "dlqInserted", "ackRead", "manualRead"}
         /\ job[p].step \in {"idle", "pushed", "mustOpen", "inserting", "dlqRead", "ackRead", "acked"}
         /\ UNCHANGED <<incident, alerts, groupLock, faults>>
         /\ \A i \in Incidents : timeline[i] \subseteq timeline'[i]
  <1>1. PICK k : k = job'[p]
    OBVIOUS
  <1>2. job \in [Processes -> Job]
    BY DEF IInv, TypeOK
  <1>3. /\ job' = [job EXCEPT ![p] = k]
        /\ k.step \in {"idle", "pushed", "mustOpen", "mustResolve", "inserting", "opened",
                       "dlqRead", "dlqInserted", "ackRead", "manualRead"}
    <2>1. CASE \E m \in Monitors, r \in Results : PushResult(p, m, r)
      BY <1>1, <1>2, <2>1 DEF PushResult, Pushed, IdleJob
    <2>2. CASE Decide(p)
      <3> DEFINE opens == [IdleJob EXCEPT !.step = "mustOpen", !.monitor = job[p].monitor]
                 resolves(i) == [IdleJob EXCEPT !.step = "mustResolve", !.incident = i]
      <3>1. PICK open \in Incidents \cup {None}, paused \in InMaintenance :
               job' = [job EXCEPT ![p] =
                 IF job[p].failing /\ open = None /\ ~paused THEN opens
                 ELSE IF job[p].status = "up" /\ open # None THEN resolves(open)
                 ELSE IdleJob]
        BY <2>2 DEF Decide
      <3>2. /\ opens.step = "mustOpen" /\ IdleJob.step = "idle"
            /\ \A i : resolves(i).step = "mustResolve"
        BY DEF IdleJob
      <3> HIDE DEF opens, resolves
      <3> QED
        BY <1>1, <1>2, <3>1, <3>2
    <2>3. CASE InsertFindsExisting(p)
      <3>1. PICK i \in Incidents : Resume(p, AfterInsert(p), i, None)
        BY <2>3 DEF InsertFindsExisting, OpenOf
      <3> QED
        BY <1>1, <1>2, <3>1 DEF Resume, AfterInsert, IdleJob
    <2>4. CASE InsertFindsNone(p)
      BY <1>1, <1>2, <2>4 DEF InsertFindsNone, IdleJob
    <2>5. CASE \E m \in Monitors : DeadLetter(p, m)
      BY <1>1, <1>2, <2>5 DEF DeadLetter, IdleJob
    <2>6. CASE \E i \in Incidents : AckGet(p, i) \/ ManualGet(p, i)
      BY <1>1, <1>2, <2>6 DEF AckGet, ManualGet, IdleJob
    <2>7. CASE InsertCollides(p) \/ AckCollides(p) \/ NoteAcknowledged(p)
      BY <1>1, <1>2, <2>7 DEF InsertCollides, AckCollides, NoteAcknowledged, Leave, IdleJob
    <2> QED
      BY <2>1, <2>2, <2>3, <2>4, <2>5, <2>6, <2>7 DEF Quiet
  <1>4. job[p].step \in {"idle", "pushed", "mustOpen", "inserting", "dlqRead", "ackRead", "acked"}
    BY DEF Quiet, PushResult, Decide, InsertFindsExisting, InsertFindsNone, MayInsert, DeadLetter,
           AckGet, ManualGet, InsertCollides, AckCollides, NoteAcknowledged, At
  <1>5. UNCHANGED <<incident, alerts, groupLock, faults>> /\ \A i \in Incidents : timeline[i] \subseteq timeline'[i]
    BY DEF Quiet, PushResult, Decide, InsertFindsExisting, InsertFindsNone, DeadLetter, AckGet, ManualGet,
           InsertCollides, AckCollides, NoteAcknowledged, Note, locks, IInv, TypeOK
  <1> QED
    BY <1>1, <1>3, <1>4, <1>5

LEMMA QuietsExplained ==
  ASSUME IInv, Explained, NEW p \in Processes, Quiet(p)
  PROVE  Explained'
  <1>1. PICK k : k = job'[p]
    OBVIOUS
  <1> QED
    BY <1>1, QuietFacts, QuietExplained DEF OpeningSteps, ClosingSteps

(* Process p goes on with its row. *)
LEMMA WorkExplained ==
  ASSUME IInv, Explained,
         NEW p \in Processes, NEW k, job' = [job EXCEPT ![p] = k],
         k.incident = job[p].incident,
         \/ job[p].step \in OpeningSteps /\ k.step \in OpeningSteps
         \/ job[p].step \in ClosingSteps /\ k.step \in ClosingSteps,
         \A i \in Incidents : /\ incident'[i].status = incident[i].status
                              /\ incident'[i].ended = incident[i].ended
                              /\ timeline[i] \subseteq timeline'[i],
         UNCHANGED alerts, faults' \in Nat, faults' >= faults,
         k.step = "announceOpened" => "detected" \in timeline'[k.incident],
         k.step = "announceResolved" => "recovered" \in timeline'[k.incident]
  PROVE  Explained'
  <1>1. job[p].incident \in Incidents /\ Prepared(job[p])
    BY DEF IInv, JobInv, JobOK, RowSteps, Explained
  <1>2. Prepared(k)'
    BY <1>1 DEF Prepared, OpeningSteps, ClosingSteps
  <1>3. \A i \in Incidents : /\ Opens(job[p], i) => Opens(k, i)
                             /\ Closes(job[p], i) => Closes(k, i)
    BY DEF Opens, Closes, OpeningSteps, ClosingSteps
  <1>4. \A i \in Incidents :
           /\ timeline[i] \subseteq timeline'[i] /\ alerts[i] \subseteq alerts'[i]
           /\ "opened" \in alerts'[i] => "opened" \in alerts[i]
           /\ "resolved" \in alerts'[i] => "resolved" \in alerts[i]
    OBVIOUS
  <1>5. \A i \in Incidents :
           /\ incident[i].status # "unused" => incident'[i].status # "unused"
           /\ incident[i].ended => incident'[i].ended
           /\ incident'[i].status # "unused" => incident[i].status # "unused"
           /\ incident'[i].ended => incident[i].ended
    OBVIOUS
  <1> QED
    BY <1>2, <1>3, <1>4, <1>5, ExplainedStep, ZenonT(40)

LEMMA GroupingExplained ==
  ASSUME IInv, Explained, NEW w \in Workers,
         \/ GroupNotNeeded(w) \/ GroupBegin(w) \/ GroupJoin(w) \/ GroupCreate(w) \/ GroupFails(w)
  PROVE  Explained'
  <1>1. PICK k : k = job'[w]
    OBVIOUS
  <1>2. /\ w \in Processes /\ job \in [Processes -> Job] /\ job[w].step \in {"opened", "grouping"}
        /\ faults \in Nat
    BY DEF Processes, IInv, TypeOK, GroupNotNeeded, GroupBegin, GroupJoin, GroupCreate, GroupFails, At
  <1>3. /\ job' = [job EXCEPT ![w] = k] /\ k.incident = job[w].incident
        /\ k.step \in {"grouping", "grouped"}
    <2>1. CASE GroupNotNeeded(w)
      BY <1>1, <1>2, <2>1 DEF GroupNotNeeded, Goto, Job
    <2>2. CASE GroupBegin(w)
      <3>1. PICK g \in IF GroupsOf(RecentlyOpened) = {} THEN {None}
                       ELSE GroupsOf(RecentlyOpened) :
               job' = [job EXCEPT ![w].step = "grouping", ![w].group = g,
                                  ![w].batch = RecentlyOpened]
        BY <2>2 DEF GroupBegin
      <3> QED
        BY <1>1, <1>2, <3>1 DEF Job
    <2>3. CASE GroupJoin(w) \/ GroupCreate(w) \/ GroupFails(w)
      BY <1>1, <1>2, <2>3 DEF GroupJoin, GroupCreate, GroupFails, Resume, IdleJob
    <2> QED
      BY <2>1, <2>2, <2>3
  <1>4. \A i \in Incidents : /\ incident'[i].status = incident[i].status
                             /\ incident'[i].ended = incident[i].ended
    <2>1. CASE UNCHANGED incident
      BY <2>1
    <2>2. CASE GroupJoin(w)
      BY <2>2 DEF GroupJoin, IInv, TypeOK, Row
    <2>3. CASE GroupCreate(w)
      BY <2>3 DEF GroupCreate, IInv, TypeOK, Row
    <2> QED
      BY <2>1, <2>2, <2>3 DEF GroupNotNeeded, GroupBegin, GroupFails
  <1>5. /\ UNCHANGED <<alerts, timeline>> /\ faults' \in Nat /\ faults' >= faults
    <2>1. CASE GroupFails(w)
      BY <1>2, <2>1 DEF GroupFails
    <2>2. CASE ~GroupFails(w)
      <3>1. UNCHANGED <<alerts, timeline, faults>>
        BY <2>2, Zenon DEF GroupNotNeeded, GroupBegin, GroupJoin, GroupCreate
      <3> QED
        BY <1>2, <3>1
    <2> QED
      BY <2>1, <2>2
  <1> QED
    BY <1>2, <1>3, <1>4, <1>5, WorkExplained DEF OpeningSteps

LEMMA NotesExplained ==
  ASSUME IInv, Explained, NEW w \in Workers,
         \/ NoteDetected(w) \/ CountGroup(w) \/ ResolveGroup(w) \/ ResolveGroupFails(w)
         \/ NoteRecovered(w)
  PROVE  Explained'
  <1>1. PICK s : s = job'[w].step
    OBVIOUS
  <1>2. PICK k : k = [job[w] EXCEPT !.step = s]
    OBVIOUS
  <1>3. /\ w \in Processes /\ job[w] \in Job /\ faults \in Nat
        /\ timeline \in [Incidents -> SUBSET Entries] /\ job[w].incident \in Incidents
    BY DEF Processes, IInv, TypeOK, JobInv, JobOK, NoteDetected, CountGroup, ResolveGroup,
           ResolveGroupFails, NoteRecovered, At, RowSteps, OpeningSteps, ClosingSteps
  <1>4. k.incident = job[w].incident /\ k.step = s
    BY <1>2, <1>3 DEF Job
  <1>5. /\ job' = [job EXCEPT ![w] = k]
        /\ \/ /\ NoteDetected(w) /\ s = "announceOpened" /\ job[w].step = "grouped"
           \/ /\ NoteRecovered(w) /\ s = "announceResolved" /\ job[w].step = "closing"
           \/ s \in {"closing", "counted"} /\ job[w].step \in {"resolved", "counted"}
    BY <1>1, <1>2, <1>3 DEF NoteDetected, CountGroup, ResolveGroup, ResolveGroupFails, NoteRecovered,
         At, Goto, IInv, TypeOK, Job
  <1>6. /\ UNCHANGED <<incident, alerts>> /\ faults' \in Nat /\ faults' >= faults
        /\ \A i \in Incidents : timeline[i] \subseteq timeline'[i]
        /\ NoteDetected(w) => "detected" \in timeline'[job[w].incident]
        /\ NoteRecovered(w) => "recovered" \in timeline'[job[w].incident]
    BY <1>3 DEF NoteDetected, CountGroup, ResolveGroup, ResolveGroupFails, NoteRecovered, Note
  <1> QED
    BY <1>3, <1>4, <1>5, <1>6, WorkExplained DEF OpeningSteps, ClosingSteps

(* A process is done with its row, or cut short. *)
LEMMA DoneExplained ==
  ASSUME IInv, Explained, NEW p \in Processes,
         EnqueueOpened(p) \/ EnqueueResolved(p) \/ NoteDeadLettered(p) \/ NoteManual(p) \/ Abort(p)
  PROVE  Explained'
  <1>1. /\ job' = [job EXCEPT ![p] = IdleJob] /\ UNCHANGED incident
        /\ faults \in Nat /\ faults' \in Nat /\ faults' >= faults
        /\ timeline \in [Incidents -> SUBSET Entries] /\ alerts \in [Incidents -> SUBSET AlertKinds]
    BY DEF EnqueueOpened, EnqueueResolved, SendAlert, NoteDeadLettered, NoteManual, Abort, Leave,
           IInv, TypeOK
  <1>2. /\ Prepared(IdleJob)'
        /\ \A i \in Incidents : ~Opens(IdleJob, i) /\ ~Closes(IdleJob, i)
    BY DEF Prepared, IdleJob, ClosingSteps, OpeningSteps, Opens, Closes
  <1>3. Prepared(job[p])
    BY DEF Explained
  <1>4. \A i \in Incidents :
           /\ timeline[i] \subseteq timeline'[i] /\ alerts[i] \subseteq alerts'[i]
           /\ "opened" \in alerts'[i] => "opened" \in alerts[i] \/ "detected" \in timeline[i]
           /\ "resolved" \in alerts'[i] =>
                  "resolved" \in alerts[i] \/ ("recovered" \in timeline[i] /\ incident[i].ended)
    BY <1>1, <1>3 DEF EnqueueOpened, EnqueueResolved, SendAlert, NoteDeadLettered, NoteManual, Note,
         Abort, At, Prepared, ClosingSteps
  <1>5. \A i \in Incidents :
            /\ Opens(job[p], i) =>
                  \/ faults' # 0
                  \/ "opened" \in alerts'[i] \/ "deadLettered" \in timeline'[i]
            /\ Closes(job[p], i) =>
                  \/ faults' # 0
                  \/ "resolved" \in alerts'[i] \/ "manual" \in timeline'[i]
    <2>1. CASE Abort(p)
      BY <1>1, <2>1 DEF Abort
    <2>2. CASE EnqueueOpened(p) \/ EnqueueResolved(p) \/ NoteDeadLettered(p) \/ NoteManual(p)
      BY <1>1, <2>2 DEF EnqueueOpened, EnqueueResolved, SendAlert, NoteDeadLettered, NoteManual, Note,
           At, Opens, Closes, OpeningSteps, ClosingSteps
    <2> QED
      BY <2>1, <2>2
  <1> QED
    BY <1>1, <1>2, <1>4, <1>5, ExplainedStep

(* The new row is in the hands of its inserter. *)
LEMMA InsertRowExplained ==
  ASSUME IInv, Explained, NEW p \in Workers \cup DeadLetterWorkers, InsertRow(p)
  PROVE  Explained'
  <1>1. PICK n \in Incidents :
           /\ incident[n].status = "unused"
           /\ incident' = [incident EXCEPT ![n] = [status |-> "open", monitor |-> job[p].monitor,
                             ended |-> FALSE, group |-> None, recent |-> TRUE]]
           /\ Resume(p, AfterInsert(p), n, None)
    BY DEF InsertRow, NextRow
  <1>2. PICK k : k = [IdleJob EXCEPT !.step = AfterInsert(p), !.incident = n, !.group = None]
    OBVIOUS
  <1>3. /\ p \in Processes /\ job' = [job EXCEPT ![p] = k] /\ incident \in [Incidents -> Row]
        /\ UNCHANGED <<timeline, alerts>> /\ faults \in Nat /\ faults' = faults
        /\ job[p].step = "inserting"
    BY <1>1, <1>2 DEF Processes, InsertRow, Resume, At, IInv, TypeOK
  <1>4. k.incident = n /\ k.step \in {"opened", "dlqInserted"}
    BY <1>2 DEF IdleJob, AfterInsert
  <1>5. \A i \in Incidents : /\ i # n => incident'[i] = incident[i]
                             /\ incident'[n].status = "open" /\ ~incident'[n].ended
    BY <1>1, <1>3
  <1>6. \A i \in Incidents :
           /\ incident[i].status # "unused" => incident'[i].status # "unused"
           /\ incident[i].ended => incident'[i].ended
           /\ incident'[i].status # "unused" => incident[i].status # "unused" \/ Opens(k, i)
           /\ incident'[i].ended => incident[i].ended
    BY <1>1, <1>4, <1>5 DEF Explained, Opens, OpeningSteps
  <1>9. faults' \in Nat /\ faults' >= faults
    BY <1>3
  <1>7. /\ Prepared(k)'
        /\ \A i \in Incidents : ~Opens(job[p], i) /\ ~Closes(job[p], i)
    BY <1>3, <1>4 DEF Prepared, Opens, Closes, OpeningSteps, ClosingSteps
  <1>8. \A i \in Incidents :
           /\ timeline[i] \subseteq timeline'[i] /\ alerts[i] \subseteq alerts'[i]
           /\ "opened" \in alerts'[i] => "opened" \in alerts[i]
           /\ "resolved" \in alerts'[i] => "resolved" \in alerts[i]
    BY <1>3
  <1> QED
    BY <1>3, <1>6, <1>7, <1>8, <1>9, ExplainedStep

(* An update of row n by its process, which keeps it. *)
LEMMA UpdatesExplained ==
  ASSUME IInv, Explained, NEW p \in Processes, ResolveRow(p) \/ ManualUpdate(p) \/ AckUpdate(p)
  PROVE  Explained'
  <1>1. PICK n : n = job[p].incident
    OBVIOUS
  <1>2. /\ n \in Incidents /\ incident[n].status # "unused" /\ incident \in [Incidents -> Row]
        /\ job[p] \in Job /\ job \in [Processes -> Job] /\ faults \in Nat
        /\ job[p].step \in {"mustResolve", "manualRead", "ackRead"}
    BY <1>1 DEF ResolveRow, ManualUpdate, AckUpdate, At, IInv, TypeOK, JobInv, JobOK, RowSteps
  <1>3. PICK k : k = job'[p]
    OBVIOUS
  <1>4. /\ job' = [job EXCEPT ![p] = k] /\ k.incident = n
        /\ ResolveRow(p) => k.step \in {"closing", "resolved"}
        /\ ManualUpdate(p) => k.step = "manualResolved"
        /\ ~ResolveRow(p) /\ ~ManualUpdate(p) => k.step = "acked"
    <2>1. CASE ResolveRow(p)
      <3>1. "closing" # "manualResolved" /\ job[p].step = "mustResolve"
        BY <2>1 DEF ResolveRow, At
      <3>2. ~ManualUpdate(p)
        BY <3>1 DEF ManualUpdate, At
      <3> QED
        BY <1>1, <1>2, <1>3, <2>1, <3>2 DEF ResolveRow, Resume, IdleJob
    <2>2. CASE ~ResolveRow(p)
      <3>1. PICK s : /\ s = IF ManualUpdate(p) THEN "manualResolved" ELSE "acked"
                     /\ job' = [job EXCEPT ![p] = [job[p] EXCEPT !.step = s]]
        BY <1>2, <2>2 DEF ManualUpdate, AckUpdate, Goto, At
      <3>2. k = [job[p] EXCEPT !.step = s] /\ job' = [job EXCEPT ![p] = k]
        BY <1>2, <1>3, <3>1
      <3>3. k.step = s /\ k.incident = n
        BY <1>1, <1>2, <3>2 DEF Job
      <3> QED
        BY <2>2, <3>1, <3>2, <3>3
    <2> QED
      BY <2>1, <2>2
  <1>5. /\ \A i \in Incidents : /\ i # n => incident'[i] = incident[i]
                                /\ incident'[n].status # "unused"
        /\ IF ResolveRow(p) \/ ManualUpdate(p) THEN incident'[n].ended
           ELSE incident'[n].ended = incident[n].ended
    BY <1>1, <1>2 DEF ResolveRow, ManualUpdate, AckUpdate, SetResolved, Row
  <1>6. \A i \in Incidents :
           /\ incident[i].status # "unused" => incident'[i].status # "unused"
           /\ incident[i].ended => incident'[i].ended
           /\ incident'[i].status # "unused" => incident[i].status # "unused"
           /\ incident'[i].ended => incident[i].ended \/ (Closes(k, i) /\ incident[i].status # "unused")
    <2>1. ResolveRow(p) \/ ManualUpdate(p) => Closes(k, n)
      BY <1>4 DEF Closes, ClosingSteps
    <2> QED
      BY <1>2, <1>5, <2>1
  <1>7. /\ Prepared(k)'
        /\ \A i \in Incidents : ~Opens(job[p], i) /\ ~Closes(job[p], i)
    BY <1>2, <1>4, <1>5 DEF Prepared, Opens, Closes, OpeningSteps, ClosingSteps
  <1>8. /\ faults' = faults
        /\ \A i \in Incidents :
           /\ timeline[i] \subseteq timeline'[i] /\ alerts[i] \subseteq alerts'[i]
           /\ "opened" \in alerts'[i] => "opened" \in alerts[i]
           /\ "resolved" \in alerts'[i] => "resolved" \in alerts[i]
    BY DEF ResolveRow, ManualUpdate, AckUpdate
  <1>9. faults' \in Nat /\ faults' >= faults
    BY <1>2, <1>8
  <1> QED
    BY <1>4, <1>6, <1>7, <1>8, <1>9, ExplainedStep

LEMMA WindowExplained ==
  ASSUME IInv, Explained,
         UNCHANGED vars \/ \E i \in Incidents : LeaveGroupWindow(i)
  PROVE  Explained'
  <1>1. /\ UNCHANGED <<timeline, alerts, job, faults>>
        /\ \A i \in Incidents : /\ incident'[i].status = incident[i].status
                                /\ incident'[i].ended = incident[i].ended
    BY DEF vars, LeaveGroupWindow, IInv, TypeOK, Row
  <1>2. \A p \in Processes : Prepared(job[p])'
    <2> SUFFICES ASSUME NEW p \in Processes PROVE Prepared(job[p])'
      OBVIOUS
    <2>1. Prepared(job[p]) /\ JobOK(p, job[p])
      BY DEF Explained, IInv, JobInv
    <2>2. job[p].step \in ClosingSteps => job[p].incident \in Incidents
      BY <2>1 DEF JobOK, RowSteps
    <2> QED
      BY <1>1, <2>1, <2>2 DEF Prepared
  <1> QED
    BY <1>1, <1>2 DEF Explained, AlertsExplained, NoSilentIncident, NoSilentRecovery

LEMMA ExplainedInductive == IInv /\ Explained /\ [Next]_vars => Explained'
  <1> SUFFICES ASSUME IInv, Explained, [Next]_vars PROVE Explained'
    OBVIOUS
  <1>1. Workers \cup DeadLetterWorkers \subseteq Processes /\ Clients \subseteq Processes
    BY DEF Processes
  <1>2. ASSUME NEW w \in Workers, NEW m \in Monitors, NEW r \in Results, PushResult(w, m, r)
        PROVE  Explained'
    BY <1>1, <1>2, QuietsExplained DEF Quiet
  <1>3. ASSUME NEW w \in Workers, Evaluate(w) PROVE Explained'
    BY <1>1, <1>3, QuietsExplained, GroupingExplained, NotesExplained, DoneExplained,
       UpdatesExplained DEF Evaluate, Quiet
  <1>4. ASSUME NEW p \in Workers \cup DeadLetterWorkers, Insert(p) PROVE Explained'
    BY <1>1, <1>4, QuietsExplained, InsertRowExplained DEF Insert, Quiet
  <1>5. ASSUME NEW d \in DeadLetterWorkers, NEW m \in Monitors, DeadLetter(d, m)
        PROVE  Explained'
    BY <1>1, <1>5, QuietsExplained DEF Quiet
  <1>6. ASSUME NEW d \in DeadLetterWorkers, NoteDeadLettered(d) PROVE Explained'
    BY <1>1, <1>6, DoneExplained
  <1>7. ASSUME NEW c \in Clients, NEW i \in Incidents, AckGet(c, i) \/ ManualGet(c, i)
        PROVE  Explained'
    BY <1>1, <1>7, QuietsExplained DEF Quiet
  <1>8. ASSUME NEW c \in Clients, Serve(c) PROVE Explained'
    BY <1>1, <1>8, QuietsExplained, UpdatesExplained, DoneExplained DEF Serve, Quiet
  <1>9. CASE Environment
    BY <1>9, DoneExplained, GroupingExplained, NotesExplained, WindowExplained DEF Environment
  <1> QED
    BY <1>2, <1>3, <1>4, <1>5, <1>6, <1>7, <1>8, <1>9, WindowExplained DEF Next

LEMMA AlwaysExplained == Spec => []Explained
  BY Invariance, InitiallyExplained, ExplainedInductive, PTL DEF Spec

(* Wherever a process is cut short, what the alert worker reads of an      *)
(* incident explains the alert.                                            *)
THEOREM AlertsExplainedHolds == Spec => []AlertsExplained
  <1>1. Explained => AlertsExplained
    BY DEF Explained
  <1> QED
    BY <1>1, AlwaysExplained, PTL

(* Without a fault, an incident that opens is announced, or its opener is  *)
(* still at work on it.                                                    *)
THEOREM NoSilentIncidentHolds == Spec => []NoSilentIncident
  <1>1. Explained => NoSilentIncident
    BY DEF Explained
  <1> QED
    BY <1>1, AlwaysExplained, PTL

(* Without a fault, so is its end. *)
THEOREM NoSilentRecoveryHolds == Spec => []NoSilentRecovery
  <1>1. Explained => NoSilentRecovery
    BY DEF Explained
  <1> QED
    BY <1>1, AlwaysExplained, PTL

-----------------------------------------------------------------------------
(* The lock of the groups *)

(* Whoever is about to make a group has the lock, and what it has read of  *)
(* the groups is still true.                                               *)
Ungrouped(i) == incident[i].group = None

GroupOK(p, k) ==
    k.step = "grouping" =>
       /\ groupLock = p
       /\ k.group = None => \A i \in k.batch : Ungrouped(i)

GroupInv == \A p \in Processes : GroupOK(p, job[p])

LEMMA GroupsOfNone ==
  ASSUME NEW S
  PROVE  GroupsOf(S) = {} <=> \A i \in S : Ungrouped(i)
  BY DEF GroupsOf, Ungrouped

(* Process p goes on with the job k.  It groups incidents, or moves the    *)
(* lock, only if nobody else is grouping.                                  *)
LEMMA GroupStep ==
  ASSUME IInv, GroupInv,
         NEW p \in Processes, NEW k, job' = [job EXCEPT ![p] = k],
         GroupOK(p, k)',
         \/ /\ \A i \in Incidents : Ungrouped(i) => Ungrouped(i)'
            /\ \A q \in Processes \ {p} : groupLock = q => groupLock' = q
         \/ groupLock \in {None, p}
  PROVE  GroupInv'
  <1> SUFFICES ASSUME NEW q \in Processes PROVE GroupOK(q, job[q])'
    BY DEF GroupInv
  <1>1. job'[q] = IF q = p THEN k ELSE job[q]
    BY DEF IInv, TypeOK
  <1>2. CASE q = p
    BY <1>1, <1>2 DEF GroupOK, Ungrouped
  <1>3. CASE q # p
    <2>1. GroupOK(q, job[q]) /\ job[q].batch \subseteq Incidents /\ job'[q] = job[q] /\ q # None
      BY <1>1, <1>3, ProcessAssumption DEF GroupInv, IInv, JobInv, JobOK, Job, Processes
    <2>2. CASE groupLock \in {None, p}
      BY <1>3, <2>1, <2>2 DEF GroupOK
    <2>3. CASE /\ \A i \in Incidents : Ungrouped(i) => Ungrouped(i)'
               /\ \A r \in Processes \ {p} : groupLock = r => groupLock' = r
      BY <1>3, <2>1, <2>3 DEF GroupOK, Ungrouped
    <2> QED
      BY <2>2, <2>3
  <1> QED
    BY <1>2, <1>3

LEMMA GroupBeginGroups ==
  ASSUME IInv, GroupInv, NEW w \in Workers, GroupBegin(w)
  PROVE  GroupInv'
  <1>0. PICK b : b = RecentlyOpened
    OBVIOUS
  <1>1. PICK g \in IF GroupsOf(RecentlyOpened) = {} THEN {None}
                   ELSE GroupsOf(RecentlyOpened) :
           job' = [job EXCEPT ![w].step = "grouping", ![w].group = g, ![w].batch = b]
    BY <1>0 DEF GroupBegin
  <1>2. PICK k : k = [job[w] EXCEPT !.step = "grouping", !.group = g, !.batch = b]
    OBVIOUS
  <1>3. /\ w \in Processes /\ job' = [job EXCEPT ![w] = k]
        /\ k.group = g /\ k.batch = b
        /\ groupLock = None /\ groupLock' = w /\ UNCHANGED incident
    <2>1. w \in Processes /\ job[w] \in Job /\ job \in [Processes -> Job]
      BY DEF Processes, IInv, TypeOK
    <2>2. job' = [job EXCEPT ![w] = k]
      BY <1>1, <1>2, <2>1
    <2>3. k.group = g /\ k.batch = b
      BY <1>2, <2>1 DEF Job
    <2> QED
      BY <2>1, <2>2, <2>3 DEF GroupBegin
  <1>4. g = None => \A i \in b : Ungrouped(i)
    <2>1. None \notin GroupsOf(RecentlyOpened)
      BY DEF GroupsOf
    <2> QED
      BY <1>0, <1>1, <2>1, GroupsOfNone
  <1>5. GroupOK(w, k)'
    BY <1>3, <1>4 DEF GroupOK, Ungrouped
  <1> QED
    BY <1>3, <1>5, GroupStep

LEMMA GroupEndGroups ==
  ASSUME IInv, GroupInv, NEW w \in Workers,
         GroupNotNeeded(w) \/ GroupJoin(w) \/ GroupCreate(w) \/ GroupFails(w)
  PROVE  GroupInv'
  <1>1. PICK k : k = job'[w]
    OBVIOUS
  <1>2. w \in Processes /\ job \in [Processes -> Job]
    BY DEF Processes, IInv, TypeOK
  <1>3. job' = [job EXCEPT ![w] = k] /\ k.step = "grouped"
    <2>1. CASE GroupNotNeeded(w)
      BY <1>1, <1>2, <2>1 DEF GroupNotNeeded, Goto, Job
    <2>2. CASE GroupJoin(w) \/ GroupCreate(w) \/ GroupFails(w)
      BY <1>1, <1>2, <2>2 DEF GroupJoin, GroupCreate, GroupFails, Resume, IdleJob
    <2> QED
      BY <2>1, <2>2
  <1>4. GroupOK(w, k)'
    BY <1>3 DEF GroupOK
  <1>5. CASE GroupJoin(w) \/ GroupCreate(w)
    <2>1. groupLock = w
      BY <1>2, <1>5 DEF GroupJoin, GroupCreate, At, GroupInv, GroupOK
    <2> QED
      BY <1>2, <1>3, <1>4, <2>1, GroupStep
  <1>6. CASE GroupNotNeeded(w) \/ GroupFails(w)
    <2>1. \A i \in Incidents : Ungrouped(i) => Ungrouped(i)'
      BY <1>6 DEF GroupNotNeeded, GroupFails, Ungrouped
    <2>2. \A q \in Processes \ {w} : groupLock = q => groupLock' = q
      BY <1>6 DEF GroupNotNeeded, GroupFails, locks
    <2> QED
      BY <1>2, <1>3, <1>4, <2>1, <2>2, GroupStep
  <1> QED
    BY <1>5, <1>6

LEMMA QuietGroups ==
  ASSUME IInv, GroupInv, NEW p \in Processes, Quiet(p)
  PROVE  GroupInv'
  <1>1. PICK k : k = job'[p]
    OBVIOUS
  <1>2. GroupOK(p, k)'
    BY <1>1, QuietFacts DEF GroupOK
  <1>3. /\ \A i \in Incidents : Ungrouped(i) => Ungrouped(i)'
        /\ groupLock' = groupLock
    BY QuietFacts DEF Ungrouped
  <1> QED
    BY <1>1, <1>2, <1>3, QuietFacts, GroupStep

(* The other steps of a process end in Goto, Resume or Leave. *)
LEMMA OthersGroups ==
  ASSUME IInv, GroupInv, NEW p \in Processes,
         \/ NoteDetected(p) \/ EnqueueOpened(p) \/ ResolveRow(p) \/ CountGroup(p) \/ ResolveGroup(p)
         \/ ResolveGroupFails(p) \/ NoteRecovered(p) \/ EnqueueResolved(p)
         \/ NoteDeadLettered(p) \/ AckUpdate(p) \/ ManualUpdate(p) \/ NoteManual(p)
         \/ InsertRow(p) \/ Abort(p)
  PROVE  GroupInv'
  <1>1. PICK k : k = job'[p]
    OBVIOUS
  <1>2. job \in [Processes -> Job] /\ incident \in [Incidents -> Row]
    BY DEF IInv, TypeOK
  <1>3. job' = [job EXCEPT ![p] = k] /\ k.step # "grouping"
    <2>1. CASE \/ NoteDetected(p) \/ CountGroup(p) \/ ResolveGroup(p) \/ ResolveGroupFails(p)
               \/ NoteRecovered(p) \/ AckUpdate(p) \/ ManualUpdate(p)
      BY <1>1, <1>2, <2>1 DEF NoteDetected, CountGroup, ResolveGroup, ResolveGroupFails,
         NoteRecovered, AckUpdate, ManualUpdate, Goto, Job
    <2>2. CASE \/ EnqueueOpened(p) \/ EnqueueResolved(p) \/ NoteDeadLettered(p) \/ NoteManual(p)
               \/ Abort(p)
      BY <1>1, <1>2, <2>2 DEF EnqueueOpened, EnqueueResolved, SendAlert, NoteDeadLettered, NoteManual,
         Abort, Leave, IdleJob
    <2>3. CASE ResolveRow(p)
      BY <1>1, <1>2, <2>3 DEF ResolveRow, Resume, IdleJob
    <2>4. CASE InsertRow(p)
      <3>1. PICK i \in Incidents : Resume(p, AfterInsert(p), i, None)
        BY <2>4 DEF InsertRow
      <3> QED
        BY <1>1, <1>2, <3>1 DEF Resume, AfterInsert, IdleJob
    <2> QED
      BY <2>1, <2>2, <2>3, <2>4
  <1>4. \A i \in Incidents : Ungrouped(i) => Ungrouped(i)'
    <2>1. CASE UNCHANGED incident
      BY <2>1 DEF Ungrouped
    <2>2. CASE ResolveRow(p) \/ ManualUpdate(p) \/ AckUpdate(p)
      BY <1>2, <2>2 DEF ResolveRow, ManualUpdate, AckUpdate, SetResolved, Row, Ungrouped
    <2>3. CASE InsertRow(p)
      BY <1>2, <2>3 DEF InsertRow, Ungrouped
    <2> QED
      BY <2>1, <2>2, <2>3 DEF NoteDetected, EnqueueOpened, CountGroup, ResolveGroup, ResolveGroupFails,
         NoteRecovered, EnqueueResolved, NoteDeadLettered, NoteManual, SendAlert, Abort
  <1>5. \A q \in Processes \ {p} : groupLock = q => groupLock' = q
    <2>1. CASE Abort(p)
      BY <2>1 DEF Abort
    <2>2. CASE ~Abort(p)
      <3>1. UNCHANGED groupLock
        BY <2>2, Zenon DEF NoteDetected, EnqueueOpened, ResolveRow, CountGroup, ResolveGroup,
           ResolveGroupFails, NoteRecovered, EnqueueResolved, NoteDeadLettered, NoteManual, AckUpdate,
           ManualUpdate, InsertRow, SendAlert, locks
      <3> QED
        BY <3>1
    <2> QED
      BY <2>1, <2>2
  <1>6. GroupOK(p, k)'
    BY <1>3 DEF GroupOK
  <1> QED
    BY <1>3, <1>4, <1>5, <1>6, GroupStep

LEMMA GroupInductive == IInv /\ GroupInv /\ [Next]_vars => GroupInv'
  <1> SUFFICES ASSUME IInv, GroupInv, [Next]_vars PROVE GroupInv'
    OBVIOUS
  <1>1. Workers \cup DeadLetterWorkers \subseteq Processes /\ Clients \subseteq Processes
    BY DEF Processes
  <1>2. ASSUME NEW w \in Workers, NEW m \in Monitors, NEW r \in Results, PushResult(w, m, r)
        PROVE  GroupInv'
    BY <1>1, <1>2, QuietGroups DEF Quiet
  <1>3. ASSUME NEW w \in Workers, Evaluate(w) PROVE GroupInv'
    BY <1>1, <1>3, QuietGroups, GroupBeginGroups, GroupEndGroups, OthersGroups DEF Evaluate, Quiet
  <1>4. ASSUME NEW p \in Workers \cup DeadLetterWorkers, Insert(p) PROVE GroupInv'
    BY <1>1, <1>4, QuietGroups, OthersGroups DEF Insert, Quiet
  <1>5. ASSUME NEW d \in DeadLetterWorkers, NEW m \in Monitors, DeadLetter(d, m)
        PROVE  GroupInv'
    BY <1>1, <1>5, QuietGroups DEF Quiet
  <1>6. ASSUME NEW d \in DeadLetterWorkers, NoteDeadLettered(d) PROVE GroupInv'
    BY <1>1, <1>6, OthersGroups
  <1>7. ASSUME NEW c \in Clients, NEW i \in Incidents, AckGet(c, i) \/ ManualGet(c, i)
        PROVE  GroupInv'
    BY <1>1, <1>7, QuietGroups DEF Quiet
  <1>8. ASSUME NEW c \in Clients, Serve(c) PROVE GroupInv'
    BY <1>1, <1>8, QuietGroups, OthersGroups DEF Serve, Quiet
  <1>9. ASSUME NEW i \in Incidents, LeaveGroupWindow(i) PROVE GroupInv'
    <2>1. /\ UNCHANGED <<job, groupLock>>
          /\ \A n \in Incidents : incident'[n].group = incident[n].group
      BY <1>9 DEF LeaveGroupWindow, locks, IInv, TypeOK, Row
    <2>2. \A p \in Processes : job[p].batch \subseteq Incidents
      BY DEF IInv, JobInv, JobOK, Job
    <2> QED
      BY <2>1, <2>2 DEF GroupInv, GroupOK, Ungrouped
  <1>10. CASE Environment
    BY <1>9, <1>10, OthersGroups, GroupEndGroups, <1>1 DEF Environment
  <1>11. CASE UNCHANGED vars
    BY <1>11 DEF vars, locks, GroupInv, GroupOK, Ungrouped
  <1> QED
    BY <1>2, <1>3, <1>4, <1>5, <1>6, <1>7, <1>8, <1>10, <1>11 DEF Next

(* However many evaluators see the burst, what one of them is about to put *)
(* in a new group is in none.                                              *)
THEOREM LockProtectsGroupHolds == Spec => []LockProtectsGroup
  <1>1. Init => GroupInv
    BY DEF Init, GroupInv, GroupOK, IdleJob
  <1>2. GroupInv => LockProtectsGroup
    <2> SUFFICES ASSUME GroupInv, NEW w \in Workers, job[w].step = "grouping", job[w].group = None
                 PROVE  GroupsOf(job[w].batch) = {}
      BY DEF LockProtectsGroup, At
    <2>1. \A i \in job[w].batch : Ungrouped(i)
      BY DEF GroupInv, GroupOK, Processes
    <2> QED
      BY <2>1, GroupsOfNone
  <1> QED
    BY <1>1, <1>2, Invariance, GroupInductive, PTL DEF Spec
=============================================================================
