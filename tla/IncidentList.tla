---------------------------- MODULE IncidentList ----------------------------
(***************************************************************************)
(* The page of a workspace's incidents on top of the stream: useIncidents  *)
(* reads the first page when it is shown and after every live event, and   *)
(* appends pages by cursor.  Requests overlap and are answered in any      *)
(* order.  findByWorkspace pages by (started_at, id); the cursor has the   *)
(* milliseconds of the last row, the rows have microseconds.               *)
(***************************************************************************)
EXTENDS EventStream, SequencesExt

CONSTANTS
    Timings,             \* the milliseconds the incidents may have begun in
    PageSize,
    MaxFetches           \* requests under way at once (a bound)

ASSUME ListAssumption ==
    /\ PageSize \in Nat \ {0} /\ MaxFetches \in Nat \ {0}
    /\ Timings \subseteq [Incidents -> Nat]
    /\ \A t \in Timings : \A i, j \in Incidents : i < j => t[i] <= t[j]

VARIABLES
    startedAt,    \* the millisecond an incident began in
    late,         \* history: incidents committed after one that began later
    view,         \* incidents, as the page shows them
    nextCursor,   \* the last incident of the last answer, or None
    loading,
    fetches,      \* requests under way, in the order they were made
    overlapped,   \* history: which of the requests that view is from overlapped another
    failed,       \* history: the last request for the first page failed
    heard         \* history: incidents the page was told of since it was shown

listVars == <<view, nextCursor, loading, fetches, overlapped, failed, heard>>
liveVars     == <<streamVars, startedAt, late, listVars>>

Fetches == [cursor : {None} \cup committed, replace : BOOLEAN, crossed : BOOLEAN,
            rows : {None} \cup Seq(committed)]

LiveTypeOK ==
    /\ StreamTypeOK
    /\ startedAt \in Timings
    /\ late \subseteq committed
    /\ view \in Seq(committed)
    /\ nextCursor \in committed \cup {None}
    /\ loading \in BOOLEAN /\ overlapped \subseteq {"refetch", "append"} /\ failed \in BOOLEAN
    /\ fetches \in Seq(Fetches) /\ Len(fetches) <= MaxFetches
    /\ \A n \in DOMAIN fetches : fetches[n].replace <=> fetches[n].cursor = None
    /\ heard \subseteq announced

ListInit ==
    /\ view = <<>> /\ nextCursor = None /\ loading = FALSE /\ fetches = <<>>
    /\ overlapped = {} /\ failed = FALSE /\ heard = {}

LiveInit ==
    /\ StreamInit /\ ListInit
    /\ startedAt \in Timings
    /\ late = {}

-----------------------------------------------------------------------------
(* fetchPage: the request leaves. *)
Request(list, c) ==
    /\ Len(list) < MaxFetches
    /\ fetches' = Append([n \in DOMAIN list |-> [list[n] EXCEPT !.crossed = TRUE]],
                         [cursor |-> c, replace |-> c = None, crossed |-> list # <<>>, rows |-> None])
    /\ loading' = TRUE

(* Mutant: an event while a request is under way is let go. *)
RefetchUnlessLoading ==
    /\ IF loading THEN UNCHANGED <<fetches, loading>> ELSE Request(fetches, None)
    /\ UNCHANGED <<view, nextCursor, overlapped, failed>>

Refetch == Request(fetches, None) /\ UNCHANGED <<view, nextCursor, overlapped, failed>>

LoadNextPage ==
    /\ mounted /\ nextCursor # None /\ ~loading
    /\ Request(fetches, nextCursor)
    /\ UNCHANGED <<streamVars, startedAt, late, view, nextCursor, overlapped, failed, heard>>

(* Rows after the cursor: none of its millisecond, whose microseconds the  *)
(* cursor has lost.                                                        *)
After(c) == IF c = None THEN committed ELSE {i \in committed : startedAt[i] < startedAt[c]}

Descending(s) == \A a, b \in DOMAIN s : a < b => s[a] > s[b]

(* ORDER BY ... DESC LIMIT: what is left out comes after a full page. *)
Page(c) ==
    {s \in UNION {[1..n -> After(c)] : n \in 0..PageSize} :
       /\ Descending(s)
       /\ \A i \in After(c) \ ToSet(s) : Len(s) = PageSize /\ i < Last(s)}

(* The database answers a request. *)
Answer(n) ==
    /\ fetches[n].rows = None
    /\ \E rows \in Page(fetches[n].cursor) : fetches' = [fetches EXCEPT ![n].rows = rows]
    /\ UNCHANGED <<streamVars, startedAt, late, view, nextCursor, loading, overlapped, failed, heard>>

Done(n) == fetches' = RemoveAt(fetches, n) /\ loading' = FALSE

(* The answer reaches the page. *)
Receive(n) ==
    LET f == fetches[n] IN
    /\ f.rows # None
    /\ Done(n)
    /\ view' = IF f.replace THEN f.rows ELSE view \o f.rows
    /\ nextCursor' = IF Len(f.rows) = PageSize THEN Last(f.rows) ELSE None
    /\ overlapped' = (IF f.replace THEN {} ELSE overlapped)
                        \cup (IF ~f.crossed THEN {} ELSE IF f.replace THEN {"refetch"} ELSE {"append"})
    /\ failed' = (failed /\ ~f.replace)
    /\ UNCHANGED <<streamVars, startedAt, late, heard>>

FetchFails(n) ==
    /\ Failure
    /\ Done(n)
    /\ failed' = (failed \/ fetches[n].replace)
    /\ UNCHANGED <<committed, announced, missed, serverVars, pageVars, startedAt, late, view, nextCursor,
                   overlapped, heard>>

-----------------------------------------------------------------------------
(* The page is shown: it connects and reads its first page. *)
ShowPage ==
    /\ Show
    /\ Request(<<>>, None)
    /\ UNCHANGED <<startedAt, late, view, nextCursor, overlapped, failed, heard>>

LeavePage ==
    /\ Leave
    /\ view' = <<>> /\ nextCursor' = None /\ loading' = FALSE /\ fetches' = <<>>
    /\ overlapped' = {} /\ failed' = FALSE /\ heard' = {}
    /\ UNCHANGED <<startedAt, late>>

CommitIncident(i) ==
    /\ Commit(i)
    /\ late' = IF \E j \in committed : j > i THEN late \cup {i} ELSE late
    /\ UNCHANGED <<startedAt, listVars>>

(* A live event makes the page read its first page again. *)
AnnounceIncident(i) ==
    /\ Announce(i)
    /\ IF Tuned
       THEN Refetch /\ heard' = heard \cup {i}
       ELSE UNCHANGED listVars
    /\ UNCHANGED <<startedAt, late>>

StreamStep ==
    /\ \/ \E i \in Incidents : Unheard(i)
       \/ \E k \in Connections :
             \/ Deny(k) \/ Add(k) \/ Full(k) \/ ReadSnapshot(k) \/ WriteSnapshot(k) \/ SnapshotFails(k)
             \/ Close(k) \/ CloseEarly(k) \/ Refuse(k)
       \/ Drain \/ ProcessExits \/ Crash \/ Restart \/ OnError \/ Reconnect \/ AuthorizationEnds
    /\ UNCHANGED <<startedAt, late, listVars>>

LiveNext ==
    \/ StreamStep
    \/ \E i \in Incidents : CommitIncident(i) \/ AnnounceIncident(i)
    \/ ShowPage \/ LeavePage \/ LoadNextPage
    \/ \E n \in DOMAIN fetches : Answer(n) \/ Receive(n) \/ FetchFails(n)

LiveSpec == LiveInit /\ [][LiveNext]_liveVars

Serve(k) ==
    Deny(k) \/ Add(k) \/ Full(k) \/ ReadSnapshot(k) \/ WriteSnapshot(k) \/ Close(k) \/ Refuse(k)

(* The process goes on with its connections and is started again, and the  *)
(* page hears of an end and connects when its timer is up.                 *)
LiveFairness ==
    /\ \A k \in Connections : WF_liveVars(Serve(k) /\ UNCHANGED <<startedAt, late, listVars>>)
    /\ WF_liveVars((ProcessExits \/ Restart) /\ UNCHANGED <<startedAt, late, listVars>>)
    /\ WF_liveVars((OnError \/ Reconnect) /\ UNCHANGED <<startedAt, late, listVars>>)

LiveFairSpec == LiveSpec /\ LiveFairness

-----------------------------------------------------------------------------
(* While the process is up, broadcast writes to exactly the connections    *)
(* that are open, whichever set they were added to and whichever closed    *)
(* meanwhile, and besides only to ghosts: requests whose page hung up      *)
(* before add.                                                             *)
RegistryIsExact ==
    process = "up" => registered = {k \in Connections : step[k] \in Open \cup {"ghost"}}

(* A connection that was sent its snapshot has no gap: every incident      *)
(* announced so far is in the snapshot or was announced to it, unless the  *)
(* relay was cut off.                                                      *)
NoGap ==
    \A k \in registered :
       (process = "up" /\ step[k] = "streaming" /\ snap[k] # None)
         => announced \ missed \subseteq snap[k] \cup told[k]

Shown == ToSet(view)

(* An incident as recent as one that is shown, and not shown. *)
Skipped == {i \in committed \ Shown : view # <<>> /\ i > Last(view)}

Excused(i) == i \in late \/ \E j \in Shown : startedAt[j] = startedAt[i]

(* The list pages through the incidents without repeating one and without  *)
(* leaving one out between two that are shown, whatever overlapped the     *)
(* reading of its first page.  Excused are a page appended by a request    *)
(* that overlapped another, until the first page is read again, and an     *)
(* incident committed late or in the millisecond of one that is shown.     *)
ListHasNoGap ==
    "append" \notin overlapped =>
       /\ IsInjective(view)
       /\ \A i \in Skipped : i < view[1] => Excused(i)

(* With the same excuses, a list that offers no next page goes down to the *)
(* first incident.                                                         *)
ListIsWhole ==
    ("append" \notin overlapped /\ nextCursor = None /\ view # <<>>)
      => \A i \in committed \ Shown : i < view[1] => Excused(i)

(* Once the requests it makes when it hears of an incident are answered,   *)
(* the list has the incident or ends above it, unless the last one for the *)
(* first page failed or any that the list is from overlapped another.      *)
ListIsCurrent ==
    (fetches = <<>> /\ overlapped = {} /\ ~failed)
      => \A i \in heard \ Shown : Excused(i) \/ (view # <<>> /\ i < Last(view))

Ghosts == {k \in Connections : step[k] = "ghost"}

(* A page that stays is connected again after every stop of the process,   *)
(* as long as its requests pass authenticate and getMemberRole and unless  *)
(* ghosts fill the workspace's connections.  (Those of useSSE never pass.) *)

PageGetsIn ==
    mounted ~> \/ ~mounted \/ ~authorized
               \/ source # None /\ step[source] = "streaming"
               \/ Cardinality(Ghosts) >= MaxConnections

(* With the types: whoever is registered is connected and hears all of it  *)
(* (SSEManager, events.routes).                                            *)
LiveInv == LiveTypeOK /\ RegistryIsExact /\ NoGap

(* The list is one stretch of the incidents and keeps up with the events   *)
(* it hears (useIncidents over findByWorkspace).                           *)
ListFollows == ListHasNoGap /\ ListIsWhole /\ ListIsCurrent
=============================================================================
