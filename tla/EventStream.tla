---------------------------- MODULE EventStream ----------------------------
(***************************************************************************)
(* The stream of live events of a workspace, from the incident that is     *)
(* committed to the page that is told of it: the relay of an API process   *)
(* (RedisSubscriber), its register of open connections (SSEManager), the   *)
(* route that checks who asks, registers the connection and then reads a   *)
(* snapshot, the shutdown and restart of the process, and the hook of the  *)
(* page that connects, waits and connects again (useSSE).  One process and *)
(* one page; connections of the page overlap, since the process learns     *)
(* late that one was closed.                                               *)
(***************************************************************************)
EXTENDS Naturals, FiniteSets

CONSTANTS
    Connections,        \* connections that exist at once (a bound)
    None,               \* no connection, no snapshot
    MaxConnections,     \* SSE_MAX_CONNECTIONS_PER_WORKSPACE
    Incidents,          \* 1..n in the order of started_at (a bound)
    Existing,           \* the sets of those that may be there at first
    MaxFailures           \* stops of the process and lost messages or answers (a bound)

ASSUME StreamAssumption ==
    /\ None \notin Connections \cup Incidents
    /\ MaxConnections \in Nat \ {0} /\ MaxFailures \in Nat
    /\ Incidents \subseteq Nat /\ IsFiniteSet(Incidents) /\ Existing \subseteq SUBSET Incidents

VARIABLES
    committed,   \* incidents that are committed
    announced,   \* those published on incident-events
    missed,      \* history: those published while the relay was cut off from Redis
    process,     \* "up", "draining" or "down"
    step,        \* how far the process is with a connection
    registered,  \* connections that broadcast writes to
    drained,     \* connections of the set that drainAll took from the map
    snap,        \* the incidents in the snapshot that a connection was sent, or None
    told,        \* the incidents announced to a connection
    source,      \* the connection of the page's EventSource, or None
    timer,       \* is a reconnect due?
    mounted,     \* is the page shown?
    authorized,  \* do its requests pass authenticate and getMemberRole?
    failures

serverVars == <<process, step, registered, drained, snap, told>>
pageVars   == <<source, timer, mounted, authorized>>
streamVars == <<committed, announced, missed, serverVars, pageVars, failures>>

(* A request that will not pass is a "stranger"; one whose page hung up    *)
(* before add is "gone", and once it is added a "ghost"; the process has   *)
(* "ended" a response it has not closed yet.                               *)
Steps == {"requested", "stranger", "gone", "added", "read", "streaming", "ghost", "ended", "closed"}

Open == {"added", "read", "streaming"}

(* Does the page hear what broadcast writes? *)
Tuned == source \in registered /\ step[source] \in Open

StreamTypeOK ==
    /\ committed \subseteq Incidents /\ announced \subseteq committed /\ missed \subseteq announced
    /\ process \in {"up", "draining", "down"}
    /\ step \in [Connections -> Steps]
    /\ registered \subseteq Connections /\ drained \subseteq Connections
    /\ snap \in [Connections -> {None} \cup SUBSET committed]
    /\ told \in [Connections -> SUBSET announced]
    /\ source \in Connections \cup {None}
    /\ timer \in BOOLEAN /\ mounted \in BOOLEAN /\ authorized \in BOOLEAN
    /\ source # None => mounted /\ ~timer
    /\ failures \in 0..MaxFailures

StreamInit ==
    /\ committed \in Existing /\ announced = committed /\ missed = {}
    /\ process = "up"
    /\ step = [k \in Connections |-> "closed"]
    /\ registered = {} /\ drained = {}
    /\ snap = [k \in Connections |-> None]
    /\ told = [k \in Connections |-> {}]
    /\ source = None /\ timer = FALSE /\ mounted = FALSE /\ authorized = FALSE
    /\ failures = 0

Goto(k, s) == step' = [step EXCEPT ![k] = s]

(* What a connection was sent matters as long as it is open. *)
Forget(ended) ==
    /\ snap' = [k \in Connections |-> IF k \in ended THEN None ELSE snap[k]]
    /\ told' = [k \in Connections |-> IF k \in ended THEN {} ELSE told[k]]

Failure == failures < MaxFailures /\ failures' = failures + 1

-----------------------------------------------------------------------------
(* A worker commits an incident; overlapping ones commit in any order. *)
Commit(i) ==
    /\ i \notin committed
    /\ committed' = committed \cup {i}
    /\ UNCHANGED <<announced, missed, serverVars, pageVars, failures>>

(* Mutant: connections are registered after their snapshot. *)
AnnounceToStreaming(i) ==
    /\ i \in committed \ announced
    /\ announced' = announced \cup {i}
    /\ told' = [k \in Connections |->
                  IF k \in registered /\ step[k] = "streaming" THEN told[k] \cup {i} ELSE told[k]]
    /\ UNCHANGED <<committed, missed, process, step, registered, drained, snap, pageVars, failures>>

(* handleMessage and broadcast, one synchronous run: the message names the *)
(* workspace and is written to every registered connection.  With no       *)
(* process it reaches nobody.                                              *)
Announce(i) ==
    /\ i \in committed \ announced
    /\ announced' = announced \cup {i}
    /\ told' = [k \in Connections |->
                  IF k \in registered /\ process # "down" THEN told[k] \cup {i} ELSE told[k]]
    /\ UNCHANGED <<committed, missed, process, step, registered, drained, snap, pageVars, failures>>

(* Published while the subscriber is reconnecting to Redis. *)
Unheard(i) ==
    /\ i \in committed \ announced
    /\ Failure
    /\ announced' = announced \cup {i}
    /\ missed' = missed \cup {i}
    /\ UNCHANGED <<committed, serverVars, pageVars>>

-----------------------------------------------------------------------------
(* authenticate's 401, or 403 for one that getMemberRole does not find.    *)
Deny(k) ==
    /\ step[k] = "stranger" \/ (step[k] \in {"requested", "gone"} /\ ~authorized)
    /\ process # "down"
    /\ Goto(k, "closed")
    /\ UNCHANGED <<committed, announced, missed, process, registered, drained, snap, told, pageVars,
                   failures>>

(* The route after those two: add, and the first bytes.  A ghost's 'close' *)
(* is over by now: nothing will remove it.                                 *)
Add(k) ==
    /\ step[k] \in {"requested", "gone"} /\ process # "down"
    /\ Cardinality(registered) < MaxConnections
    /\ registered' = registered \cup {k}
    /\ Goto(k, IF step[k] = "gone" THEN "ghost" ELSE "added")
    /\ UNCHANGED <<committed, announced, missed, process, drained, snap, told, pageVars, failures>>

(* add returned null: TOO_MANY_CONNECTIONS, and the response ends. *)
Full(k) ==
    /\ step[k] \in {"requested", "gone"} /\ process # "down"
    /\ Cardinality(registered) >= MaxConnections
    /\ Goto(k, "closed")
    /\ UNCHANGED <<committed, announced, missed, process, registered, drained, snap, told, pageVars,
                   failures>>

(* The open incidents are read, and then written after what was live       *)
(* meanwhile.                                                              *)
ReadSnapshot(k) ==
    /\ step[k] = "added"
    /\ snap' = [snap EXCEPT ![k] = committed]
    /\ Goto(k, "read")
    /\ UNCHANGED <<committed, announced, missed, process, registered, drained, told, pageVars, failures>>

WriteSnapshot(k) ==
    /\ step[k] = "read"
    /\ Goto(k, "streaming")
    /\ UNCHANGED <<committed, announced, missed, process, registered, drained, snap, told, pageVars,
                   failures>>

(* Best effort: the connection stays without. *)
SnapshotFails(k) ==
    /\ step[k] = "added"
    /\ Failure
    /\ Goto(k, "streaming")
    /\ UNCHANGED <<committed, announced, missed, process, registered, drained, snap, told, pageVars>>

(* remove, of the set the connection was added to; when that set is empty  *)
(* the entry of the workspace goes, which after drainAll is a newer set.   *)
TakeOut(k) ==
    /\ drained' = drained \ {k}
    /\ registered' = IF drained = {k} THEN {} ELSE registered \ {k}

(* The process learns that a connection is closed. *)
Close(k) ==
    /\ step[k] = "ended" \/ (step[k] \in Open /\ source # k)
    /\ TakeOut(k) /\ Forget({k})
    /\ Goto(k, "closed")
    /\ UNCHANGED <<committed, announced, missed, process, pageVars, failures>>

CloseEarly(k) ==
    /\ step[k] = "requested" /\ source # k
    /\ Goto(k, "gone")
    /\ UNCHANGED <<committed, announced, missed, process, registered, drained, snap, told, pageVars,
                   failures>>

-----------------------------------------------------------------------------
(* shutdown: drainAll ends every registered response and clears the map.   *)
Drain ==
    /\ process = "up" /\ Failure
    /\ process' = "draining"
    /\ step' = [k \in Connections |->
                  IF k \in registered THEN (IF step[k] = "ghost" THEN "closed" ELSE "ended")
                  ELSE step[k]]
    /\ registered' = {}
    /\ drained' = registered
    /\ Forget(registered)
    /\ UNCHANGED <<committed, announced, missed, pageVars>>

(* The process exits, after its 10 s or by a crash: its sockets close. *)
Stops ==
    /\ process' = "down"
    /\ step' = [k \in Connections |-> IF step[k] \in {"requested", "stranger"} THEN step[k] ELSE "closed"]
    /\ registered' = {} /\ drained' = {}
    /\ Forget(Connections)
    /\ UNCHANGED <<committed, announced, missed, pageVars>>

ProcessExits  == process = "draining" /\ Stops /\ UNCHANGED failures
Crash == process = "up" /\ Failure /\ Stops

(* No listener, or a closed one. *)
Refuse(k) ==
    /\ step[k] \in {"requested", "stranger"} /\ process # "up"
    /\ Goto(k, "closed")
    /\ UNCHANGED <<committed, announced, missed, process, registered, drained, snap, told, pageVars,
                   failures>>

Restart ==
    /\ process = "down"
    /\ process' = "up"
    /\ UNCHANGED <<committed, announced, missed, step, registered, drained, snap, told, pageVars, failures>>

-----------------------------------------------------------------------------
Idle == {k \in Connections : step[k] = "closed" /\ source # k}

(* new EventSource: at once when the page is shown, or when the timer is   *)
(* up.                                                                     *)
Connect ==
    /\ Idle # {}
    /\ LET k == CHOOSE k \in Idle : TRUE IN
         source' = k /\ Goto(k, IF authorized' THEN "requested" ELSE "stranger")
    /\ timer' = FALSE
    /\ UNCHANGED <<committed, announced, missed, process, registered, drained, snap, told, failures>>

(* The browser's own EventSource, which useSSE opens, sends no             *)
(* Authorization header and is never authorized; the one of the end-to-end *)
(* test sends it.                                                          *)
Show      == ~mounted /\ mounted' = TRUE /\ authorized' \in BOOLEAN /\ Connect
Reconnect == timer /\ UNCHANGED <<mounted, authorized>> /\ Connect

(* The token expires or the membership ends; what streams goes on.         *)
AuthorizationEnds ==
    /\ authorized
    /\ authorized' = FALSE
    /\ UNCHANGED <<committed, announced, missed, serverVars, source, timer, mounted, failures>>

(* Mutant: onerror closes for good. *)
OnErrorForGood ==
    /\ source # None /\ step[source] \in {"ended", "closed"}
    /\ source' = None
    /\ UNCHANGED <<committed, announced, missed, serverVars, timer, mounted, authorized, failures>>

(* onerror, on an 'error' event or the end of the response: close, and     *)
(* connect again later.                                                    *)
OnError ==
    /\ source # None /\ step[source] \in {"ended", "closed"}
    /\ source' = None /\ timer' = TRUE
    /\ UNCHANGED <<committed, announced, missed, serverVars, mounted, authorized, failures>>

(* The effect's cleanup. *)
Leave ==
    /\ mounted
    /\ source' = None /\ timer' = FALSE /\ mounted' = FALSE /\ authorized' = FALSE
    /\ UNCHANGED <<committed, announced, missed, serverVars, failures>>
=============================================================================
