------------------------------- MODULE Access -------------------------------
(***************************************************************************)
(* Who may do what in a workspace: the roles of its members, the cache of  *)
(* roles in Redis with one lookup per process and user at a time, the team *)
(* routes that change roles and invalidate the cache, API keys, and a      *)
(* feature flag behind a cache of its own.  A request runs over several    *)
(* awaits: the role that was looked up may have changed when it is used or *)
(* stored.                                                                 *)
(***************************************************************************)
EXTENDS Integers

CONSTANTS
    Users, Founder,     \* the founder owns the workspace at first
    Processes,          \* API processes
    Requests,           \* requests under way at once (a bound)
    Seed,               \* the flag as its migration inserts it
    Settings,           \* values of the flag: [enabled |-> BOOLEAN, pct |-> 0..100]
    Bucket,             \* the hash of the workspace, 0..99
    MaxChanges,         \* committed changes of roles and of the flag (a bound)
    MaxFaults           \* failures of Redis, the database or a process (a bound)

ASSUME AccessAssumption ==
    /\ Founder \in Users
    /\ Seed \in Settings /\ Settings \subseteq [enabled : BOOLEAN, pct : 0..100]
    /\ Bucket \in 0..99
    /\ MaxChanges \in Nat /\ MaxFaults \in Nat

VARIABLES
    members,      \* workspace_members: the role of a user, or "none"
    cache,        \* rbac:<user>:<workspace> in Redis
    flight,       \* the lookup that a process has under way for a user
    flags,        \* the rows of the flag in feature_flags, by scope: what each says
    flagCache,    \* ff:<flag>:<workspace> in Redis, if it is there
    keys,         \* the members for whom a live API key acts
    req,          \* the requests
    held,         \* history: the roles a user has had
    excused,      \* history: a change overtook a lookup, or lost its del
    changes, faults

vars == <<members, cache, flight, flags, flagCache, keys, req, held, excused, changes, faults>>

Roles == {"viewer", "admin", "owner"}
Rank  == [none |-> 0, viewer |-> 1, admin |-> 2, owner |-> 3]
Scopes == {"workspace", "global"}
Lookups == Processes \X Users

Idle == [step |-> "idle"]

TypeOK ==
    /\ members \in [Users -> Roles \cup {"none"}]
    /\ cache \in [Users -> Roles \cup {"none", "absent"}]
    /\ flight \in [Lookups -> Roles \cup {"none", "grounded", "reading"}]
    /\ flags \in [Scopes -> SUBSET Settings]
    /\ flagCache \subseteq BOOLEAN
    /\ keys \subseteq Users
    /\ \A r \in Requests :
          req[r] \in
            {Idle} \cup [step : {"get", "lookup"}, process : Processes, user : Users]
                   \cup [step : {"decided"}, process : Processes, user : Users, role : Roles \cup {"none"}]
                   \cup [step : {"del"}, process : Processes, user : Users]
                   \cup [step : {"flagGet", "flagSet"}, process : Processes]
                   \cup [step : {"flagRead", "create"}, process : Processes, on : BOOLEAN]
    /\ held \in [Users -> SUBSET (Roles \cup {"none"})]
    /\ excused \subseteq Users
    /\ changes \in 0..MaxChanges /\ faults \in 0..MaxFaults

Init ==
    /\ members = [u \in Users |-> IF u = Founder THEN "owner" ELSE "none"]
    /\ cache = [u \in Users |-> "absent"]
    /\ flight = [f \in Lookups |-> "grounded"]
    /\ flags = [workspace |-> {}, global |-> {Seed}]
    /\ flagCache = {}
    /\ keys = {}
    /\ req = [r \in Requests |-> Idle]
    /\ held = [u \in Users |-> {members[u]}]
    /\ excused = {}
    /\ changes = 0 /\ faults = 0

Fault  == faults < MaxFaults /\ faults' = faults + 1
Change == changes < MaxChanges /\ changes' = changes + 1

Become(r, state) == req' = [req EXCEPT ![r] = state]

roles   == <<members, held, keys>>
caching == <<cache, flight, excused>>
flagged == <<flags, flagCache>>

-----------------------------------------------------------------------------
(* authenticate: a request comes from the user of its token, ...           *)
Arrive(r, p, u) ==
    /\ req[r] = Idle
    /\ Become(r, [step |-> "get", process |-> p, user |-> u])
    /\ UNCHANGED <<roles, caching, flagged, changes, faults>>

(* ... or for the creator of its API key.  The role of the key itself is   *)
(* not looked at.                                                          *)
ArriveWithKey(r, p, u) == u \in keys /\ Arrive(r, p, u)

Decided(p, u, role) == [step |-> "decided", process |-> p, user |-> u, role |-> role]

(* getMemberRole finds the role, or that there is none, in the cache.      *)
Hit(r) ==
    /\ req[r].step = "get"
    /\ cache[req[r].user] # "absent"
    /\ Become(r, Decided(req[r].process, req[r].user, cache[req[r].user]))
    /\ UNCHANGED <<roles, caching, flagged, changes, faults>>

(* A miss, or Redis fails: the request joins the lookup of its process,    *)
(* which it starts if there is none.                                       *)
Miss(r) ==
    LET f == <<req[r].process, req[r].user>> IN
    /\ req[r].step = "get"
    /\ IF cache[req[r].user] = "absent" THEN UNCHANGED faults ELSE Fault
    /\ flight' = [flight EXCEPT ![f] = IF @ = "grounded" THEN "reading" ELSE @]
    /\ Become(r, [req[r] EXCEPT !.step = "lookup"])
    /\ UNCHANGED <<roles, cache, excused, flagged, changes>>

(* Mutant: the lookups of a process are not told apart by their user. *)
JoinedByProcess(f) == {r \in Requests : req[r].step = "lookup" /\ req[r].process = f[1]}

Joined(f) == {r \in Requests : req[r].step = "lookup" /\ <<req[r].process, req[r].user>> = f}

(* findMember is answered, ...                                             *)
Read(f) ==
    /\ flight[f] = "reading"
    /\ flight' = [flight EXCEPT ![f] = members[f[2]]]
    /\ UNCHANGED <<roles, cache, excused, flagged, req, changes, faults>>

(* Mutant: who joined a lookup that fails is not told. *)
ReadFailsUntold(f) ==
    /\ flight[f] = "reading"
    /\ Fault
    /\ flight' = [flight EXCEPT ![f] = "grounded"]
    /\ UNCHANGED <<roles, cache, excused, flagged, req, changes>>

(* ... or fails for all that have joined.                                  *)
ReadFails(f) ==
    /\ flight[f] = "reading"
    /\ Fault
    /\ flight' = [flight EXCEPT ![f] = "grounded"]
    /\ req' = [r \in Requests |-> IF r \in Joined(f) THEN Idle ELSE req[r]]
    /\ UNCHANGED <<roles, cache, excused, flagged, changes>>

(* The role is stored, or is not, and the lookup leaves the map before     *)
(* those who joined it go on.                                              *)
Store(f) ==
    LET role == flight[f] IN
    /\ role \notin {"grounded", "reading"}
    /\ \/ /\ cache' = [cache EXCEPT ![f[2]] = role]
          /\ excused' = IF role = members[f[2]] THEN excused ELSE excused \cup {f[2]}
          /\ UNCHANGED faults
       \/ Fault /\ UNCHANGED <<cache, excused>>
    /\ flight' = [flight EXCEPT ![f] = "grounded"]
    /\ req' = [r \in Requests |->
                 IF r \in Joined(f) THEN Decided(req[r].process, req[r].user, role) ELSE req[r]]
    /\ UNCHANGED <<roles, flagged, changes>>

(* Mutant: entries are stored without a TTL. *)
NeverExpires(u) == FALSE /\ UNCHANGED vars

(* CACHE_TTL_SECONDS or NEGATIVE_CACHE_TTL_SEC have passed.                *)
Expire(u) ==
    /\ cache[u] # "absent"
    /\ cache' = [cache EXCEPT ![u] = "absent"]
    /\ excused' = excused \ {u}
    /\ UNCHANGED <<roles, flight, flagged, req, changes, faults>>

-----------------------------------------------------------------------------
(* authorize: ROLE_HIERARCHY *)
Authorized(r, minimum) == req[r].step = "decided" /\ Rank[req[r].role] >= Rank[minimum]

SetMember(r, v, role) ==
    /\ Change
    /\ members' = [members EXCEPT ![v] = role]
    /\ held' = [held EXCEPT ![v] = @ \cup {role}]
    /\ Become(r, [step |-> "del", process |-> req[r].process, user |-> v])
    /\ UNCHANGED <<keys, caching, flagged, faults>>

(* POST members: of a user who is a member already it sets the role.       *)
Invite(r, v) ==
    /\ Authorized(r, "admin")
    /\ \E role \in {"admin", "viewer"} : SetMember(r, v, role)

(* PATCH members *)
UpdateRole(r, v) ==
    /\ Authorized(r, "admin") /\ v # req[r].user
    /\ \E role \in {"admin", "viewer"} : SetMember(r, v, role)

(* DELETE members *)
Remove(r, v) ==
    /\ Authorized(r, "owner") /\ v # req[r].user
    /\ SetMember(r, v, "none")

(* Mutant: the cache is not told of a change. *)
InvalidateNothing(r) ==
    /\ req[r].step = "del"
    /\ Become(r, Idle)
    /\ UNCHANGED <<roles, caching, flagged, changes, faults>>

(* invalidateMembershipCache, whose failure is not fatal *)
Invalidate(r) ==
    LET v == req[r].user IN
    /\ req[r].step = "del"
    /\ \/ cache' = [cache EXCEPT ![v] = "absent"] /\ excused' = excused \ {v} /\ UNCHANGED faults
       \/ Fault /\ excused' = excused \cup {v} /\ UNCHANGED cache
    /\ Become(r, Idle)
    /\ UNCHANGED <<roles, flight, flagged, changes>>

(* ApiKeyRepository: create, and revoke of a key of user u *)
AddKey(u)  == keys' = keys \cup {u}
DropKey(u) == u \in keys /\ keys' = keys \ {u}

CreateKey(r) ==
    /\ Authorized(r, "admin")
    /\ Change
    /\ AddKey(req[r].user)
    /\ Become(r, Idle)
    /\ UNCHANGED <<members, held, caching, flagged, faults>>

RevokeKey(r, v) ==
    /\ Authorized(r, "admin")
    /\ DropKey(v)
    /\ Become(r, Idle)
    /\ UNCHANGED <<members, held, caching, flagged, changes, faults>>

KeyExpires(v) ==
    /\ DropKey(v)
    /\ UNCHANGED <<members, held, caching, flagged, req, changes, faults>>

(* 403, 400 or 404, or the request only reads. *)
Answer(r) ==
    /\ req[r].step = "decided"
    /\ Become(r, Idle)
    /\ UNCHANGED <<roles, caching, flagged, changes, faults>>

-----------------------------------------------------------------------------
(* isEnabled: an override of the workspace counts before the global rows,  *)
(* any of which may be the first, and no row is off.                       *)
Enabled(row) == row.enabled /\ (row.pct < 100 => Bucket < row.pct)

Outcomes ==
    LET rows == IF flags["workspace"] # {} THEN flags["workspace"] ELSE flags["global"]
    IN  IF rows = {} THEN {FALSE} ELSE {Enabled(row) : row \in rows}

(* POST monitors asks for the flag. *)
CreateMonitor(r) ==
    /\ Authorized(r, "admin")
    /\ Become(r, [step |-> "flagGet", process |-> req[r].process])
    /\ UNCHANGED <<roles, caching, flagged, changes, faults>>

FlagKnown(r, step, on) == Become(r, [step |-> step, process |-> req[r].process, on |-> on])

FlagHit(r) ==
    /\ req[r].step = "flagGet"
    /\ \E on \in flagCache : FlagKnown(r, "create", on)
    /\ UNCHANGED <<roles, caching, flagged, changes, faults>>

(* A miss, or Redis fails: the rows are read ...                           *)
FlagRead(r) ==
    /\ req[r].step = "flagGet"
    /\ IF flagCache = {} THEN UNCHANGED faults ELSE Fault
    /\ \E on \in Outcomes : FlagKnown(r, "flagRead", on)
    /\ UNCHANGED <<roles, caching, flagged, changes>>

(* ... and their outcome is stored. *)
FlagStore(r) ==
    /\ req[r].step = "flagRead"
    /\ \/ flagCache' = {req[r].on} /\ UNCHANGED faults
       \/ Fault /\ UNCHANGED flagCache
    /\ FlagKnown(r, "create", req[r].on)
    /\ UNCHANGED <<roles, caching, flags, changes>>

(* MonitorService.create goes on with the flag, see MonitorAdmin. *)
Create(r) ==
    /\ req[r].step = "create"
    /\ Become(r, Idle)
    /\ UNCHANGED <<roles, caching, flagged, changes, faults>>

FlagExpires ==
    /\ flagCache # {}
    /\ flagCache' = {}
    /\ UNCHANGED <<roles, caching, flags, req, changes, faults>>

(* The upsert: a row of the workspace conflicts with the one there is and  *)
(* replaces it; a global one, whose workspace is NULL, conflicts with none *)
(* and is inserted beside it.                                              *)
SetRow(scope, s) ==
    flags' = [flags EXCEPT ![scope] = IF scope = "workspace" THEN {s} ELSE @ \cup {s}]

(* setFlag for the workspace, ...                                          *)
SetFlag(r) ==
    /\ Authorized(r, "admin")
    /\ Change
    /\ \E s \in Settings : SetRow("workspace", s)
    /\ Become(r, [step |-> "flagSet", process |-> req[r].process])
    /\ UNCHANGED <<roles, caching, flagCache, faults>>

(* ... which invalidates its own entry.                                    *)
InvalidateFlag(r) ==
    /\ req[r].step = "flagSet"
    /\ \/ flagCache' = {} /\ UNCHANGED faults
       \/ Fault /\ UNCHANGED flagCache
    /\ Become(r, Idle)
    /\ UNCHANGED <<roles, caching, flags, changes>>

(* setFlag without a workspace invalidates no entry of a workspace. *)
SetGlobal(s) ==
    /\ Change
    /\ SetRow("global", s)
    /\ UNCHANGED <<roles, caching, flagCache, req, faults>>

-----------------------------------------------------------------------------
RunsIn(r, p) == req[r] # Idle /\ req[r].process = p

(* A process dies with its lookups and its requests. *)
Crash(p) ==
    /\ Fault
    /\ \E r \in Requests : RunsIn(r, p)
    /\ flight' = [f \in Lookups |-> IF f[1] = p THEN "grounded" ELSE flight[f]]
    /\ req' = [r \in Requests |-> IF RunsIn(r, p) THEN Idle ELSE req[r]]
    /\ excused' = excused \cup {req[r].user : r \in {q \in Requests : RunsIn(q, p) /\ req[q].step = "del"}}
    /\ UNCHANGED <<roles, cache, flagged, changes>>

Proceed(r) ==
    \/ Hit(r) \/ Miss(r) \/ Invalidate(r) \/ Answer(r)
    \/ \E v \in Users : Invite(r, v) \/ UpdateRole(r, v) \/ Remove(r, v) \/ RevokeKey(r, v)
    \/ CreateKey(r)
    \/ CreateMonitor(r) \/ FlagHit(r) \/ FlagRead(r) \/ FlagStore(r) \/ Create(r)
    \/ SetFlag(r) \/ InvalidateFlag(r)

Lookup(f) == Read(f) \/ ReadFails(f) \/ Store(f)

Next ==
    \/ \E r \in Requests, p \in Processes, u \in Users : Arrive(r, p, u) \/ ArriveWithKey(r, p, u)
    \/ \E r \in Requests : Proceed(r)
    \/ \E f \in Lookups : Lookup(f)
    \/ \E u \in Users : Expire(u) \/ KeyExpires(u)
    \/ FlagExpires
    \/ \E s \in Settings : SetGlobal(s)
    \/ \E p \in Processes : Crash(p)

Spec == Init /\ [][Next]_vars

(* Redis and the database answer or fail, and an entry that is not stored  *)
(* anew expires.                                                           *)
Fairness ==
    /\ \A r \in Requests : WF_vars(Proceed(r))
    /\ \A f \in Lookups : WF_vars(Lookup(f))
    /\ \A u \in Users : WF_vars(Expire(u))
    /\ WF_vars(FlagExpires)

FairSpec == Spec /\ Fairness

-----------------------------------------------------------------------------
(* No request goes on with a role its user never had: neither a shared     *)
(* lookup nor the cache mixes users up or makes a role.                    *)
DecidedWasHeld ==
    \A r \in Requests : req[r].step = "decided" => req[r].role \in held[req[r].user]

(* A key acts for someone who was an admin when the request that created   *)
(* it was authorized, also after the cache, or the role, has changed.      *)
KeysAreOfAdmins == \A u \in keys : held[u] \cap {"admin", "owner"} # {}

(* A cached role is outdated only while the change has yet to invalidate   *)
(* it, or if the change overtook a lookup or its del was lost: every       *)
(* other change of a role is in force when its request is answered.        *)
StaleIsExcused ==
    \A u \in Users :
        \/ cache[u] \in {"absent", members[u]}
        \/ u \in excused
        \/ \E r \in Requests : req[r].step = "del" /\ req[r].user = u

(* Every change of a role takes effect for good in the end, also one that  *)
(* a lookup, a crash or a failure of Redis has hidden: decisions are then  *)
(* taken on the role that the user has.                                    *)
RoleTakesEffect ==
    \A u \in Users :
        <>[](\A r \in Requests :
               req[r].step = "decided" /\ req[r].user = u => req[r].role = members[u])

(* Monitors are in the end created by the flag as it is: by the row of the *)
(* workspace if there is one, and by some global row if there is none, of  *)
(* which every change of the global flag adds one without an invalidation. *)
FlagTakesEffect == <>[](\A r \in Requests : req[r].step = "create" => req[r].on \in Outcomes)

(* Every request is answered: nobody waits for a lookup that has failed.   *)
EveryRequestAnswered == \A r \in Requests : req[r] # Idle ~> req[r] = Idle

(* With the types: no decision and no key has more than a role that its    *)
(* user had (getMemberRole, authorize).                                    *)
AccessInv == TypeOK /\ DecidedWasHeld /\ KeysAreOfAdmins

(* What an administrator changed holds in the end (setFlag,                *)
(* invalidateMembershipCache and the times to live behind them).           *)
ChangesTakeEffect == RoleTakesEffect /\ FlagTakesEffect
=============================================================================
