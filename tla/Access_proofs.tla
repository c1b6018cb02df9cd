---------------------------- MODULE Access_proofs ----------------------------
(* Roles, their cache and the keys, for any number of users, processes and *)
(* requests, of changes and of failures; and the sessions of a user, for   *)
(* any number of tabs, calls, logins and tokens.                           *)
EXTENDS Access, Sessions, FiniteSetTheorems, WellFoundedInduction, TLAPS

(* Where a request can stand. *)
States ==
    {Idle} \cup [step : {"get", "lookup"}, process : Processes, user : Users]
           \cup [step : {"decided"}, process : Processes, user : Users, role : Roles \cup {"none"}]
           \cup [step : {"del"}, process : Processes, user : Users]
           \cup [step : {"flagGet", "flagSet"}, process : Processes]
           \cup [step : {"flagRead", "create"}, process : Processes, on : BOOLEAN]

(* Every copy of a role, wherever it has got to, is one that its user had. *)
CopiesWereHeld ==
    /\ \A u \in Users : members[u] \in held[u] /\ cache[u] \in held[u] \cup {"absent"}
    /\ \A f \in Lookups : flight[f] \in held[f[2]] \cup {"grounded", "reading"}

IInv ==
    /\ TypeOK /\ req \in [Requests -> States]
    /\ CopiesWereHeld /\ DecidedWasHeld /\ KeysAreOfAdmins /\ StaleIsExcused

LEMMA Initially == Init => IInv
  <1> SUFFICES ASSUME Init PROVE IInv
    OBVIOUS
  <1>1. req \in [Requests -> States] /\ \A r \in Requests : req[r] = Idle
    BY DEF Init, States
  <1>2. TypeOK
    <2>1. changes \in 0..MaxChanges /\ faults \in 0..MaxFaults
      BY AccessAssumption DEF Init
    <2>2. flags \in [Scopes -> SUBSET Settings]
      BY AccessAssumption DEF Init, Scopes
    <2>3. /\ members \in [Users -> Roles \cup {"none"}]
          /\ cache \in [Users -> Roles \cup {"none", "absent"}]
          /\ flight \in [Lookups -> Roles \cup {"none", "grounded", "reading"}]
          /\ held \in [Users -> SUBSET (Roles \cup {"none"})]
      BY DEF Init, Roles
    <2> QED
      BY <1>1, <2>1, <2>2, <2>3, AccessAssumption DEF Init, TypeOK, Scopes
  <1>3. CopiesWereHeld
    BY DEF Init, CopiesWereHeld
  <1>4. DecidedWasHeld /\ KeysAreOfAdmins /\ StaleIsExcused
    BY <1>1 DEF Init, Idle, DecidedWasHeld, KeysAreOfAdmins, StaleIsExcused
  <1> QED
    BY <1>1, <1>2, <1>3, <1>4 DEF IInv

-----------------------------------------------------------------------------
(* What a state of a request says of its fields. *)
LEMMA Fields ==
    ASSUME NEW x \in States
    PROVE  /\ x.step \in {"get", "lookup", "decided", "del"} => x.process \in Processes /\ x.user \in Users
           /\ x.step = "decided" => x.role \in Roles \cup {"none"}
           /\ x.step \in {"flagGet", "flagSet", "flagRead", "create"} => x.process \in Processes
           /\ x.step \in {"flagRead", "create"} => x.on \in BOOLEAN
           /\ x.step = "get" => [x EXCEPT !.step = "lookup"] \in States
           /\ x.step = "get" => [x EXCEPT !.step = "lookup"].step = "lookup"
  BY DEF States, Idle

LEMMA Becomes ==
    ASSUME req \in [Requests -> States], NEW r \in Requests, NEW x \in States, Become(r, x)
    PROVE  /\ req' \in [Requests -> States]
           /\ req'[r] = x
           /\ \A q \in Requests \ {r} : req'[q] = req[q]
  BY DEF Become

(* The types, apart from what a step does to them. *)
LEMMA Types ==
    TypeOK /\ req \in [Requests -> States]
      <=> /\ members \in [Users -> Roles \cup {"none"}]
          /\ cache \in [Users -> Roles \cup {"none", "absent"}]
          /\ flight \in [Lookups -> Roles \cup {"none", "grounded", "reading"}]
          /\ flags \in [Scopes -> SUBSET Settings]
          /\ flagCache \subseteq BOOLEAN
          /\ keys \subseteq Users
          /\ req \in [Requests -> States]
          /\ held \in [Users -> SUBSET (Roles \cup {"none"})]
          /\ excused \subseteq Users
          /\ changes \in 0..MaxChanges /\ faults \in 0..MaxFaults
  BY DEF TypeOK, States

LEMMA Bounds ==
    ASSUME TypeOK
    PROVE  /\ Fault => faults' \in 0..MaxFaults
           /\ Change => changes' \in 0..MaxChanges
  BY AccessAssumption DEF TypeOK, Fault, Change

(* A step that leaves the roles and their copies: keys may go, and a       *)
(* request goes on, but none that owes a del, and to a decision only with  *)
(* a role that its user had.                                               *)
LEMMA Aside ==
    ASSUME IInv, UNCHANGED <<members, held, caching>>, keys' \subseteq keys,
           req' \in [Requests -> States],
           flagCache' \subseteq BOOLEAN,
           flags' \in [Scopes -> SUBSET Settings],
           changes' \in 0..MaxChanges, faults' \in 0..MaxFaults,
           \A r \in Requests :
              \/ req'[r] = req[r]
              \/ /\ req[r].step # "del"
                 /\ req'[r].step = "decided" => req'[r].role \in held[req'[r].user]
    PROVE  IInv'
  <1>1. TypeOK'
    BY Types DEF IInv, TypeOK, caching, States
  <1>2. CopiesWereHeld'
    BY DEF IInv, CopiesWereHeld, caching
  <1>3. DecidedWasHeld'
    BY DEF IInv, DecidedWasHeld
  <1>4. KeysAreOfAdmins'
    BY DEF IInv, KeysAreOfAdmins
  <1>5. StaleIsExcused'
    BY DEF IInv, StaleIsExcused, caching
  <1> QED
    BY <1>1, <1>2, <1>3, <1>4, <1>5 DEF IInv

(* The same, of one request. *)
LEMMA RequestAside ==
    ASSUME IInv, NEW r \in Requests, NEW x \in States, Become(r, x),
           UNCHANGED <<members, held, caching, flags>>, keys' \subseteq keys,
           flagCache' \subseteq BOOLEAN, changes' = changes, faults' \in 0..MaxFaults,
           req[r].step # "del",
           x.step = "decided" => x.role \in held[x.user]
    PROVE  IInv'
  <1>1. /\ req' \in [Requests -> States] /\ req'[r] = x
        /\ \A q \in Requests \ {r} : req'[q] = req[q]
    BY Becomes DEF IInv
  <1>2. /\ flags' \in [Scopes -> SUBSET Settings]
        /\ changes' \in 0..MaxChanges
    BY DEF IInv, TypeOK
  <1> QED
    BY <1>1, <1>2, Aside

LEMMA ArriveInv ==
    ASSUME IInv, NEW r \in Requests, NEW p \in Processes, NEW u \in Users, Arrive(r, p, u)
    PROVE  IInv'
  <1> DEFINE x == [step |-> "get", process |-> p, user |-> u]
  <1>1. x \in States /\ x.step = "get"
    BY DEF States
  <1>2. /\ Become(r, x) /\ req[r].step # "del"
        /\ UNCHANGED <<members, held, keys, caching, flags, flagCache, changes, faults>>
    BY DEF Arrive, Idle, roles, flagged
  <1> HIDE DEF x
  <1> QED
    BY <1>1, <1>2, RequestAside DEF IInv, TypeOK

LEMMA DecidedState ==
    ASSUME NEW p \in Processes, NEW u \in Users, NEW role \in Roles \cup {"none"}
    PROVE  /\ Decided(p, u, role) \in States
           /\ Decided(p, u, role).step = "decided"
           /\ Decided(p, u, role).user = u /\ Decided(p, u, role).role = role
  BY DEF Decided, States

LEMMA HitInv == ASSUME IInv, NEW r \in Requests, Hit(r) PROVE IInv'
  <1> PICK p, u, role : p = req[r].process /\ u = req[r].user /\ role = cache[u]
    OBVIOUS
  <1>1. /\ Become(r, Decided(p, u, role)) /\ req[r].step = "get" /\ role # "absent"
        /\ UNCHANGED <<members, held, keys, caching, flags, flagCache, changes, faults>>
    BY DEF Hit, roles, flagged
  <1>2. p \in Processes /\ u \in Users
    BY <1>1, Fields DEF IInv
  <1>3. role \in Roles \cup {"none"} /\ role \in held[u]
    BY <1>1, <1>2 DEF IInv, TypeOK, CopiesWereHeld
  <1> QED
    BY <1>1, <1>2, <1>3, DecidedState, RequestAside DEF IInv, TypeOK

LEMMA FlagInv ==
    ASSUME IInv, NEW r \in Requests,
           CreateMonitor(r) \/ FlagHit(r) \/ FlagRead(r) \/ FlagStore(r) \/ Create(r) \/ InvalidateFlag(r)
    PROVE  IInv'
  <1>1. req[r] \in States
    BY DEF IInv
  <1>2. Idle \in States /\ Idle.step = "idle"
    BY DEF States, Idle
  <1>3. \A p \in Processes, on \in BOOLEAN, step \in {"flagRead", "create"} :
          /\ [step |-> step, process |-> p, on |-> on] \in States
          /\ [step |-> step, process |-> p, on |-> on].step = step
    BY DEF States
  <1>4. UNCHANGED <<members, held, keys, caching, flags>> /\ changes' = changes
    BY DEF CreateMonitor, FlagHit, FlagRead, FlagStore, Create, InvalidateFlag, roles, flagged
  <1>5. faults' \in 0..MaxFaults
    BY Bounds DEF IInv, TypeOK, CreateMonitor, FlagHit, FlagRead, FlagStore, Create, InvalidateFlag
  <1>6. CASE CreateMonitor(r)
    <2> DEFINE x == [step |-> "flagGet", process |-> req[r].process]
    <2>1. Become(r, x) /\ req[r].step = "decided" /\ flagCache' = flagCache
      BY <1>6 DEF CreateMonitor, Authorized, flagged
    <2>2. x \in States /\ x.step = "flagGet"
      BY <1>1, <2>1, Fields DEF States
    <2> HIDE DEF x
    <2> QED
      BY <1>4, <1>5, <2>1, <2>2, RequestAside DEF IInv, TypeOK
  <1>7. CASE FlagHit(r)
    <2>1. PICK on \in flagCache : Become(r, [step |-> "create", process |-> req[r].process, on |-> on])
      BY <1>7 DEF FlagHit, FlagKnown
    <2>2. req[r].step = "flagGet" /\ flagCache' = flagCache /\ on \in BOOLEAN
      BY <1>7 DEF FlagHit, flagged, IInv, TypeOK
    <2>3. req[r].process \in Processes
      BY <1>1, <2>2, Fields
    <2> QED
      BY <1>3, <1>4, <1>5, <2>1, <2>2, <2>3, RequestAside, ZenonT(40) DEF IInv, TypeOK
  <1>8. CASE FlagRead(r)
    <2>1. \A row \in Settings : Enabled(row) \in BOOLEAN
      BY DEF Enabled
    <2>2. Outcomes \subseteq BOOLEAN
      <3>1. flags["workspace"] \subseteq Settings /\ flags["global"] \subseteq Settings
        BY DEF IInv, TypeOK, Scopes
      <3> QED
        BY <2>1, <3>1, Zenon DEF Outcomes
    <2>3. PICK on \in BOOLEAN :
             /\ Become(r, [step |-> "flagRead", process |-> req[r].process, on |-> on])
             /\ req[r].step = "flagGet" /\ flagCache' = flagCache
      BY <1>8, <2>2 DEF FlagRead, FlagKnown, flagged
    <2>4. req[r].process \in Processes
      BY <1>1, <2>3, Fields
    <2> QED
      BY <1>3, <1>4, <1>5, <2>3, <2>4, RequestAside, ZenonT(40) DEF IInv, TypeOK
  <1>9. CASE FlagStore(r)
    <2> PICK on : on = req[r].on
      OBVIOUS
    <2>1. /\ Become(r, [step |-> "create", process |-> req[r].process, on |-> on])
          /\ req[r].step = "flagRead"
          /\ flagCache' = {on} \/ flagCache' = flagCache
      BY <1>9 DEF FlagStore, FlagKnown
    <2>2. req[r].process \in Processes /\ on \in BOOLEAN
      BY <1>1, <2>1, Fields
    <2>3. flagCache' \subseteq BOOLEAN
      BY <2>1, <2>2 DEF IInv, TypeOK
    <2> QED
      BY <1>3, <1>4, <1>5, <2>1, <2>2, <2>3, RequestAside
  <1>10. CASE Create(r) \/ InvalidateFlag(r)
    <2>1. Become(r, Idle) /\ req[r].step \in {"create", "flagSet"} /\ flagCache' \subseteq flagCache
      BY <1>10 DEF Create, InvalidateFlag, flagged
    <2> QED
      BY <1>2, <1>4, <1>5, <2>1, RequestAside DEF IInv, TypeOK
  <1> QED
    BY <1>6, <1>7, <1>8, <1>9, <1>10

(* A row set by an operator or an admin is one of the settings. *)
LEMMA SetFlagInv == ASSUME IInv, NEW r \in Requests, SetFlag(r) PROVE IInv'
  <1> DEFINE x == [step |-> "flagSet", process |-> req[r].process]
  <1>1. /\ Become(r, x) /\ req[r].step = "decided" /\ Change
        /\ UNCHANGED <<members, held, keys, caching, flagCache, faults>>
    BY DEF SetFlag, Authorized, roles
  <1>2. PICK s \in Settings : SetRow("workspace", s)
    BY DEF SetFlag
  <1>3. flags' \in [Scopes -> SUBSET Settings]
    BY <1>2 DEF SetRow, IInv, TypeOK, Scopes
  <1>4. x \in States /\ x.step = "flagSet"
    BY <1>1, Fields DEF States, IInv
  <1> HIDE DEF x
  <1>5. /\ req' \in [Requests -> States] /\ req'[r] = x
        /\ \A q \in Requests \ {r} : req'[q] = req[q]
    BY <1>1, <1>4, Becomes DEF IInv
  <1>6. changes' \in 0..MaxChanges /\ faults' \in 0..MaxFaults /\ flagCache' \subseteq BOOLEAN
    BY <1>1, Bounds DEF IInv, TypeOK
  <1> QED
    BY <1>1, <1>3, <1>4, <1>5, <1>6, Aside

LEMMA OperatorInv ==
    ASSUME IInv, FlagExpires \/ (\E s \in Settings : SetGlobal(s)) \/ (\E u \in Users : KeyExpires(u))
    PROVE  IInv'
  <1>1. /\ UNCHANGED <<members, held, caching, req, faults>>
        /\ keys' \subseteq keys /\ flagCache' \subseteq flagCache
    BY DEF FlagExpires, SetGlobal, KeyExpires, DropKey, roles, flagged
  <1>2. changes' \in 0..MaxChanges
    BY Bounds DEF IInv, TypeOK, FlagExpires, SetGlobal, KeyExpires
  <1>3. flags' \in [Scopes -> SUBSET Settings]
    <2>1. CASE flags' = flags
      BY <2>1 DEF IInv, TypeOK
    <2>2. CASE \E s \in Settings : SetRow("global", s)
      BY <2>2 DEF SetRow, IInv, TypeOK, Scopes
    <2> QED
      BY <2>1, <2>2 DEF FlagExpires, SetGlobal, KeyExpires, flagged
  <1> QED
    BY <1>1, <1>2, <1>3, Aside DEF IInv, TypeOK

LEMMA AnswerInv ==
    ASSUME IInv, NEW r \in Requests, Answer(r) \/ \E v \in Users : RevokeKey(r, v)
    PROVE  IInv'
  <1>1. /\ Become(r, Idle) /\ req[r].step = "decided" /\ keys' \subseteq keys
        /\ UNCHANGED <<members, held, caching, flags, flagCache, changes, faults>>
    BY DEF Answer, RevokeKey, Authorized, DropKey, roles, flagged
  <1>2. Idle \in States /\ Idle.step = "idle"
    BY DEF States, Idle
  <1> QED
    BY <1>1, <1>2, RequestAside DEF IInv, TypeOK

(* A copy of a role is taken only of a role that the user has. *)
LEMMA MissInv == ASSUME IInv, NEW r \in Requests, Miss(r) PROVE IInv'
  <1> PICK x : x = [req[r] EXCEPT !.step = "lookup"]
    OBVIOUS
  <1>1. /\ req[r].step = "get" /\ Become(r, x)
        /\ \A f \in Lookups : flight'[f] = flight[f] \/ flight'[f] = "reading"
        /\ flight' \in [Lookups -> Roles \cup {"none", "grounded", "reading"}]
        /\ UNCHANGED <<members, held, keys, cache, excused, flags, flagCache, changes>>
    BY DEF Miss, roles, flagged, IInv, TypeOK
  <1>2. x \in States /\ x.step = "lookup"
    BY <1>1, Fields DEF IInv
  <1>3. /\ req' \in [Requests -> States] /\ req'[r] = x
        /\ \A q \in Requests \ {r} : req'[q] = req[q]
    BY <1>1, <1>2, Becomes DEF IInv
  <1>4. faults' \in 0..MaxFaults
    BY Bounds DEF Miss, IInv, TypeOK
  <1>5. TypeOK'
    BY <1>1, <1>3, <1>4, Types DEF IInv, TypeOK, States
  <1>6. CopiesWereHeld'
    BY <1>1 DEF IInv, CopiesWereHeld
  <1>7. DecidedWasHeld' /\ KeysAreOfAdmins'
    BY <1>1, <1>2, <1>3 DEF IInv, DecidedWasHeld, KeysAreOfAdmins
  <1>8. StaleIsExcused'
    <2>1. \A q \in Requests : req[q].step = "del" => req'[q] = req[q]
      BY <1>1, <1>3
    <2> QED
      BY <1>1, <2>1 DEF IInv, StaleIsExcused
  <1> QED
    BY <1>3, <1>5, <1>6, <1>7, <1>8 DEF IInv

LEMMA ReadInv == ASSUME IInv, NEW f \in Lookups, Read(f) PROVE IInv'
  <1> PICK u \in Users : u = f[2]
    BY DEF Lookups
  <1>1. /\ flight' = [flight EXCEPT ![f] = members[u]]
        /\ UNCHANGED <<members, held, keys, cache, excused, flags, flagCache, req, changes, faults>>
    BY DEF Read, roles, flagged
  <1>2. members[u] \in Roles \cup {"none"} /\ members[u] \in held[u]
    BY DEF IInv, TypeOK, CopiesWereHeld
  <1>3. flight' \in [Lookups -> Roles \cup {"none", "grounded", "reading"}]
    BY <1>1, <1>2 DEF IInv, TypeOK
  <1>4. TypeOK'
    BY <1>1, <1>3, Types DEF IInv, TypeOK
  <1>5. CopiesWereHeld'
    BY <1>1, <1>2 DEF IInv, TypeOK, CopiesWereHeld
  <1> QED
    BY <1>1, <1>4, <1>5 DEF IInv, DecidedWasHeld, KeysAreOfAdmins, StaleIsExcused

LEMMA ReadFailsInv == ASSUME IInv, NEW f \in Lookups, ReadFails(f) PROVE IInv'
  <1>1. /\ flight' = [flight EXCEPT ![f] = "grounded"]
        /\ req' = [r \in Requests |-> IF r \in Joined(f) THEN Idle ELSE req[r]]
        /\ UNCHANGED <<members, held, keys, cache, excused, flags, flagCache, changes>>
    BY DEF ReadFails, roles, flagged
  <1>2. Idle \in States /\ Idle.step = "idle"
    BY DEF States, Idle
  <1>3. req' \in [Requests -> States]
    BY <1>1, <1>2 DEF IInv
  <1>4. \A r \in Requests : \/ req'[r] = req[r]
                            \/ req[r].step = "lookup" /\ req'[r].step = "idle"
    <2> SUFFICES ASSUME NEW r \in Requests
                 PROVE  req'[r] = req[r] \/ (req[r].step = "lookup" /\ req'[r].step = "idle")
      OBVIOUS
    <2>1. CASE r \in Joined(f)
      <3>1. req[r].step = "lookup"
        BY <2>1 DEF Joined
      <3> QED
        BY <1>1, <1>2, <2>1, <3>1
    <2>2. CASE r \notin Joined(f)
      <3>1. req'[r] = req[r]
        BY <1>1, <2>2
      <3> QED
        BY <3>1
    <2> QED
      BY <2>1, <2>2
  <1>5. faults' \in 0..MaxFaults
    BY Bounds DEF ReadFails, IInv
  <1>6. flight' \in [Lookups -> Roles \cup {"none", "grounded", "reading"}]
    BY <1>1 DEF IInv, TypeOK
  <1>7. TypeOK'
    BY <1>1, <1>3, <1>5, <1>6, Types DEF IInv, TypeOK, States
  <1>8. CopiesWereHeld'
    BY <1>1 DEF IInv, TypeOK, CopiesWereHeld
  <1>9. DecidedWasHeld' /\ KeysAreOfAdmins' /\ StaleIsExcused'
    BY <1>1, <1>4 DEF IInv, DecidedWasHeld, KeysAreOfAdmins, StaleIsExcused
  <1> QED
    BY <1>3, <1>7, <1>8, <1>9 DEF IInv

(* A role that is stored although it has changed meanwhile is excused. *)
LEMMA StoreInv == ASSUME IInv, NEW f \in Lookups, Store(f) PROVE IInv'
  <1> PICK u \in Users : u = f[2]
    BY DEF Lookups
  <1> PICK role : role = flight[f]
    OBVIOUS
  <1>1. /\ role \notin {"grounded", "reading"}
        /\ \/ /\ cache' = [cache EXCEPT ![u] = role]
              /\ excused' = IF role = members[u] THEN excused ELSE excused \cup {u}
           \/ cache' = cache /\ excused' = excused
        /\ flight' = [flight EXCEPT ![f] = "grounded"]
        /\ req' = [r \in Requests |->
                     IF r \in Joined(f) THEN Decided(req[r].process, req[r].user, role) ELSE req[r]]
        /\ UNCHANGED <<members, held, keys, flags, flagCache, changes>>
    BY DEF Store, roles, flagged
  <1>2. role \in Roles \cup {"none"} /\ role \in held[u]
    BY <1>1 DEF IInv, TypeOK, CopiesWereHeld
  <1>3. ASSUME NEW r \in Joined(f)
        PROVE  /\ Decided(req[r].process, req[r].user, role) \in States
               /\ Decided(req[r].process, req[r].user, role).step = "decided"
               /\ Decided(req[r].process, req[r].user, role).user = u
               /\ Decided(req[r].process, req[r].user, role).role = role
               /\ req[r].step = "lookup"
    <2>1. r \in Requests /\ req[r].step = "lookup" /\ req[r].user = u
      BY DEF Joined
    <2>2. req[r].process \in Processes
      BY <2>1, Fields DEF IInv
    <2> QED
      BY <1>2, <2>1, <2>2, DecidedState
  <1>4. req' \in [Requests -> States]
    BY <1>1, <1>3 DEF IInv
  <1>5. \A r \in Requests :
          \/ req'[r] = req[r]
          \/ req[r].step = "lookup" /\ req'[r].step = "decided" /\ req'[r].user = u /\ req'[r].role = role
    BY <1>1, <1>3
  <1>6. faults' \in 0..MaxFaults
    BY Bounds DEF Store, IInv, TypeOK
  <1>7. /\ flight' \in [Lookups -> Roles \cup {"none", "grounded", "reading"}]
        /\ cache' \in [Users -> Roles \cup {"none", "absent"}] /\ excused' \subseteq Users
    BY <1>1, <1>2 DEF IInv, TypeOK
  <1>8. TypeOK'
    BY <1>1, <1>4, <1>6, <1>7, Types DEF IInv, TypeOK, States
  <1>9. CopiesWereHeld'
    BY <1>1, <1>2 DEF IInv, TypeOK, CopiesWereHeld
  <1>10. DecidedWasHeld'
    BY <1>1, <1>2, <1>5 DEF IInv, DecidedWasHeld
  <1>11. KeysAreOfAdmins'
    BY <1>1 DEF IInv, KeysAreOfAdmins
  <1>12. StaleIsExcused'
    BY <1>1, <1>5 DEF IInv, TypeOK, StaleIsExcused
  <1> QED
    BY <1>4, <1>8, <1>9, <1>10, <1>11, <1>12 DEF IInv

LEMMA ExpireInv == ASSUME IInv, NEW u \in Users, Expire(u) PROVE IInv'
  <1>1. /\ cache' = [cache EXCEPT ![u] = "absent"] /\ excused' = excused \ {u}
        /\ UNCHANGED <<members, held, keys, flight, flags, flagCache, req, changes, faults>>
    BY DEF Expire, roles, flagged
  <1>2. TypeOK'
    BY <1>1 DEF IInv, TypeOK
  <1> QED
    BY <1>1, <1>2
       DEF IInv, TypeOK, CopiesWereHeld, DecidedWasHeld, KeysAreOfAdmins, StaleIsExcused

(* The request that changes a role owes the cache a del. *)
LEMMA SetMemberInv ==
    ASSUME IInv, NEW r \in Requests, req[r].step = "decided", NEW v \in Users,
           NEW role \in Roles \cup {"none"}, SetMember(r, v, role)
    PROVE  IInv'
  <1> PICK x : x = [step |-> "del", process |-> req[r].process, user |-> v]
    OBVIOUS
  <1>1. /\ members' = [members EXCEPT ![v] = role]
        /\ held' = [held EXCEPT ![v] = @ \cup {role}]
        /\ Become(r, x) /\ Change
        /\ UNCHANGED <<keys, cache, flight, excused, flags, flagCache, faults>>
    BY DEF SetMember, caching, flagged
  <1>2. x \in States /\ x.step = "del" /\ x.user = v
    BY Fields DEF States, IInv
  <1>3. /\ req' \in [Requests -> States] /\ req'[r] = x
        /\ \A q \in Requests \ {r} : req'[q] = req[q]
    BY <1>1, <1>2, Becomes DEF IInv
  <1>4. changes' \in 0..MaxChanges
    BY <1>1, Bounds DEF IInv
  <1>5. /\ members' \in [Users -> Roles \cup {"none"}]
        /\ held' \in [Users -> SUBSET (Roles \cup {"none"})]
        /\ \A u \in Users : members'[u] = IF u = v THEN role ELSE members[u]
        /\ \A u \in Users : held[u] \subseteq held'[u]
        /\ role \in held'[v]
    BY <1>1 DEF IInv, TypeOK
  <1>6. TypeOK'
    BY <1>1, <1>3, <1>4, <1>5, Types DEF IInv, TypeOK, States
  <1>7. CopiesWereHeld'
    BY <1>1, <1>5 DEF IInv, CopiesWereHeld, Lookups
  <1>8. DecidedWasHeld'
    <2> SUFFICES ASSUME NEW q \in Requests, req'[q].step = "decided"
                 PROVE  req'[q].role \in held'[req'[q].user]
      BY DEF DecidedWasHeld
    <2>1. req'[q] = req[q]
      BY <1>2, <1>3
    <2>2. req[q].user \in Users /\ req[q].role \in held[req[q].user]
      BY <2>1, Fields DEF IInv, DecidedWasHeld
    <2> QED
      BY <1>5, <2>1, <2>2
  <1>9. KeysAreOfAdmins'
    BY <1>1, <1>5 DEF IInv, TypeOK, KeysAreOfAdmins
  <1>10. StaleIsExcused'
    BY <1>1, <1>2, <1>3, <1>5 DEF IInv, StaleIsExcused
  <1> QED
    BY <1>3, <1>6, <1>7, <1>8, <1>9, <1>10 DEF IInv

LEMMA TeamInv ==
    ASSUME IInv, NEW r \in Requests, NEW v \in Users, Invite(r, v) \/ UpdateRole(r, v) \/ Remove(r, v)
    PROVE  IInv'
  BY SetMemberInv DEF Invite, UpdateRole, Remove, Authorized, Roles

LEMMA InvalidateInv == ASSUME IInv, NEW r \in Requests, Invalidate(r) PROVE IInv'
  <1> PICK v : v = req[r].user
    OBVIOUS
  <1>1. /\ req[r].step = "del" /\ Become(r, Idle)
        /\ \/ cache' = [cache EXCEPT ![v] = "absent"] /\ excused' = excused \ {v}
           \/ cache' = cache /\ excused' = excused \cup {v}
        /\ UNCHANGED <<members, held, keys, flight, flags, flagCache, changes>>
    BY DEF Invalidate, roles, flagged
  <1>2. v \in Users
    BY <1>1, Fields DEF IInv
  <1>3. Idle \in States /\ Idle.step = "idle"
    BY DEF States, Idle
  <1>4. /\ req' \in [Requests -> States] /\ req'[r] = Idle
        /\ \A q \in Requests \ {r} : req'[q] = req[q]
    BY <1>1, <1>3, Becomes DEF IInv
  <1>5. faults' \in 0..MaxFaults
    BY Bounds DEF Invalidate, IInv, TypeOK
  <1>6. cache' \in [Users -> Roles \cup {"none", "absent"}] /\ excused' \subseteq Users
    BY <1>1, <1>2 DEF IInv, TypeOK
  <1>7. TypeOK'
    BY <1>1, <1>4, <1>5, <1>6, Types DEF IInv, TypeOK, States
  <1>8. CopiesWereHeld'
    BY <1>1 DEF IInv, TypeOK, CopiesWereHeld
  <1>9. DecidedWasHeld' /\ KeysAreOfAdmins'
    BY <1>1, <1>3, <1>4 DEF IInv, DecidedWasHeld, KeysAreOfAdmins
  <1>10. StaleIsExcused'
    BY <1>1, <1>2, <1>4 DEF IInv, TypeOK, StaleIsExcused
  <1> QED
    BY <1>4, <1>7, <1>8, <1>9, <1>10 DEF IInv

LEMMA CreateKeyInv == ASSUME IInv, NEW r \in Requests, CreateKey(r) PROVE IInv'
  <1> PICK u : u = req[r].user
    OBVIOUS
  <1>1. /\ req[r].step = "decided" /\ Rank[req[r].role] >= Rank["admin"] /\ Change
        /\ keys' = keys \cup {u} /\ Become(r, Idle)
        /\ UNCHANGED <<members, held, cache, flight, excused, flags, flagCache, faults>>
    BY DEF CreateKey, Authorized, AddKey, caching, flagged
  <1>2. u \in Users /\ req[r].role \in Roles \cup {"none"} /\ req[r].role \in held[u]
    BY <1>1, Fields DEF IInv, DecidedWasHeld
  <1>3. req[r].role \in {"admin", "owner"}
    BY <1>1, <1>2 DEF Rank, Roles
  <1>4. Idle \in States /\ Idle.step = "idle"
    BY DEF States, Idle
  <1>5. /\ req' \in [Requests -> States] /\ req'[r] = Idle
        /\ \A q \in Requests \ {r} : req'[q] = req[q]
    BY <1>1, <1>4, Becomes DEF IInv
  <1>6. changes' \in 0..MaxChanges
    BY <1>1, Bounds DEF IInv
  <1>7. TypeOK'
    BY <1>1, <1>2, <1>5, <1>6, Types DEF IInv, TypeOK, States
  <1>8. KeysAreOfAdmins'
    BY <1>1, <1>2, <1>3 DEF IInv, KeysAreOfAdmins
  <1>9. CopiesWereHeld' /\ DecidedWasHeld' /\ StaleIsExcused'
    BY <1>1, <1>4, <1>5 DEF IInv, CopiesWereHeld, DecidedWasHeld, StaleIsExcused
  <1> QED
    BY <1>5, <1>7, <1>8, <1>9 DEF IInv

(* A process takes its lookups with it, and whoever it owed a del is       *)
(* excused.                                                                *)
LEMMA CrashInv == ASSUME IInv, NEW p \in Processes, Crash(p) PROVE IInv'
  <1>1. /\ flight' = [f \in Lookups |-> IF f[1] = p THEN "grounded" ELSE flight[f]]
        /\ req' = [r \in Requests |-> IF RunsIn(r, p) THEN Idle ELSE req[r]]
        /\ excused' = excused \cup {req[r].user : r \in {q \in Requests : RunsIn(q, p) /\ req[q].step = "del"}}
        /\ UNCHANGED <<members, held, keys, cache, flags, flagCache, changes>>
    BY DEF Crash, roles, flagged
  <1>2. Idle \in States /\ Idle.step = "idle"
    BY DEF States, Idle
  <1>3. req' \in [Requests -> States]
    BY <1>1, <1>2 DEF IInv
  <1>4. ASSUME NEW r \in Requests
        PROVE  req'[r] = req[r] \/ (req'[r] = Idle /\ RunsIn(r, p))
    <2>1. CASE RunsIn(r, p)
      BY <1>1, <2>1
    <2>2. CASE ~RunsIn(r, p)
      <3>1. req'[r] = req[r]
        BY <1>1, <2>2
      <3> QED
        BY <3>1
    <2> QED
      BY <2>1, <2>2
  <1>5. faults' \in 0..MaxFaults
    BY Bounds DEF Crash, IInv
  <1>6. flight' \in [Lookups -> Roles \cup {"none", "grounded", "reading"}]
    BY <1>1 DEF IInv, TypeOK
  <1>7. excused' \subseteq Users
    <2>1. \A r \in Requests : req[r].step = "del" => req[r].user \in Users
      BY Fields DEF IInv
    <2> QED
      BY <1>1, <2>1 DEF IInv, TypeOK
  <1>8. TypeOK'
    BY <1>1, <1>3, <1>5, <1>6, <1>7, Types DEF IInv, TypeOK, States
  <1>9. CopiesWereHeld'
    BY <1>1 DEF IInv, CopiesWereHeld
  <1>10. DecidedWasHeld' /\ KeysAreOfAdmins'
    BY <1>1, <1>2, <1>4 DEF IInv, DecidedWasHeld, KeysAreOfAdmins
  <1>11. StaleIsExcused'
    <2> SUFFICES ASSUME NEW u \in Users, cache[u] \notin {"absent", members[u]}, u \notin excused'
                 PROVE  \E r \in Requests : req'[r].step = "del" /\ req'[r].user = u
      BY <1>1 DEF StaleIsExcused
    <2>1. PICK r \in Requests : req[r].step = "del" /\ req[r].user = u
      BY <1>1 DEF IInv, StaleIsExcused
    <2>2. ~RunsIn(r, p)
      BY <1>1, <2>1
    <2> QED
      BY <1>4, <2>1, <2>2
  <1> QED
    BY <1>3, <1>8, <1>9, <1>10, <1>11 DEF IInv

LEMMA Inductive == IInv /\ [Next]_vars => IInv'
  <1> SUFFICES ASSUME IInv, [Next]_vars PROVE IInv'
    OBVIOUS
  <1>1. CASE UNCHANGED vars
    BY <1>1 DEF vars, IInv, TypeOK, States, CopiesWereHeld, DecidedWasHeld, KeysAreOfAdmins, StaleIsExcused
  <1>2. ASSUME NEW r \in Requests, NEW p \in Processes, NEW u \in Users,
               Arrive(r, p, u) \/ ArriveWithKey(r, p, u)
        PROVE  IInv'
    BY <1>2, ArriveInv DEF ArriveWithKey
  <1>3. ASSUME NEW r \in Requests, Proceed(r) PROVE IInv'
    BY <1>3, HitInv, MissInv, InvalidateInv, AnswerInv, TeamInv, CreateKeyInv, FlagInv, SetFlagInv
       DEF Proceed
  <1>4. ASSUME NEW f \in Lookups, Lookup(f) PROVE IInv'
    BY <1>4, ReadInv, ReadFailsInv, StoreInv DEF Lookup
  <1> QED
    BY <1>1, <1>2, <1>3, <1>4, ExpireInv, OperatorInv, CrashInv DEF Next

LEMMA Invariance == Spec => []IInv
  BY Initially, Inductive, PTL DEF Spec

(* No request is decided on a role its user never had, and no key acts for *)
(* anyone who was never an admin.                                          *)
THEOREM AccessInvHolds == Spec => []AccessInv
  <1>1. IInv => AccessInv
    BY DEF IInv, AccessInv
  <1> QED
    BY <1>1, Invariance, PTL

(* A cached role is outdated only while its del is due, or for a reason    *)
(* that the code accepts.                                                  *)
THEOREM StaleIsExcusedHolds == Spec => []StaleIsExcused
  <1>1. IInv => StaleIsExcused
    BY DEF IInv
  <1> QED
    BY <1>1, Invariance, PTL

-----------------------------------------------------------------------------
(* Sessions: one usable token each, and nobody gets back into one that was *)
(* revoked.                                                                *)

RefreshSteps == {"idle", "sent", "valid", "replayed", "revoking", "issued", "answered", "refused"}

Refreshes  == [pc : RefreshSteps, token : 0..MaxTokens, new : 0..MaxTokens, late : BOOLEAN]
LoginTries == [pc : {"idle", "checked", "created"}, password : 0..1, token : 0..MaxTokens, late : BOOLEAN]

Typed ==
    /\ status \in [Tokens -> {"unused", "valid", "revoked", "gone"}]
    /\ session \in [Tokens -> 0..MaxTokens]
    /\ password \in 0..1
    /\ loginOf \in [Tokens -> 0..1]
    /\ cookie \in 0..MaxTokens
    /\ promise \in [Tabs -> Fetches \cup {None}]
    /\ fetch \in [Fetches -> {"idle", "sent", "awaits"}]
    /\ refresh \in [Fetches -> Refreshes]
    /\ login \in [Logins -> LoginTries]
    /\ logout \in 0..MaxTokens
    /\ reset \in {"idle", "changed", "revoking", "done"}
    /\ snap \in [Fetches \cup {"reset"} -> SUBSET Tokens]
    /\ failures \in 0..MaxFailures

(* A row names the row of its login, which exists as long as any of its    *)
(* session.                                                                *)
RowsOK ==
    /\ \A t \in Unused : session[t] = 0
    /\ \A t \in Tokens \ Unused : session[t] \in Tokens \ Unused
    /\ cookie \notin Unused
    /\ ended \subseteq Tokens \ Unused

(* A tab has a promise as long as a refresh of one of its calls runs, and  *)
(* that call awaits it.                                                    *)
Runs(f) == refresh[f].pc # "idle"

PromisesOK ==
    /\ \A b \in Tabs : promise[b] # None => TabOf[promise[b]] = b /\ Runs(promise[b])
    /\ \A f \in Fetches : Runs(f) => promise[TabOf[f]] = f /\ fetch[f] = "awaits"

SessionOf(f) == session[refresh[f].token]

(* What a refresh holds in hand, and what its revocation has found. *)
RefreshOK(f) ==
    /\ refresh[f].token \notin Unused /\ refresh[f].new \notin Unused
    /\ refresh[f].pc \in {"valid", "replayed", "revoking", "issued", "answered"} => refresh[f].token # 0
    /\ refresh[f].pc \in {"issued", "answered"} =>
          refresh[f].new # 0 /\ session[refresh[f].new] = SessionOf(f)
    /\ refresh[f].pc = "revoking" => \A t \in snap[f] : session[t] = SessionOf(f)

HandsOK == (\A f \in Fetches : RefreshOK(f)) /\ snap["reset"] \cap Unused = {}

Created(l) == login[l].pc = "created"

(* A login that has not been answered is known to nobody.                  *)
LoginsOK ==
    /\ \A l \in Logins : Created(l) =>
          /\ login[l].token \in Tokens \ Unused /\ session[login[l].token] = login[l].token
          /\ \A t \in Tokens : session[t] = login[l].token => t = login[l].token
          /\ cookie # 0 => session[cookie] # login[l].token
          /\ \A f \in Fetches : Runs(f) /\ refresh[f].token # 0 => SessionOf(f) # login[l].token
    /\ \A l, m \in Logins : Created(l) /\ Created(m) /\ login[l].token = login[m].token => l = m

(* A row is left for everyone who may insert one. *)
Rotators  == {f \in Fetches : fetch[f] # "idle" /\ refresh[f].pc \in {"idle", "sent", "valid"}}
Checked   == {l \in Logins : login[l].pc = "checked"}
Room == Cardinality(Unused) >= Cardinality(Rotators) + Cardinality(Checked)

Base == Typed /\ RowsOK /\ PromisesOK /\ HandsOK /\ LoginsOK /\ Room

-----------------------------------------------------------------------------
(* One usable token *)
Mine(t, s)    == status[t] = "valid" /\ session[t] = s
Only(s, t)    == \A x \in Tokens : Mine(x, s) => x = t
Sound(t)      == status[t] \in {"valid", "gone"}
Clean(f)      == Runs(f) /\ refresh[f].token # 0 /\ SessionOf(f) \notin disturbed

(* In a session that nobody has disturbed one refresh runs, of the cookie  *)
(* if that is of this session, and it holds the only token that works.     *)
RefreshesClean ==
    /\ \A f, g \in Fetches : Clean(f) /\ Clean(g) /\ SessionOf(f) = SessionOf(g) => f = g
    /\ \A f \in Fetches : Clean(f) =>
          /\ refresh[f].pc \notin {"replayed", "revoking"}
          /\ cookie # 0 /\ session[cookie] = SessionOf(f) => cookie = refresh[f].token
          /\ IF refresh[f].pc \in {"issued", "answered"}
             THEN Sound(refresh[f].new) /\ Only(SessionOf(f), refresh[f].new)
             ELSE Sound(refresh[f].token) /\ Only(SessionOf(f), refresh[f].token)

(* Without one, it is the cookie, ... *)
CookieClean ==
    (/\ cookie # 0 /\ session[cookie] \notin disturbed
     /\ \A f \in Fetches : Clean(f) => SessionOf(f) # session[cookie])
        => Sound(cookie) /\ Only(session[cookie], cookie)

(* ... or the token of a login that has not been answered.                 *)
LoginsClean ==
    \A l \in Logins : Created(l) /\ login[l].token \notin disturbed => Sound(login[l].token)

OneEach == \A s \in Tokens \ disturbed : \A x, y \in Tokens : Mine(x, s) /\ Mine(y, s) => x = y

CleanInv == RefreshesClean /\ CookieClean /\ LoginsClean /\ OneEach

-----------------------------------------------------------------------------
(* Who is out *)

(* A refresh that is about to issue a token of a session that was revoked, *)
(* or of the old password, has overlapped the revocation.                  *)
LateOK ==
    \A f \in Fetches : refresh[f].pc = "valid" /\ ~refresh[f].late /\ refresh[f].token \notin overlapping =>
        /\ SessionOf(f) \notin ended
        /\ reset = "done" => loginOf[refresh[f].token] = password

LoginsLateOK ==
    reset = "done" => \A l \in Logins : login[l].pc = "checked" => login[l].late \/ login[l].password = password

(* What a revocation under way has not found was committed while it ran,   *)
(* if it has found a session at all.                                       *)
Found ==
    /\ \A f \in Fetches : refresh[f].pc = "revoking" /\ snap[f] # {} =>
          \A t \in Valid : session[t] = SessionOf(f) => t \in snap[f] \cup overlapping
    /\ reset = "revoking" => \A t \in Valid : t \in snap["reset"] \cup overlapping

OutInv == LateOK /\ LoginsLateOK /\ Found /\ RevokedStaysOut

SessionsIInv == Base /\ CleanInv /\ OutInv

-----------------------------------------------------------------------------
(* A set of numbers has a least one. *)
LEMMA MinElement ==
    ASSUME NEW T \in SUBSET Nat, T # {}
    PROVE  Min(T) \in T
  <1> DEFINE R == OpToRel(<, Nat)
  <1>1. IsWellFoundedOn(R, Nat)
    BY NatLessThanWellFounded, Zenon
  <1>2. \A s, t \in Nat : s < t => <<s, t>> \in R
    BY DEF OpToRel
  <1> HIDE DEF R
  <1>5. \A s, t \in Nat : <<s, t>> \notin R => t =< s
    <2> SUFFICES ASSUME NEW s \in Nat, NEW t \in Nat, ~(t =< s) PROVE <<s, t>> \in R
      OBVIOUS
    <2>1. s < t
      OBVIOUS
    <2> QED
      BY <2>1, <1>2
  <1>3. PICK x \in T : \A y \in T : ~(<<y, x>> \in R)
    BY <1>1, WFMin
  <1>4. \A y \in T : x =< y
    BY <1>5, <1>3, Zenon
  <1> QED
    BY <1>4, Zenon DEF Min

LEMMA RoomTypes ==
  ASSUME Base
  PROVE  /\ Cardinality(Unused) \in Nat /\ Cardinality(Rotators) \in Nat /\ Cardinality(Checked) \in Nat
         /\ IsFiniteSet(Unused) /\ IsFiniteSet(Rotators) /\ IsFiniteSet(Checked)
  <1>1. IsFiniteSet(Tokens)
    <2>1. 1 \in Int /\ MaxTokens \in Int
      BY SessionsAssumption
    <2> QED
      BY <2>1, FS_Interval DEF Tokens
  <1>2. Unused \subseteq Tokens /\ Rotators \subseteq Fetches /\ Checked \subseteq Logins
    BY DEF Unused, Rotators, Checked
  <1>3. IsFiniteSet(Unused)
    BY <1>1, <1>2, FS_Subset
  <1>4. IsFiniteSet(Rotators)
    BY <1>2, SessionsAssumption, FS_Subset
  <1>5. IsFiniteSet(Checked)
    BY <1>2, SessionsAssumption, FS_Subset
  <1> QED
    BY <1>3, <1>4, <1>5, FS_CardinalityType

LEMMA NewRow ==
  ASSUME Base, Rotators # {} \/ Checked # {}
  PROVE  Min(Unused) \in Unused /\ Min(Unused) \in Tokens
  <1>1. Cardinality(Rotators) > 0 \/ Cardinality(Checked) > 0
    BY RoomTypes, FS_EmptySet
  <1>2. Unused # {}
    BY <1>1, RoomTypes, FS_EmptySet DEF Base, Room
  <1>3. Unused \in SUBSET Nat /\ Unused \subseteq Tokens
    BY SessionsAssumption DEF Unused, Tokens
  <1>4. Min(Unused) \in Unused
    BY <1>2, <1>3, MinElement
  <1> QED
    BY <1>3, <1>4

(* Nobody new needs room. *)
LEMMA RoomKept ==
  ASSUME Base, Unused' = Unused, Rotators' \subseteq Rotators, Checked' \subseteq Checked
  PROVE  Room'
  <1>1. Cardinality(Rotators') <= Cardinality(Rotators) /\ Cardinality(Rotators') \in Nat
    BY RoomTypes, FS_Subset, FS_CardinalityType
  <1>2. Cardinality(Checked') <= Cardinality(Checked) /\ Cardinality(Checked') \in Nat
    BY RoomTypes, FS_Subset, FS_CardinalityType
  <1>3. Cardinality(Unused) >= Cardinality(Rotators') + Cardinality(Checked')
    BY <1>1, <1>2, RoomTypes DEF Base, Room
  <1> QED
    BY <1>3 DEF Room

-----------------------------------------------------------------------------
(* What steps leave as it is *)

(* Rows are inserted and none is taken back. *)
RowsGrow == Unused' \subseteq Unused /\ \A t \in Tokens \ Unused : session'[t] = session[t]

(* Rows are revoked or removed. *)
RowsShrink ==
    /\ session' = session
    /\ \A t \in Tokens : \/ status'[t] = status[t]
                         \/ status[t] # "unused" /\ status'[t] \in {"revoked", "gone"}

SameRefresh(g) ==
    refresh'[g].pc = refresh[g].pc /\ refresh'[g].token = refresh[g].token /\ refresh'[g].new = refresh[g].new

LEMMA ShrinkFacts ==
  ASSUME RowsShrink
  PROVE  Unused' = Unused /\ RowsGrow /\ \A t, s : t \in Tokens /\ Mine(t, s)' => Mine(t, s)
  BY DEF RowsShrink, RowsGrow, Unused, Mine

LEMMA RowsKept ==
  ASSUME Base, RowsShrink, cookie' \notin Unused, ended' \subseteq Tokens \ Unused
  PROVE  RowsOK'
  BY ShrinkFacts DEF Base, RowsOK, RowsShrink

LEMMA RefreshKept ==
  ASSUME Base, RowsGrow, NEW g \in Fetches, SameRefresh(g), snap'[g] = snap[g]
  PROVE  RefreshOK(g)'
  <1>1. RefreshOK(g) /\ refresh[g].token \in 0..MaxTokens /\ refresh[g].new \in 0..MaxTokens
    BY DEF Base, HandsOK, Typed, Refreshes
  <1>2. refresh[g].token # 0 => refresh[g].token \in Tokens \ Unused
    BY <1>1 DEF RefreshOK, Tokens
  <1>3. refresh[g].new # 0 => refresh[g].new \in Tokens \ Unused
    BY <1>1 DEF RefreshOK, Tokens
  <1>4. refresh[g].pc = "revoking" => \A t \in snap[g] : session'[t] = session[t]
    <2> SUFFICES ASSUME refresh[g].pc = "revoking", NEW t \in snap[g] PROVE session'[t] = session[t]
      OBVIOUS
    <2>1. t \in Tokens /\ session[t] = SessionOf(g) /\ SessionOf(g) \in Tokens
      BY <1>1, <1>2 DEF RefreshOK, Base, Typed, RowsOK, SessionOf
    <2>2. t \notin Unused
      BY <2>1 DEF Base, RowsOK, Tokens
    <2> QED
      BY <2>1, <2>2 DEF RowsGrow
  <1> QED
    BY <1>1, <1>2, <1>3, <1>4 DEF RefreshOK, RowsGrow, SameRefresh, SessionOf

LEMMA PromisesKept ==
  ASSUME Base, promise' = promise, \A f \in Fetches : Runs(f)' <=> Runs(f),
         \A f \in Fetches : fetch[f] = "awaits" => fetch'[f] = "awaits"
  PROVE  PromisesOK'
  BY DEF Base, PromisesOK, Typed

LEMMA LoginsKept ==
  ASSUME Base, session' = session, Unused' = Unused,
         \A l \in Logins : Created(l)' =>
            /\ Created(l) /\ login'[l].token = login[l].token
            /\ cookie' # 0 => session[cookie'] # login[l].token,
         \A f \in Fetches : Runs(f)' /\ refresh'[f].token # 0 =>
            \/ Runs(f) /\ refresh'[f].token = refresh[f].token
            \/ refresh'[f].token = cookie
  PROVE  LoginsOK'
  <1>1. \A l \in Logins : Created(l)' =>
          /\ login'[l].token \in Tokens \ Unused' /\ session'[login'[l].token] = login'[l].token
          /\ \A t \in Tokens : session'[t] = login'[l].token => t = login'[l].token
          /\ cookie' # 0 => session'[cookie'] # login'[l].token
    BY DEF Base, LoginsOK
  <1>2. \A l \in Logins : Created(l)' =>
          \A f \in Fetches : Runs(f)' /\ refresh'[f].token # 0 => SessionOf(f)' # login'[l].token
    BY DEF Base, LoginsOK, SessionOf
  <1>3. \A l, m \in Logins : Created(l)' /\ Created(m)' /\ login'[l].token = login'[m].token => l = m
    BY DEF Base, LoginsOK
  <1> QED
    BY <1>1, <1>2, <1>3 DEF LoginsOK

-----------------------------------------------------------------------------
(* What becomes of the record of a refresh *)

LEMMA GotoFacts ==
  ASSUME Typed, NEW f \in Fetches, NEW x \in RefreshSteps, Goto(f, x)
  PROVE  /\ refresh' \in [Fetches -> Refreshes]
         /\ refresh'[f].pc = x /\ refresh'[f].token = refresh[f].token
         /\ refresh'[f].new = refresh[f].new /\ refresh'[f].late = refresh[f].late
         /\ \A g \in Fetches \ {f} : refresh'[g] = refresh[g]
  BY DEF Typed, Goto, Refreshes

LEMMA LateFacts ==
  ASSUME Typed, NEW S, NEW g \in Fetches
  PROVE  /\ Late(S) \in [Fetches -> Refreshes]
         /\ Late(S)[g].pc = refresh[g].pc /\ Late(S)[g].token = refresh[g].token
         /\ Late(S)[g].new = refresh[g].new
         /\ Late(S)[g].late <=> refresh[g].late \/ (refresh[g].pc = "valid" /\ SessionOf(g) \in S)
  <1>1. ASSUME NEW h \in Fetches
        PROVE  /\ Late(S)[h] \in Refreshes
               /\ Late(S)[h].pc = refresh[h].pc /\ Late(S)[h].token = refresh[h].token
               /\ Late(S)[h].new = refresh[h].new
               /\ Late(S)[h].late <=> refresh[h].late \/ (refresh[h].pc = "valid" /\ SessionOf(h) \in S)
    <2>1. refresh[h] \in Refreshes
      BY DEF Typed
    <2>2. [refresh[h] EXCEPT !.late = TRUE] \in Refreshes
      BY <2>1 DEF Refreshes
    <2>3. CASE refresh[h].pc = "valid" /\ SessionOf(h) \in S
      <3>1. Late(S)[h] = [refresh[h] EXCEPT !.late = TRUE]
        BY <2>3 DEF Late, SessionOf
      <3> QED
        BY <2>1, <2>2, <2>3, <3>1 DEF Refreshes
    <2>4. CASE ~(refresh[h].pc = "valid" /\ SessionOf(h) \in S)
      <3>1. Late(S)[h] = refresh[h]
        BY <2>4 DEF Late, SessionOf
      <3> QED
        BY <2>1, <2>4, <3>1
    <2> QED
      BY <2>3, <2>4
  <1> QED
    BY <1>1 DEF Late

LEMMA NoRefreshOK == NoRefresh \in Refreshes /\ NoRefresh.pc = "idle" /\ NoRefresh.token = 0 /\ NoRefresh.new = 0
  BY SessionsAssumption DEF NoRefresh, Refreshes, RefreshSteps

LEMMA SettleFacts ==
  ASSUME Base, NEW f \in Fetches, Runs(f), NEW ok, Settle(f, ok)
  PROVE  /\ refresh' \in [Fetches -> Refreshes] /\ promise' \in [Tabs -> Fetches \cup {None}]
         /\ fetch' \in [Fetches -> {"idle", "sent", "awaits"}]
         /\ refresh'[f] = NoRefresh /\ \A g \in Fetches \ {f} : refresh'[g] = refresh[g]
         /\ PromisesOK' /\ Rotators' \subseteq Rotators
  <1>1. refresh' \in [Fetches -> Refreshes] /\ refresh'[f] = NoRefresh
        /\ \A g \in Fetches \ {f} : refresh'[g] = refresh[g]
    BY NoRefreshOK DEF Settle, Base, Typed
  <1>2. /\ TabOf \in [Fetches -> Tabs] /\ TabOf[f] \in Tabs
        /\ promise' = [promise EXCEPT ![TabOf[f]] = None]
    BY SessionsAssumption DEF Settle
  <1>3. promise' \in [Tabs -> Fetches \cup {None}] /\ promise'[TabOf[f]] = None
        /\ \A b \in Tabs \ {TabOf[f]} : promise'[b] = promise[b]
    BY <1>2 DEF Base, Typed
  <1>4. \A g \in Fetches : fetch'[g] = IF TabOf[g] = TabOf[f] /\ (fetch[g] = "awaits" \/ ~ok) THEN "idle" ELSE fetch[g]
    BY DEF Settle
  <1>5. fetch' \in [Fetches -> {"idle", "sent", "awaits"}]
    <2>1. \A g \in Fetches : fetch'[g] \in {"idle", "sent", "awaits"}
      BY <1>4 DEF Base, Typed
    <2> QED
      BY <2>1 DEF Settle
  <1>6. promise[TabOf[f]] = f /\ fetch[f] = "awaits" /\ fetch'[f] = "idle"
    BY <1>4 DEF Base, PromisesOK
  <1>7. \A g \in Fetches \ {f} : Runs(g) => TabOf[g] # TabOf[f]
    BY <1>6 DEF Base, PromisesOK
  <1>8. (Runs(f)' <=> FALSE) /\ \A g \in Fetches \ {f} : Runs(g)' <=> Runs(g)
    BY <1>1, NoRefreshOK DEF Runs
  <1>9. PromisesOK'
    <2>1. ASSUME NEW b \in Tabs, promise'[b] # None PROVE TabOf[promise'[b]] = b /\ Runs(promise[b])' /\ promise'[b] = promise[b]
      <3>1. b # TabOf[f] /\ promise'[b] = promise[b]
        BY <1>3, <2>1
      <3>2. TabOf[promise[b]] = b /\ Runs(promise[b]) /\ promise[b] \in Fetches
        BY <2>1, <3>1 DEF Base, PromisesOK, Typed
      <3>3. promise[b] # f
        BY <3>1, <3>2
      <3>4. refresh'[promise[b]] = refresh[promise[b]]
        BY <3>2, <3>3, <1>1
      <3> QED
        BY <3>1, <3>2, <3>4, <2>1 DEF Runs
    <2>2. ASSUME NEW g \in Fetches, Runs(g)' PROVE promise'[TabOf[g]] = g /\ fetch'[g] = "awaits"
      <3>1. g # f /\ Runs(g) /\ TabOf[g] # TabOf[f] /\ TabOf[g] \in Tabs
        BY <1>2, <1>7, <1>8, <2>2
      <3> QED
        BY <1>3, <1>4, <3>1 DEF Base, PromisesOK
    <2>3. \A b \in Tabs : promise'[b] # None => TabOf[promise'[b]] = b /\ refresh'[promise'[b]].pc # "idle"
      BY <2>1 DEF Runs
    <2> QED
      BY <2>2, <2>3 DEF PromisesOK, Runs
  <1>10. Rotators' \subseteq Rotators
    <2> SUFFICES ASSUME NEW g \in Fetches, fetch'[g] # "idle", refresh'[g].pc \in {"idle", "sent", "valid"}
                 PROVE  g \in Rotators
      BY DEF Rotators
    <2>1. g # f /\ fetch[g] # "idle" /\ refresh[g] = refresh'[g]
      BY <1>1, <1>4, <1>6
    <2> QED
      BY <2>1 DEF Rotators
  <1> QED
    BY <1>1, <1>3, <1>5, <1>9, <1>10

-----------------------------------------------------------------------------
(* The steps that insert no row and start no refresh *)

LEMMA QuietBase ==
  ASSUME Base, Typed', RowsShrink, UNCHANGED <<promise, fetch>>,
         \A g \in Fetches :
            /\ refresh'[g].token = refresh[g].token /\ (Runs(g)' <=> Runs(g))
            /\ refresh'[g].pc \in {"idle", "sent", "valid"} => refresh[g].pc \in {"idle", "sent", "valid"}
            /\ RefreshOK(g)',
         snap'["reset"] \cap Unused = {}, ended' \subseteq Tokens \ Unused,
         \A l \in Logins : Created(l)' =>
            /\ Created(l) /\ login'[l].token = login[l].token
            /\ cookie' # 0 => session[cookie'] # login[l].token,
         Checked' \subseteq Checked, cookie' \notin Unused
  PROVE  Base'
  <1>1. RowsOK' /\ PromisesOK'
    BY RowsKept, PromisesKept
  <1>2. HandsOK'
    BY ShrinkFacts DEF HandsOK
  <1>3. LoginsOK'
    BY ShrinkFacts, LoginsKept DEF RowsShrink
  <1>4. Room'
    <2>1. Rotators' \subseteq Rotators
      BY DEF Rotators
    <2> QED
      BY <2>1, RoomKept, ShrinkFacts
  <1> QED
    BY <1>1, <1>2, <1>3, <1>4 DEF Base

LEMMA SettleBase ==
  ASSUME Base, NEW f \in Fetches, Runs(f), NEW ok, Settle(f, ok),
         UNCHANGED <<db, login, logout, reset, snap, ended>>, failures' \in 0..MaxFailures,
         cookie' \in 0..MaxTokens, cookie' \notin Unused,
         \A l \in Logins : Created(l) /\ cookie' # 0 => session[cookie'] # login[l].token
  PROVE  Base'
  <1>1. RowsShrink
    BY DEF RowsShrink, db
  <1>2. Typed'
    BY SettleFacts DEF Base, Typed, db
  <1>3. RowsOK'
    BY <1>1, RowsKept DEF Base, RowsOK
  <1>4. \A g \in Fetches : RefreshOK(g)'
    <2>1. RefreshOK(f)'
      BY NoRefreshOK, SettleFacts DEF RefreshOK, Unused, Tokens
    <2>2. \A g \in Fetches \ {f} : RefreshOK(g)'
      BY <1>1, SettleFacts, RefreshKept, ShrinkFacts DEF SameRefresh
    <2> QED
      BY <2>1, <2>2
  <1>5. HandsOK'
    BY <1>1, <1>4, ShrinkFacts DEF HandsOK, Base
  <1>6. LoginsOK'
    <2>1. \A g \in Fetches : Runs(g)' => Runs(g) /\ refresh'[g].token = refresh[g].token
      BY SettleFacts, NoRefreshOK DEF Runs
    <2>2. \A l \in Logins : Created(l)' => Created(l)
      BY DEF Created
    <2> QED
      BY <1>1, <2>1, <2>2, ShrinkFacts, LoginsKept DEF RowsShrink
  <1>7. Room'
    BY <1>1, SettleFacts, RoomKept, ShrinkFacts DEF Checked
  <1> QED
    BY <1>2, <1>3, <1>5, <1>6, <1>7, SettleFacts DEF Base

-----------------------------------------------------------------------------
(* What keeps the sessions that nobody disturbed as they are *)

LEMMA CleanKept ==
  ASSUME Base, CleanInv, Base', session' = session, disturbed \subseteq disturbed',
         cookie' = cookie \/ cookie' = 0,
         \A t \in Tokens \ Unused : session[t] \notin disturbed' =>
            status'[t] = status[t] \/ status'[t] = "gone",
         Unused' = Unused,
         \A g \in Fetches :
            /\ Clean(g)' =>
                  /\ Clean(g) /\ refresh'[g].token = refresh[g].token /\ refresh'[g].new = refresh[g].new
                  /\ refresh'[g].pc \notin {"replayed", "revoking"}
                  /\ refresh'[g].pc \in {"issued", "answered"} <=> refresh[g].pc \in {"issued", "answered"}
            /\ Clean(g) /\ SessionOf(g) \notin disturbed' => Clean(g)' /\ SessionOf(g)' = SessionOf(g),
         \A l \in Logins : Created(l)' => Created(l) /\ login'[l].token = login[l].token
  PROVE  CleanInv'
  <1>1. \A t \in Tokens : \A s : s \notin disturbed' /\ s # 0 /\ Mine(t, s)' => Mine(t, s)
    BY DEF Mine, Unused
  <1>2. \A t \in Tokens \ Unused : session[t] \notin disturbed' /\ Sound(t) => Sound(t)'
    BY DEF Sound
  <1>3. \A s, t : s \notin disturbed' /\ s # 0 /\ Only(s, t) => Only(s, t)'
    BY <1>1 DEF Only
  <1>4. ASSUME NEW g \in Fetches, Clean(g)'
        PROVE  /\ Clean(g) /\ SessionOf(g)' = SessionOf(g) /\ SessionOf(g) \notin disturbed' /\ SessionOf(g) # 0
               /\ refresh'[g].token = refresh[g].token /\ refresh'[g].new = refresh[g].new
               /\ refresh[g].token \in Tokens \ Unused
               /\ refresh[g].pc \in {"issued", "answered"} =>
                     refresh[g].new \in Tokens \ Unused /\ session[refresh[g].new] = SessionOf(g)
    <2>1. Clean(g) /\ refresh'[g].token = refresh[g].token /\ SessionOf(g)' = SessionOf(g) /\ SessionOf(g)' \notin disturbed'
      BY <1>4 DEF Clean, SessionOf
    <2>2. RefreshOK(g) /\ refresh[g].token \in Tokens \ Unused
      BY <2>1 DEF Base, HandsOK, RefreshOK, Clean, Typed, Refreshes, Tokens
    <2>3. SessionOf(g) # 0
      BY <2>2 DEF Base, RowsOK, SessionOf, Tokens
    <2>4. refresh[g].pc \in {"issued", "answered"} =>
              refresh[g].new \in Tokens \ Unused /\ session[refresh[g].new] = SessionOf(g)
      BY <2>2 DEF RefreshOK, Base, Typed, Refreshes, Tokens
    <2> QED
      BY <2>1, <2>2, <2>3, <2>4
  <1>5. RefreshesClean'
    <2>1. \A f, g \in Fetches : Clean(f)' /\ Clean(g)' /\ SessionOf(f)' = SessionOf(g)' => f = g
      BY <1>4 DEF CleanInv, RefreshesClean
    <2>2. ASSUME NEW f \in Fetches, Clean(f)'
          PROVE  /\ refresh'[f].pc \notin {"replayed", "revoking"}
                 /\ cookie' # 0 /\ session'[cookie'] = SessionOf(f)' => cookie' = refresh'[f].token
                 /\ IF refresh'[f].pc \in {"issued", "answered"}
                    THEN Sound(refresh[f].new)' /\ Only(SessionOf(f), refresh[f].new)'
                    ELSE Sound(refresh[f].token)' /\ Only(SessionOf(f), refresh[f].token)'
      <3>1. cookie' # 0 /\ session'[cookie'] = SessionOf(f)' => cookie' = refresh'[f].token
        BY <1>4, <2>2 DEF CleanInv, RefreshesClean
      <3>2. CASE refresh[f].pc \in {"issued", "answered"}
        <4>1. Sound(refresh[f].new) /\ Only(SessionOf(f), refresh[f].new)
          BY <1>4, <2>2, <3>2 DEF CleanInv, RefreshesClean
        <4>2. Sound(refresh[f].new)'
          BY <1>2, <1>4, <2>2, <3>2, <4>1 DEF Sound
        <4>3. \A s, t : s = SessionOf(f) /\ t = refresh[f].new => Only(s, t)'
          BY <1>3, <1>4, <2>2, <4>1
        <4>4. Only(SessionOf(f), refresh[f].new)'
          BY <1>4, <2>2, <4>3 DEF Only, Mine
        <4> QED
          BY <2>2, <3>1, <3>2, <4>2, <4>4
      <3>3. CASE refresh[f].pc \notin {"issued", "answered"}
        <4>1. Sound(refresh[f].token) /\ Only(SessionOf(f), refresh[f].token)
          BY <1>4, <2>2, <3>3 DEF CleanInv, RefreshesClean
        <4>2. Sound(refresh[f].token)'
          BY <1>2, <1>4, <2>2, <4>1 DEF Sound, SessionOf
        <4>3. Only(SessionOf(f), refresh[f].token)'
          BY <1>3, <1>4, <2>2, <4>1, SMTT(30) DEF Only, Mine
        <4> QED
          BY <2>2, <3>1, <3>3, <4>2, <4>3
      <3> QED
        BY <3>2, <3>3
    <2> QED
      BY <2>1, <2>2 DEF RefreshesClean, Sound, Only, Mine
  <1>6. CookieClean'
    <2> SUFFICES ASSUME cookie' # 0, session'[cookie'] \notin disturbed',
                        \A f \in Fetches : Clean(f)' => SessionOf(f)' # session'[cookie']
                 PROVE  Sound(cookie)' /\ Only(session[cookie], cookie)'
      BY DEF CookieClean
    <2>1. /\ cookie' = cookie /\ cookie # 0 /\ session[cookie] \notin disturbed /\ session[cookie] \notin disturbed'
          /\ cookie \in Tokens \ Unused /\ session[cookie] # 0
      BY DEF Base, RowsOK, Typed, Tokens
    <2>2. \A f \in Fetches : Clean(f) => SessionOf(f) # session[cookie]
      BY <2>1
    <2>3. Sound(cookie) /\ Only(session[cookie], cookie)
      BY <2>1, <2>2 DEF CleanInv, CookieClean
    <2> QED
      BY <1>2, <1>3, <2>1, <2>3 DEF Sound, Only, Mine
  <1>7. LoginsClean'
    <2> SUFFICES ASSUME NEW l \in Logins, Created(l)', login'[l].token \notin disturbed'
                 PROVE  Sound(login[l].token)'
      BY DEF LoginsClean, Sound
    <2>1. Created(l) /\ login'[l].token = login[l].token /\ login[l].token \in Tokens \ Unused
          /\ session[login[l].token] = login[l].token
      BY DEF Base, LoginsOK
    <2>2. Sound(login[l].token)
      BY <2>1 DEF CleanInv, LoginsClean
    <2> QED
      BY <1>2, <2>1, <2>2 DEF Sound
  <1>8. OneEach'
    <2>1. \A s \in Tokens \ disturbed' : s # 0
      BY DEF Tokens
    <2> QED
      BY <1>1, <2>1 DEF CleanInv, OneEach
  <1> QED
    BY <1>5, <1>6, <1>7, <1>8 DEF CleanInv

-----------------------------------------------------------------------------
(* What lets nobody in who was out: sessions S end. *)

LEMMA OutKept ==
  ASSUME Base, OutInv, RowsShrink, NEW S, loginOf' = loginOf,
         overlapping \subseteq overlapping', ended' = ended \cup S,
         \A t \in Tokens : t \in Valid' /\ session[t] \in S => t \in overlapping',
         \A f \in Fetches : refresh'[f].pc = "valid" =>
            /\ refresh'[f].token = refresh[f].token
            /\ \/ refresh[f].pc = "valid" /\ (refresh[f].late => refresh'[f].late)
               \/ refresh[f].token \in Valid
            /\ SessionOf(f) \in S => refresh'[f].late,
         \A f \in Fetches : refresh'[f].pc = "revoking" =>
            /\ refresh[f].pc = "revoking" /\ refresh'[f].token = refresh[f].token
            /\ snap'[f] = snap[f],
         reset' = "revoking" => reset = "revoking" /\ snap'["reset"] = snap["reset"],
         reset' = "done" =>
            \/ reset = "done" /\ password' = password
            \/ \A t \in Tokens \ Unused : session[t] \in S,
         reset' = "done" => \A l \in Logins : login'[l].pc = "checked" =>
            \/ login'[l].late \/ login'[l].password = password'
            \/ /\ reset = "done" /\ password' = password /\ login[l].pc = "checked"
               /\ login'[l].late = login[l].late /\ login'[l].password = login[l].password
  PROVE  OutInv'
  <1>1. /\ session' = session
        /\ \A t \in Tokens : t \in Valid' => t \in Valid /\ t \notin Unused
    BY DEF RowsShrink, Valid, Unused
  <1>2. EndedStaysEnded'
    <2> SUFFICES ASSUME NEW t \in Tokens, t \in Valid', session[t] \in ended \cup S PROVE t \in overlapping'
      BY <1>1 DEF EndedStaysEnded, Valid
    <2> QED
      BY <1>1 DEF OutInv, RevokedStaysOut, EndedStaysEnded
  <1>3. OldPasswordIsOut'
    <2> SUFFICES ASSUME reset' = "done", NEW t \in Tokens, t \in Valid'
                 PROVE  loginOf[t] = password' \/ t \in overlapping'
      BY DEF OldPasswordIsOut, Valid
    <2> QED
      BY <1>1 DEF OutInv, RevokedStaysOut, OldPasswordIsOut
  <1>4. LateOK'
    <2> SUFFICES ASSUME NEW f \in Fetches, refresh'[f].pc = "valid", ~refresh'[f].late, refresh'[f].token \notin overlapping'
                 PROVE  /\ SessionOf(f)' \notin ended'
                        /\ reset' = "done" => loginOf'[refresh'[f].token] = password'
      BY DEF LateOK
    <2>1. refresh'[f].token = refresh[f].token /\ SessionOf(f)' = SessionOf(f) /\ SessionOf(f) \notin S
          /\ refresh[f].token \notin overlapping
      BY <1>1 DEF SessionOf
    <2>2. /\ SessionOf(f) \notin ended
          /\ reset = "done" => loginOf[refresh[f].token] = password
      <3>1. CASE refresh[f].pc = "valid" /\ ~refresh[f].late
        BY <2>1, <3>1 DEF OutInv, LateOK
      <3>2. CASE refresh[f].token \in Valid
        BY <2>1, <3>2 DEF OutInv, RevokedStaysOut, EndedStaysEnded, OldPasswordIsOut, SessionOf
      <3> QED
        BY <3>1, <3>2
    <2>3. reset' = "done" => reset = "done" /\ password' = password
      <3>1. refresh[f].token \in Tokens \ Unused
        <4>1. refresh[f].pc = "valid" => refresh[f].token \in Tokens \ Unused
          BY DEF Base, HandsOK, RefreshOK, Typed, Refreshes, Tokens
        <4>2. refresh[f].token \in Valid => refresh[f].token \in Tokens \ Unused
          BY DEF Valid, Unused
        <4> QED
          BY <4>1, <4>2
      <3> QED
        BY <2>1, <3>1 DEF SessionOf
    <2> QED
      BY <2>1, <2>2, <2>3
  <1>5. LoginsLateOK'
    BY DEF OutInv, LoginsLateOK
  <1>6. Found'
    <2>1. ASSUME NEW f \in Fetches, refresh'[f].pc = "revoking", snap'[f] # {},
                 NEW t \in Tokens, t \in Valid', session[t] = SessionOf(f)'
          PROVE  t \in snap'[f] \cup overlapping'
      BY <1>1, <2>1 DEF OutInv, Found, SessionOf
    <2>2. ASSUME reset' = "revoking", NEW t \in Tokens, t \in Valid' PROVE t \in snap'["reset"] \cup overlapping'
      BY <1>1, <2>2 DEF OutInv, Found
    <2> QED
      BY <1>1, <2>1, <2>2 DEF Found, Valid
  <1> QED
    BY <1>2, <1>3, <1>4, <1>5, <1>6 DEF OutInv, RevokedStaysOut

LEMMA OutQuiet ==
  ASSUME Base, OutInv, RowsShrink, UNCHANGED <<loginOf, password, ended, overlapping, reset>>,
         snap'["reset"] = snap["reset"],
         \A f \in Fetches : refresh'[f].pc = "valid" =>
            /\ refresh'[f].token = refresh[f].token
            /\ \/ refresh[f].pc = "valid" /\ (refresh[f].late => refresh'[f].late)
               \/ refresh[f].token \in Valid,
         \A f \in Fetches : refresh'[f].pc = "revoking" =>
            /\ refresh[f].pc = "revoking" /\ refresh'[f].token = refresh[f].token
            /\ snap'[f] = snap[f],
         \A l \in Logins : login'[l].pc = "checked" =>
            login'[l].late \/ login'[l].password = password \/ login'[l] = login[l]
  PROVE  OutInv'
  <1>1. PICK S : S = {}
    OBVIOUS
  <1>2. /\ overlapping \subseteq overlapping' /\ ended' = ended \cup S /\ loginOf' = loginOf
        /\ \A t \in Tokens : t \in Valid' /\ session[t] \in S => t \in overlapping'
        /\ \A f \in Fetches : SessionOf(f) \notin S
    BY <1>1
  <1>3. /\ reset' = "revoking" => reset = "revoking" /\ snap'["reset"] = snap["reset"]
        /\ reset' = "done" => reset = "done" /\ password' = password
        /\ reset' = "done" => \A l \in Logins : login'[l].pc = "checked" =>
            \/ login'[l].late \/ login'[l].password = password'
            \/ /\ reset = "done" /\ password' = password /\ login[l].pc = "checked"
               /\ login'[l].late = login[l].late /\ login'[l].password = login[l].password
    OBVIOUS
  <1> QED
    BY <1>2, <1>3, OutKept

-----------------------------------------------------------------------------
(* A refresh goes on *)

LEMMA PcStepBase ==
  ASSUME Base, NEW f \in Fetches, NEW x \in RefreshSteps \ {"idle", "sent"}, Goto(f, x), Runs(f),
         x = "valid" => refresh[f].pc = "sent",
         UNCHANGED <<db, browser, login, logout, reset, ended>>, failures' \in 0..MaxFailures,
         snap' \in [Fetches \cup {"reset"} -> SUBSET Tokens], snap'["reset"] = snap["reset"],
         \A g \in Fetches \ {f} : snap'[g] = snap[g],
         RefreshOK(f)'
  PROVE  Base'
  <1>1. RowsShrink
    BY DEF RowsShrink, db
  <1>2. /\ refresh' \in [Fetches -> Refreshes]
        /\ refresh'[f].pc = x /\ refresh'[f].token = refresh[f].token
        /\ \A g \in Fetches \ {f} : refresh'[g] = refresh[g]
    BY GotoFacts DEF Base
  <1>3. Typed'
    BY <1>2 DEF Base, Typed, db, browser
  <1>4. \A g \in Fetches : RefreshOK(g)'
    BY <1>1, <1>2, RefreshKept, ShrinkFacts DEF SameRefresh
  <1>5. \A g \in Fetches : refresh'[g].token = refresh[g].token /\ (Runs(g)' <=> Runs(g))
    BY <1>2 DEF Runs
  <1>6. \A g \in Fetches : refresh'[g].pc \in {"idle", "sent", "valid"} => refresh[g].pc \in {"idle", "sent", "valid"}
    BY <1>2
  <1>7. snap'["reset"] \cap Unused = {} /\ ended' \subseteq Tokens \ Unused /\ cookie' \notin Unused
    BY DEF Base, HandsOK, RowsOK, browser
  <1>8. \A l \in Logins : Created(l)' =>
            /\ Created(l) /\ login'[l].token = login[l].token
            /\ cookie' # 0 => session[cookie'] # login[l].token
    BY DEF Base, LoginsOK, Created, browser
  <1>9. Checked' \subseteq Checked /\ UNCHANGED <<promise, fetch>>
    BY DEF Checked, browser
  <1> QED
    BY <1>1, <1>3, <1>4, <1>5, <1>6, <1>7, <1>8, <1>9, QuietBase

LEMMA PcStepInv ==
  ASSUME SessionsIInv, NEW f \in Fetches, NEW x \in RefreshSteps \ {"idle", "sent", "revoking"}, Goto(f, x), Runs(f),
         UNCHANGED <<db, browser, login, logout, reset, snap, ended, overlapping>>, failures' \in 0..MaxFailures,
         disturbed \subseteq disturbed', RefreshOK(f)',
         x = "valid" => refresh[f].pc = "sent" /\ refresh[f].token \in Valid,
         Clean(f) /\ SessionOf(f) \notin disturbed' =>
            /\ x # "replayed"
            /\ x \in {"issued", "answered"} <=> refresh[f].pc \in {"issued", "answered"}
  PROVE  SessionsIInv'
  <1>1. Base'
    BY PcStepBase DEF SessionsIInv, Base, Typed
  <1>2. /\ refresh'[f].pc = x /\ refresh'[f].token = refresh[f].token /\ refresh'[f].new = refresh[f].new
        /\ refresh'[f].late = refresh[f].late
        /\ \A g \in Fetches \ {f} : refresh'[g] = refresh[g]
    BY GotoFacts DEF SessionsIInv, Base
  <1>3. RowsShrink /\ Unused' = Unused
    BY DEF RowsShrink, db, Unused
  <1>4. \A g \in Fetches : SessionOf(g)' = SessionOf(g) /\ (Runs(g)' <=> Runs(g))
    BY <1>2 DEF SessionOf, db, Runs
  <1>5. ASSUME NEW g \in Fetches
        PROVE  /\ Clean(g)' <=> Clean(g) /\ SessionOf(g) \notin disturbed'
               /\ Clean(g)' =>
                    /\ refresh'[g].pc \notin {"replayed", "revoking"}
                    /\ refresh'[g].pc \in {"issued", "answered"} <=> refresh[g].pc \in {"issued", "answered"}
    <2>1. Clean(g)' <=> Clean(g) /\ SessionOf(g) \notin disturbed'
      BY <1>2, <1>4 DEF Clean
    <2>2. CASE g = f
      BY <1>2, <2>1, <2>2
    <2>3. CASE g # f
      BY <1>2, <2>1, <2>3 DEF SessionsIInv, CleanInv, RefreshesClean
    <2> QED
      BY <2>1, <2>2, <2>3
  <1>6. CleanInv'
    <2>1. \A g \in Fetches :
            /\ Clean(g)' =>
                  /\ Clean(g) /\ refresh'[g].token = refresh[g].token /\ refresh'[g].new = refresh[g].new
                  /\ refresh'[g].pc \notin {"replayed", "revoking"}
                  /\ refresh'[g].pc \in {"issued", "answered"} <=> refresh[g].pc \in {"issued", "answered"}
            /\ Clean(g) /\ SessionOf(g) \notin disturbed' => Clean(g)' /\ SessionOf(g)' = SessionOf(g)
      BY <1>2, <1>4, <1>5
    <2>2. \A l \in Logins : Created(l)' => Created(l) /\ login'[l].token = login[l].token
      BY DEF Created
    <2> QED
      BY <1>1, <1>3, <2>1, <2>2, CleanKept DEF SessionsIInv, db, browser
  <1>7. OutInv'
    <2>1. \A h \in Fetches : refresh'[h].pc = "valid" =>
            /\ refresh'[h].token = refresh[h].token
            /\ \/ refresh[h].pc = "valid" /\ (refresh[h].late => refresh'[h].late)
               \/ refresh[h].token \in Valid
      BY <1>2
    <2>2. \A h \in Fetches : refresh'[h].pc = "revoking" =>
            refresh[h].pc = "revoking" /\ refresh'[h].token = refresh[h].token
      BY <1>2
    <2> QED
      BY <1>3, <2>1, <2>2, OutQuiet DEF SessionsIInv, db
  <1> QED
    BY <1>1, <1>6, <1>7 DEF SessionsIInv

LEMMA TokenFacts ==
  ASSUME Base, NEW f \in Fetches
  PROVE  /\ refresh[f] \in Refreshes /\ RefreshOK(f)
         /\ refresh[f].token # 0 => /\ refresh[f].token \in Tokens \ Unused
                                    /\ SessionOf(f) \in Tokens \ Unused
         /\ refresh[f].new # 0 => refresh[f].new \in Tokens \ Unused
  BY DEF Base, HandsOK, RefreshOK, Typed, Refreshes, Tokens, RowsOK, SessionOf

LEMMA RotateSelectInv == ASSUME SessionsIInv, NEW f \in Fetches, RotateSelect(f) PROVE SessionsIInv'
  <1> DEFINE t == refresh[f].token
  <1>1. PICK x : x = IF t = 0 THEN "refused" ELSE IF status[t] = "valid" THEN "valid"
                     ELSE IF status[t] = "revoked" THEN "replayed" ELSE "refused"
    OBVIOUS
  <1>2. /\ x \in RefreshSteps \ {"idle", "sent", "revoking", "issued", "answered"} /\ Goto(f, x)
        /\ refresh[f].pc = "sent" /\ Runs(f)
        /\ UNCHANGED <<db, browser, login, logout, reset, snap, failures, history>>
    BY <1>1 DEF RotateSelect, RefreshSteps, Runs
  <1>3. /\ x = "valid" => t # 0 /\ status[t] = "valid"
        /\ x = "replayed" => t # 0 /\ status[t] = "revoked"
    BY <1>1
  <1>4. RefreshOK(f)'
    BY <1>2, <1>3, TokenFacts, GotoFacts DEF SessionsIInv, Base, RefreshOK, db, Unused
  <1>5. x = "valid" => t \in Valid
    BY <1>3, TokenFacts DEF SessionsIInv, Valid
  <1>6. Clean(f) => x # "replayed"
    BY <1>2, <1>3 DEF SessionsIInv, CleanInv, RefreshesClean, Sound
  <1> QED
    BY <1>2, <1>4, <1>5, <1>6, PcStepInv DEF history, SessionsIInv, Base, Typed

LEMMA RotateFailsInv == ASSUME SessionsIInv, NEW f \in Fetches, RotateFails(f) PROVE SessionsIInv'
  <1>1. /\ "refused" \in RefreshSteps \ {"idle", "sent", "revoking"} /\ Goto(f, "refused")
        /\ refresh[f].pc = "valid" /\ Runs(f)
        /\ UNCHANGED <<db, browser, login, logout, reset, snap, history>>
    BY DEF RotateFails, RefreshSteps, Runs
  <1>2. failures' \in 0..MaxFailures
    BY SessionsAssumption DEF RotateFails, Failure, SessionsIInv, Base, Typed
  <1>3. RefreshOK(f)'
    BY <1>1, TokenFacts, GotoFacts DEF SessionsIInv, Base, RefreshOK, db, Unused
  <1> QED
    BY <1>1, <1>2, <1>3, PcStepInv DEF history

LEMMA FindValidInv == ASSUME SessionsIInv, NEW f \in Fetches, FindValid(f) PROVE SessionsIInv'
  <1> DEFINE n == refresh[f].new
  <1>1. PICK x : x = IF status[n] = "valid" THEN "answered" ELSE "refused"
    OBVIOUS
  <1>2. /\ x \in RefreshSteps \ {"idle", "sent", "revoking"} /\ x \in {"answered", "refused"} /\ Goto(f, x)
        /\ refresh[f].pc = "issued" /\ Runs(f)
        /\ UNCHANGED <<db, browser, login, logout, reset, snap, failures, ended, overlapping>>
    BY <1>1 DEF FindValid, RefreshSteps, Runs
  <1>3. /\ disturbed \subseteq disturbed'
        /\ x = "refused" => session[n] \in disturbed'
    BY <1>1 DEF FindValid
  <1>4. session[n] = SessionOf(f)
    BY <1>2, TokenFacts DEF SessionsIInv, RefreshOK
  <1>5. RefreshOK(f)'
    BY <1>2, TokenFacts, GotoFacts DEF SessionsIInv, Base, RefreshOK, db, Unused, SessionOf
  <1> QED
    BY <1>2, <1>3, <1>4, <1>5, PcStepInv DEF SessionsIInv, Base, Typed

LEMMA FindFailsInv == ASSUME SessionsIInv, NEW f \in Fetches, FindFails(f) PROVE SessionsIInv'
  <1>1. /\ "refused" \in RefreshSteps \ {"idle", "sent", "revoking"} /\ Goto(f, "refused")
        /\ refresh[f].pc = "issued" /\ Runs(f)
        /\ UNCHANGED <<db, browser, login, logout, reset, snap, ended, overlapping>>
    BY DEF FindFails, RefreshSteps, Runs
  <1>2. failures' \in 0..MaxFailures
    BY SessionsAssumption DEF FindFails, Failure, SessionsIInv, Base, Typed
  <1>3. session[refresh[f].new] = SessionOf(f)
    BY <1>1, TokenFacts DEF SessionsIInv, RefreshOK
  <1>4. disturbed \subseteq disturbed' /\ SessionOf(f) \in disturbed'
    BY <1>3 DEF FindFails
  <1>5. RefreshOK(f)'
    BY <1>1, TokenFacts, GotoFacts DEF SessionsIInv, Base, RefreshOK, db, Unused
  <1> QED
    BY <1>1, <1>2, <1>4, <1>5, PcStepInv

(* A refresh ends *)

LEMMA SettleOut ==
  ASSUME SessionsIInv, NEW f \in Fetches, Runs(f), NEW ok, Settle(f, ok),
         UNCHANGED <<db, login, logout, reset, snap, ended, overlapping>>
  PROVE  OutInv'
  <1>1. refresh'[f] = NoRefresh /\ \A g \in Fetches \ {f} : refresh'[g] = refresh[g]
    BY SettleFacts DEF SessionsIInv
  <1>2. \A h \in Fetches : refresh'[h].pc \in {"valid", "revoking"} => refresh'[h] = refresh[h]
    BY <1>1, NoRefreshOK
  <1>3. RowsShrink
    BY DEF RowsShrink, db
  <1> QED
    BY <1>2, <1>3, OutQuiet DEF SessionsIInv, db

LEMMA LoseResponseInv == ASSUME SessionsIInv, NEW f \in Fetches, LoseResponse(f) PROVE SessionsIInv'
  <1>1. /\ Runs(f) /\ refresh[f].pc = "answered" /\ Settle(f, FALSE)
        /\ UNCHANGED <<db, cookie, login, logout, reset, snap, ended, overlapping>>
        /\ disturbed' = disturbed \cup {SessionOf(f)}
    BY DEF LoseResponse, Runs, SessionOf
  <1>2. failures' \in 0..MaxFailures
    BY SessionsAssumption DEF LoseResponse, Failure, SessionsIInv, Base, Typed
  <1>3. Base'
    <2>1. cookie' \in 0..MaxTokens /\ cookie' \notin Unused
          /\ \A l \in Logins : Created(l) /\ cookie' # 0 => session[cookie'] # login[l].token
      BY <1>1 DEF SessionsIInv, Base, Typed, RowsOK, LoginsOK
    <2> QED
      BY <1>1, <1>2, <2>1, SettleBase DEF SessionsIInv
  <1>4. refresh'[f] = NoRefresh /\ \A g \in Fetches \ {f} : refresh'[g] = refresh[g]
    BY <1>1, SettleFacts DEF SessionsIInv
  <1>5. \A g \in Fetches : Clean(g)' <=> g # f /\ Clean(g) /\ SessionOf(g) \notin disturbed'
    BY <1>1, <1>4, NoRefreshOK DEF Clean, Runs, SessionOf, db
  <1>6. CleanInv'
    <2>1. \A g \in Fetches :
            /\ Clean(g)' =>
                  /\ Clean(g) /\ refresh'[g].token = refresh[g].token /\ refresh'[g].new = refresh[g].new
                  /\ refresh'[g].pc \notin {"replayed", "revoking"}
                  /\ refresh'[g].pc \in {"issued", "answered"} <=> refresh[g].pc \in {"issued", "answered"}
            /\ Clean(g) /\ SessionOf(g) \notin disturbed' => Clean(g)' /\ SessionOf(g)' = SessionOf(g)
      <3>1. \A g \in Fetches : Clean(g)' => refresh'[g] = refresh[g] /\ refresh[g].pc \notin {"replayed", "revoking"}
        BY <1>4, <1>5 DEF SessionsIInv, CleanInv, RefreshesClean
      <3>2. \A g \in Fetches : SessionOf(g) \notin disturbed' => g # f
        BY <1>1
      <3>3. \A g \in Fetches \ {f} : SessionOf(g)' = SessionOf(g)
        BY <1>1, <1>4 DEF SessionOf, db
      <3> QED
        BY <1>5, <3>1, <3>2, <3>3
    <2>2. \A l \in Logins : Created(l)' => Created(l) /\ login'[l].token = login[l].token
      BY <1>1 DEF Created
    <2>3. Unused' = Unused /\ session' = session /\ status' = status
      BY <1>1 DEF db, Unused
    <2> QED
      BY <1>1, <1>3, <2>1, <2>2, <2>3, CleanKept DEF SessionsIInv
  <1>7. OutInv'
    BY <1>1, SettleOut
  <1> QED
    BY <1>3, <1>6, <1>7 DEF SessionsIInv

(* The rows are as before, and no refresh is new. *)
LEMMA SettleClean ==
  ASSUME SessionsIInv, NEW f \in Fetches, Runs(f), NEW ok, Settle(f, ok),
         UNCHANGED <<db, login, disturbed>>,
         \A g \in Fetches \ {f} : Clean(g) /\ cookie' # 0 /\ session[cookie'] = SessionOf(g) => cookie' = refresh[g].token,
         (/\ cookie' # 0 /\ session[cookie'] \notin disturbed
          /\ \A g \in Fetches \ {f} : Clean(g) => SessionOf(g) # session[cookie'])
             => Sound(cookie') /\ Only(session[cookie'], cookie')
  PROVE  CleanInv'
  <1>1. refresh'[f] = NoRefresh /\ \A g \in Fetches \ {f} : refresh'[g] = refresh[g]
    BY SettleFacts DEF SessionsIInv
  <1>2. \A g \in Fetches : Clean(g)' <=> g # f /\ Clean(g)
    BY <1>1, NoRefreshOK DEF Clean, Runs, SessionOf, db
  <1>3. \A g \in Fetches \ {f} : SessionOf(g)' = SessionOf(g)
    BY <1>1 DEF SessionOf, db
  <1>4. \A t, s : (Sound(t)' <=> Sound(t)) /\ (Only(s, t)' <=> Only(s, t)) /\ (Mine(t, s)' <=> Mine(t, s))
    BY DEF Sound, Only, Mine, db
  <1>5. RefreshesClean'
    <2>1. \A g, h \in Fetches : Clean(g)' /\ Clean(h)' /\ SessionOf(g)' = SessionOf(h)' => g = h
      BY <1>2, <1>3 DEF SessionsIInv, CleanInv, RefreshesClean
    <2>2. ASSUME NEW g \in Fetches, Clean(g)'
          PROVE  /\ refresh'[g].pc \notin {"replayed", "revoking"}
                 /\ cookie' # 0 /\ session'[cookie'] = SessionOf(g)' => cookie' = refresh'[g].token
                 /\ IF refresh'[g].pc \in {"issued", "answered"}
                    THEN Sound(refresh[g].new)' /\ Only(SessionOf(g), refresh[g].new)'
                    ELSE Sound(refresh[g].token)' /\ Only(SessionOf(g), refresh[g].token)'
      <3>1. g # f /\ Clean(g) /\ refresh'[g] = refresh[g] /\ SessionOf(g)' = SessionOf(g)
        BY <1>1, <1>2, <1>3, <2>2
      <3>2. cookie' # 0 /\ session'[cookie'] = SessionOf(g)' => cookie' = refresh'[g].token
        BY <3>1 DEF db
      <3>3. /\ refresh[g].pc \notin {"replayed", "revoking"}
            /\ IF refresh[g].pc \in {"issued", "answered"}
               THEN Sound(refresh[g].new) /\ Only(SessionOf(g), refresh[g].new)
               ELSE Sound(refresh[g].token) /\ Only(SessionOf(g), refresh[g].token)
        BY <3>1 DEF SessionsIInv, CleanInv, RefreshesClean
      <3>4. IF refresh[g].pc \in {"issued", "answered"}
            THEN Sound(refresh[g].new)' /\ Only(SessionOf(g), refresh[g].new)'
            ELSE Sound(refresh[g].token)' /\ Only(SessionOf(g), refresh[g].token)'
        BY <3>1, <3>3 DEF Sound, Only, Mine, db
      <3> QED
        BY <3>1, <3>2, <3>3, <3>4
    <2> QED
      BY <2>1, <2>2 DEF RefreshesClean
  <1>6. CookieClean'
    <2> SUFFICES ASSUME cookie' # 0, session'[cookie'] \notin disturbed',
                        \A g \in Fetches : Clean(g)' => SessionOf(g)' # session'[cookie']
                 PROVE  Sound(cookie)' /\ Only(session[cookie], cookie)'
      BY DEF CookieClean
    <2>1. \A g \in Fetches \ {f} : Clean(g) => SessionOf(g) # session[cookie']
      BY <1>2, <1>3 DEF db
    <2>2. Sound(cookie') /\ Only(session[cookie'], cookie')
      BY <2>1 DEF db
    <2> QED
      BY <2>2 DEF Sound, Only, Mine, db
  <1>7. LoginsClean' /\ OneEach'
    BY DEF SessionsIInv, CleanInv, LoginsClean, OneEach, Created, Sound, Mine, db
  <1> QED
    BY <1>5, <1>6, <1>7 DEF CleanInv

LEMMA RespondInv == ASSUME SessionsIInv, NEW f \in Fetches, Respond(f) PROVE SessionsIInv'
  <1>1. /\ Runs(f) /\ refresh[f].pc = "answered" /\ Settle(f, TRUE) /\ cookie' = refresh[f].new
        /\ UNCHANGED <<db, login, logout, reset, snap, failures, history>>
    BY DEF Respond, Runs
  <1>2. /\ refresh[f].token # 0 /\ cookie' \in Tokens \ Unused /\ session[cookie'] = SessionOf(f)
        /\ cookie' # 0
    BY <1>1, TokenFacts DEF SessionsIInv, RefreshOK
  <1>3. Base'
    <2>1. cookie' \in 0..MaxTokens
      BY <1>1, TokenFacts DEF SessionsIInv, Refreshes
    <2>2. \A l \in Logins : Created(l) => session[cookie'] # login[l].token
      BY <1>1, <1>2 DEF SessionsIInv, Base, LoginsOK
    <2>3. failures' \in 0..MaxFailures
      BY <1>1 DEF SessionsIInv, Base, Typed
    <2> QED
      BY <1>1, <1>2, <2>1, <2>2, <2>3, SettleBase DEF SessionsIInv, history
  <1>4. CleanInv'
    <2>1. SessionOf(f) \notin disturbed => Clean(f)
      BY <1>1, <1>2 DEF Clean
    <2>2. \A g \in Fetches \ {f} : Clean(g) => SessionOf(g) # SessionOf(f)
      BY <2>1 DEF SessionsIInv, CleanInv, RefreshesClean, Clean
    <2>3. SessionOf(f) \notin disturbed => Sound(cookie') /\ Only(session[cookie'], cookie')
      BY <1>1, <1>2, <2>1 DEF SessionsIInv, CleanInv, RefreshesClean
    <2> QED
      BY <1>1, <1>2, <2>2, <2>3, SettleClean DEF history
  <1>5. OutInv'
    BY <1>1, SettleOut DEF history
  <1> QED
    BY <1>3, <1>4, <1>5 DEF SessionsIInv

LEMMA RespondRefusedInv == ASSUME SessionsIInv, NEW f \in Fetches, RespondRefused(f) PROVE SessionsIInv'
  <1>1. /\ Runs(f) /\ refresh[f].pc = "refused" /\ Settle(f, FALSE)
        /\ UNCHANGED <<db, cookie, login, logout, reset, snap, failures, history>>
    BY DEF RespondRefused, Runs
  <1>2. Base'
    <2>1. cookie' \in 0..MaxTokens /\ cookie' \notin Unused /\ failures' \in 0..MaxFailures
          /\ \A l \in Logins : Created(l) /\ cookie' # 0 => session[cookie'] # login[l].token
      BY <1>1 DEF SessionsIInv, Base, Typed, RowsOK, LoginsOK
    <2> QED
      BY <1>1, <2>1, SettleBase DEF SessionsIInv, history
  <1>3. CleanInv'
    <2>1. \A g \in Fetches \ {f} : Clean(g) /\ cookie' # 0 /\ session[cookie'] = SessionOf(g) => cookie' = refresh[g].token
      BY <1>1 DEF SessionsIInv, CleanInv, RefreshesClean
    <2>2. ASSUME cookie # 0, session[cookie] \notin disturbed,
                 \A g \in Fetches \ {f} : Clean(g) => SessionOf(g) # session[cookie]
          PROVE  Sound(cookie) /\ Only(session[cookie], cookie)
      <3>1. CASE Clean(f) /\ SessionOf(f) = session[cookie]
        BY <1>1, <2>2, <3>1 DEF SessionsIInv, CleanInv, RefreshesClean
      <3>2. CASE ~(Clean(f) /\ SessionOf(f) = session[cookie])
        BY <2>2, <3>2 DEF SessionsIInv, CleanInv, CookieClean
      <3> QED
        BY <3>1, <3>2
    <2>3. cookie' = cookie
      BY <1>1
    <2> QED
      BY <1>1, <2>1, <2>2, <2>3, SettleClean DEF history
  <1>4. OutInv'
    BY <1>1, SettleOut DEF history
  <1> QED
    BY <1>2, <1>3, <1>4 DEF SessionsIInv

-----------------------------------------------------------------------------
(* Calls *)

LEMMA SpareLeaves ==
  ASSUME Base, Spare, Unused' = Unused,
         \/ \E f \in Fetches : Rotators' \subseteq {g \in Fetches : fetch[g] # "idle"} \cup {f} /\ Checked' = Checked
         \/ \E l \in Logins : Checked' \subseteq Checked \cup {l} /\ Rotators' = Rotators
  PROVE  Room'
  <1> DEFINE A == {g \in Fetches : fetch[g] # "idle"}
  <1>1. IsFiniteSet(A) /\ Cardinality(A) \in Nat
    <2>1. A \subseteq Fetches
      OBVIOUS
    <2> QED
      BY <2>1, SessionsAssumption, FS_Subset, FS_CardinalityType
  <1>2. Cardinality(Unused) > Cardinality(A) + Cardinality(Checked)
    BY DEF Spare, Checked
  <1>3. ASSUME NEW B, IsFiniteSet(B), NEW x, NEW C \in SUBSET (B \cup {x})
        PROVE  Cardinality(C) <= Cardinality(B) + 1 /\ Cardinality(C) \in Nat
    <2>1. /\ IsFiniteSet(B \cup {x})
          /\ Cardinality(B \cup {x}) = Cardinality(B) \/ Cardinality(B \cup {x}) = Cardinality(B) + 1
      BY <1>3, FS_AddElement
    <2>2. Cardinality(C) <= Cardinality(B \cup {x}) /\ Cardinality(C) \in Nat /\ Cardinality(B) \in Nat
      BY <1>3, <2>1, FS_Subset, FS_CardinalityType
    <2> QED
      BY <2>1, <2>2
  <1>4. Cardinality(Rotators) <= Cardinality(A)
    <2>1. Rotators \subseteq A
      BY DEF Rotators
    <2> QED
      BY <2>1, <1>1, FS_Subset
  <1>5. CASE \E f \in Fetches : Rotators' \subseteq A \cup {f} /\ Checked' = Checked
    <2>1. Cardinality(Rotators') <= Cardinality(A) + 1 /\ Cardinality(Rotators') \in Nat
      BY <1>1, <1>3, <1>5
    <2>2. Cardinality(Unused) >= Cardinality(Rotators') + Cardinality(Checked)
      BY <1>1, <1>2, <2>1, RoomTypes
    <2> QED
      BY <1>5, <2>2 DEF Room
  <1>6. CASE \E l \in Logins : Checked' \subseteq Checked \cup {l} /\ Rotators' = Rotators
    <2>1. Cardinality(Checked') <= Cardinality(Checked) + 1 /\ Cardinality(Checked') \in Nat
      BY <1>3, <1>6, RoomTypes
    <2>2. Cardinality(Unused) >= Cardinality(Rotators) + Cardinality(Checked')
      BY <1>1, <1>2, <1>4, <2>1, RoomTypes
    <2> QED
      BY <1>6, <2>2 DEF Room
  <1> QED
    BY <1>5, <1>6

LEMMA SameClean ==
  ASSUME SessionsIInv, Base', UNCHANGED <<status, session, refresh, disturbed>>, cookie' = cookie \/ cookie' = 0,
         \A l \in Logins : Created(l)' => Created(l) /\ login'[l].token = login[l].token
  PROVE  CleanInv'
  <1>1. \A g \in Fetches : (Clean(g)' <=> Clean(g)) /\ SessionOf(g)' = SessionOf(g) /\ refresh'[g] = refresh[g]
    BY DEF Clean, SessionOf, Runs
  <1>2. \A g \in Fetches : Clean(g) => refresh[g].pc \notin {"replayed", "revoking"}
    BY DEF SessionsIInv, CleanInv, RefreshesClean
  <1>3. Unused' = Unused
    BY DEF Unused
  <1> QED
    BY <1>1, <1>2, <1>3, CleanKept DEF SessionsIInv

LEMMA FetchInv == ASSUME SessionsIInv, NEW f \in Fetches, Fetch(f) PROVE SessionsIInv'
  <1>1. /\ fetch[f] = "idle" /\ Spare /\ fetch' = [fetch EXCEPT ![f] = "sent"]
        /\ UNCHANGED <<db, cookie, promise, refresh, login, logout, reset, snap, failures, history>>
    BY DEF Fetch
  <1>2. /\ fetch' \in [Fetches -> {"idle", "sent", "awaits"}]
        /\ \A g \in Fetches \ {f} : fetch'[g] = fetch[g]
    BY <1>1 DEF SessionsIInv, Base, Typed
  <1>3. RowsShrink /\ Unused' = Unused
    BY <1>1 DEF RowsShrink, db, Unused
  <1>4. Base'
    <2>1. Typed'
      BY <1>1, <1>2 DEF SessionsIInv, Base, Typed, db
    <2>2. RowsOK'
      BY <1>1, <1>3, RowsKept DEF SessionsIInv, Base, RowsOK, history
    <2>3. PromisesOK'
      <3>1. \A g \in Fetches : Runs(g)' <=> Runs(g)
        BY <1>1 DEF Runs
      <3>2. \A g \in Fetches : fetch[g] = "awaits" => fetch'[g] = "awaits"
        BY <1>1, <1>2
      <3> QED
        BY <1>1, <3>1, <3>2, PromisesKept DEF SessionsIInv
    <2>4. HandsOK'
      <3>1. \A g \in Fetches : RefreshOK(g)'
        BY <1>1, <1>3, RefreshKept, ShrinkFacts DEF SessionsIInv, SameRefresh
      <3> QED
        BY <1>1, <1>3, <3>1 DEF SessionsIInv, Base, HandsOK
    <2>5. LoginsOK'
      BY <1>1 DEF SessionsIInv, Base, LoginsOK, Created, Runs, SessionOf, db, Unused
    <2>6. Room'
      <3>1. Rotators' \subseteq {g \in Fetches : fetch[g] # "idle"} \cup {f}
        BY <1>2 DEF Rotators
      <3>2. Checked' = Checked
        BY <1>1 DEF Checked
      <3> QED
        BY <1>1, <1>3, <3>1, <3>2, SpareLeaves DEF SessionsIInv
    <2> QED
      BY <2>1, <2>2, <2>3, <2>4, <2>5, <2>6 DEF Base
  <1>5. CleanInv'
    BY <1>1, <1>4, SameClean DEF db, history, Created
  <1>6. OutInv'
    BY <1>1, <1>3, OutQuiet DEF SessionsIInv, db, history
  <1> QED
    BY <1>4, <1>5, <1>6 DEF SessionsIInv

(* The call joins a refresh of its tab. *)
LEMMA JoinInv ==
  ASSUME SessionsIInv, NEW f \in Fetches, fetch[f] = "sent", fetch' = [fetch EXCEPT ![f] = "awaits"],
         UNCHANGED <<db, cookie, promise, refresh, login, logout, reset, snap, failures, history>>
  PROVE  SessionsIInv'
  <1>1. /\ fetch' \in [Fetches -> {"idle", "sent", "awaits"}]
        /\ fetch'[f] = "awaits" /\ \A g \in Fetches \ {f} : fetch'[g] = fetch[g]
    BY DEF SessionsIInv, Base, Typed
  <1>2. RowsShrink /\ Unused' = Unused
    BY DEF RowsShrink, db, Unused
  <1>3. Base'
    <2>1. Typed'
      BY <1>1 DEF SessionsIInv, Base, Typed, db
    <2>2. RowsOK'
      BY <1>2, RowsKept DEF SessionsIInv, Base, RowsOK, history
    <2>3. PromisesOK'
      <3>1. \A g \in Fetches : Runs(g)' <=> Runs(g)
        BY DEF Runs
      <3>2. \A g \in Fetches : fetch[g] = "awaits" => fetch'[g] = "awaits"
        BY <1>1
      <3> QED
        BY <3>1, <3>2, PromisesKept DEF SessionsIInv
    <2>4. HandsOK'
      <3>1. \A g \in Fetches : RefreshOK(g)'
        BY <1>2, RefreshKept, ShrinkFacts DEF SessionsIInv, SameRefresh
      <3> QED
        BY <1>2, <3>1 DEF SessionsIInv, Base, HandsOK
    <2>5. LoginsOK'
      BY DEF SessionsIInv, Base, LoginsOK, Created, Runs, SessionOf, db, Unused
    <2>6. Room'
      <3>1. Rotators' \subseteq Rotators /\ Checked' \subseteq Checked
        BY <1>1 DEF Rotators, Checked
      <3> QED
        BY <1>2, <3>1, RoomKept DEF SessionsIInv
    <2> QED
      BY <2>1, <2>2, <2>3, <2>4, <2>5, <2>6 DEF Base
  <1>4. CleanInv'
    BY <1>3, SameClean DEF db, history, Created
  <1>5. OutInv'
    BY <1>2, OutQuiet DEF SessionsIInv, db, history
  <1> QED
    BY <1>3, <1>4, <1>5 DEF SessionsIInv

(* It starts one, which presents the cookie. *)
LEMMA PresentInv ==
  ASSUME SessionsIInv, NEW f \in Fetches, fetch[f] = "sent", fetch' = [fetch EXCEPT ![f] = "awaits"],
         promise[TabOf[f]] = None, promise' = [promise EXCEPT ![TabOf[f]] = f], Present(f),
         UNCHANGED <<db, cookie, login, logout, reset, snap, failures, ended, overlapping>>
  PROVE  SessionsIInv'
  <1>1. /\ fetch' \in [Fetches -> {"idle", "sent", "awaits"}]
        /\ fetch'[f] = "awaits" /\ \A g \in Fetches \ {f} : fetch'[g] = fetch[g]
    BY DEF SessionsIInv, Base, Typed
  <1>2. /\ TabOf[f] \in Tabs /\ promise' \in [Tabs -> Fetches \cup {None}] /\ promise'[TabOf[f]] = f
        /\ \A b \in Tabs \ {TabOf[f]} : promise'[b] = promise[b]
    BY SessionsAssumption DEF SessionsIInv, Base, Typed
  <1>3. PICK new : new = [pc |-> "sent", token |-> cookie, new |-> 0, late |-> FALSE]
    OBVIOUS
  <1>4. /\ new \in Refreshes /\ new.pc = "sent" /\ new.token = cookie /\ new.new = 0
        /\ refresh' = [refresh EXCEPT ![f] = new]
    BY <1>3, SessionsAssumption DEF SessionsIInv, Base, Typed, Refreshes, RefreshSteps, Present
  <1>5. /\ refresh' \in [Fetches -> Refreshes] /\ refresh'[f] = new
        /\ \A g \in Fetches \ {f} : refresh'[g] = refresh[g]
    BY <1>4 DEF SessionsIInv, Base, Typed
  <1>6. ~Runs(f) /\ None \notin Fetches
    BY SessionsAssumption DEF SessionsIInv, Base, PromisesOK
  <1>7. \A g \in Fetches : Runs(g)' <=> Runs(g) \/ g = f
    BY <1>4, <1>5 DEF Runs
  <1>8. \A g \in Fetches : Runs(g) => TabOf[g] # TabOf[f] /\ g # f
    BY <1>6 DEF SessionsIInv, Base, PromisesOK
  <1>9. RowsShrink /\ Unused' = Unused /\ disturbed \subseteq disturbed'
    BY DEF RowsShrink, db, Unused, Present
  <1>10. Base'
    <2>1. Typed'
      BY <1>1, <1>2, <1>5 DEF SessionsIInv, Base, Typed, db
    <2>2. RowsOK'
      BY <1>9, RowsKept DEF SessionsIInv, Base, RowsOK
    <2>3. PromisesOK'
      <3>1. ASSUME NEW b \in Tabs, promise'[b] # None
            PROVE  TabOf[promise'[b]] = b /\ refresh'[promise'[b]].pc # "idle"
        <4>1. CASE b = TabOf[f]
          BY <1>2, <1>4, <1>5, <4>1
        <4>2. CASE b # TabOf[f]
          <5>1. promise'[b] = promise[b] /\ promise[b] \in Fetches /\ TabOf[promise[b]] = b /\ Runs(promise[b])
            BY <1>2, <3>1, <4>2 DEF SessionsIInv, Base, PromisesOK, Typed
          <5>2. refresh'[promise[b]] = refresh[promise[b]]
            BY <1>5, <1>6, <5>1
          <5> QED
            BY <5>1, <5>2 DEF Runs
        <4> QED
          BY <4>1, <4>2
      <3>2. ASSUME NEW g \in Fetches, Runs(g)'
            PROVE  promise'[TabOf[g]] = g /\ fetch'[g] = "awaits"
        <4>1. CASE g = f
          BY <1>1, <1>2, <4>1
        <4>2. CASE g # f
          <5>1. Runs(g) /\ TabOf[g] # TabOf[f] /\ TabOf[g] \in Tabs
            BY <1>7, <1>8, <3>2, <4>2, SessionsAssumption
          <5> QED
            BY <1>1, <1>2, <4>2, <5>1 DEF SessionsIInv, Base, PromisesOK
        <4> QED
          BY <4>1, <4>2
      <3> QED
        BY <3>1, <3>2 DEF PromisesOK, Runs
    <2>4. HandsOK'
      <3>1. \A g \in Fetches \ {f} : RefreshOK(g)'
        BY <1>5, <1>9, RefreshKept, ShrinkFacts DEF SessionsIInv, SameRefresh
      <3>2. RefreshOK(f)'
        BY <1>4, <1>5, <1>9 DEF SessionsIInv, Base, RowsOK, RefreshOK, Unused, Tokens
      <3> QED
        BY <1>9, <3>1, <3>2 DEF SessionsIInv, Base, HandsOK
    <2>5. LoginsOK'
      <3>1. \A l \in Logins : Created(l)' =>
              /\ Created(l) /\ login'[l].token = login[l].token
              /\ cookie' # 0 => session[cookie'] # login[l].token
        BY DEF SessionsIInv, Base, LoginsOK, Created
      <3>2. \A g \in Fetches : Runs(g)' /\ refresh'[g].token # 0 =>
              (Runs(g) /\ refresh'[g].token = refresh[g].token) \/ refresh'[g].token = cookie
        BY <1>4, <1>5, <1>7
      <3> QED
        BY <1>9, <3>1, <3>2, LoginsKept DEF SessionsIInv, RowsShrink
    <2>6. Room'
      <3>1. Rotators' \subseteq Rotators
        <4>1. f \in Rotators
          BY <1>6 DEF Rotators, Runs
        <4> QED
          BY <1>1, <1>5, <4>1 DEF Rotators
      <3>2. Checked' \subseteq Checked
        BY DEF Checked
      <3> QED
        BY <1>9, <3>1, <3>2, RoomKept DEF SessionsIInv
    <2> QED
      BY <2>1, <2>2, <2>3, <2>4, <2>5, <2>6 DEF Base
  <1>11. CleanInv'
    <2>1. \A g \in Fetches \ {f} : (Clean(g)' => Clean(g)) /\ SessionOf(g)' = SessionOf(g)
      BY <1>5, <1>7, <1>9 DEF Clean, SessionOf, db
    <2>2. /\ SessionOf(f)' = session[cookie]
          /\ Clean(f)' <=> cookie # 0 /\ session[cookie] \notin disturbed'
      BY <1>4, <1>5, <1>7 DEF Clean, SessionOf, db
    <2>3. ASSUME cookie # 0, session[cookie] \notin disturbed', NEW g \in Fetches, Clean(g)
          PROVE  SessionOf(g) # session[cookie]
      <3>1. SUFFICES ASSUME SessionOf(g) = session[cookie] PROVE FALSE
        OBVIOUS
      <3>2. refresh[g].token = cookie
        BY <2>3, <3>1 DEF SessionsIInv, CleanInv, RefreshesClean
      <3>3. TabOf[g] # TabOf[f] /\ refresh[g] # NoRefresh
        BY <1>8, <2>3, NoRefreshOK DEF Clean, Runs
      <3> QED
        BY <2>3, <3>2, <3>3 DEF Present
    <2>4. cookie # 0 /\ session[cookie] \notin disturbed' => Sound(cookie) /\ Only(session[cookie], cookie)
      BY <1>9, <2>3 DEF SessionsIInv, CleanInv, CookieClean
    <2>5. RefreshesClean'
      <3>1. \A g, h \in Fetches : Clean(g)' /\ Clean(h)' /\ SessionOf(g)' = SessionOf(h)' => g = h
        <4> SUFFICES ASSUME NEW g \in Fetches, NEW h \in Fetches, Clean(g)', Clean(h)', SessionOf(g)' = SessionOf(h)'
                     PROVE  g = h
          OBVIOUS
        <4>1. CASE g # f /\ h # f
          BY <2>1, <4>1 DEF SessionsIInv, CleanInv, RefreshesClean
        <4>2. CASE g = f /\ h # f
          BY <2>1, <2>2, <2>3, <4>2
        <4>3. CASE g # f /\ h = f
          BY <2>1, <2>2, <2>3, <4>3
        <4> QED
          BY <4>1, <4>2, <4>3
      <3>2. ASSUME NEW g \in Fetches, Clean(g)'
            PROVE  /\ refresh'[g].pc \notin {"replayed", "revoking"}
                   /\ cookie' # 0 /\ session'[cookie'] = SessionOf(g)' => cookie' = refresh'[g].token
                   /\ IF refresh'[g].pc \in {"issued", "answered"}
                      THEN Sound(refresh[g].new)' /\ Only(SessionOf(g), refresh[g].new)'
                      ELSE Sound(refresh[g].token)' /\ Only(SessionOf(g), refresh[g].token)'
        <4>1. CASE g = f
          <5>1. Sound(cookie) /\ Only(session[cookie], cookie) /\ SessionOf(f)' = session[cookie]
            BY <2>2, <2>4, <3>2, <4>1
          <5>2. Sound(refresh[f].token)' /\ Only(SessionOf(f), refresh[f].token)'
            BY <1>4, <1>5, <5>1 DEF Sound, Only, Mine, db
          <5> QED
            BY <1>4, <1>5, <4>1, <5>2
        <4>2. CASE g # f
          <5>1. Clean(g) /\ refresh'[g] = refresh[g] /\ SessionOf(g)' = SessionOf(g)
            BY <1>5, <2>1, <3>2, <4>2
          <5>2. /\ refresh[g].pc \notin {"replayed", "revoking"}
                /\ cookie # 0 /\ session[cookie] = SessionOf(g) => cookie = refresh[g].token
                /\ IF refresh[g].pc \in {"issued", "answered"}
                   THEN Sound(refresh[g].new) /\ Only(SessionOf(g), refresh[g].new)
                   ELSE Sound(refresh[g].token) /\ Only(SessionOf(g), refresh[g].token)
            BY <5>1 DEF SessionsIInv, CleanInv, RefreshesClean
          <5>3. IF refresh[g].pc \in {"issued", "answered"}
                THEN Sound(refresh[g].new)' /\ Only(SessionOf(g), refresh[g].new)'
                ELSE Sound(refresh[g].token)' /\ Only(SessionOf(g), refresh[g].token)'
            BY <5>1, <5>2 DEF Sound, Only, Mine, db
          <5>4. cookie' # 0 /\ session'[cookie'] = SessionOf(g)' => cookie' = refresh'[g].token
            BY <5>1, <5>2 DEF db
          <5> QED
            BY <5>1, <5>2, <5>3, <5>4
        <4> QED
          BY <4>1, <4>2
      <3> QED
        BY <3>1, <3>2 DEF RefreshesClean
    <2>6. CookieClean'
      BY <2>2 DEF CookieClean, db
    <2>7. LoginsClean' /\ OneEach'
      BY <1>9 DEF SessionsIInv, CleanInv, LoginsClean, OneEach, Created, Sound, Mine, db
    <2> QED
      BY <2>5, <2>6, <2>7 DEF CleanInv
  <1>12. OutInv'
    <2>1. \A g \in Fetches : refresh'[g].pc \in {"valid", "revoking"} => refresh'[g] = refresh[g]
      BY <1>4, <1>5
    <2> QED
      BY <1>9, <2>1, OutQuiet DEF SessionsIInv, db
  <1> QED
    BY <1>10, <1>11, <1>12 DEF SessionsIInv

LEMMA UnauthorizedInv == ASSUME SessionsIInv, NEW f \in Fetches, Unauthorized(f) PROVE SessionsIInv'
  <1>1. CASE promise[TabOf[f]] = None
    BY <1>1, PresentInv DEF Unauthorized
  <1>2. CASE promise[TabOf[f]] # None
    BY <1>2, JoinInv DEF Unauthorized, history
  <1> QED
    BY <1>1, <1>2

-----------------------------------------------------------------------------
(* Revocations *)

LEMMA ReplaySnapshotInv == ASSUME SessionsIInv, NEW f \in Fetches, ReplaySnapshot(f) PROVE SessionsIInv'
  <1>0. PICK rows : rows = IF status[refresh[f].token] = "gone" THEN {} ELSE RowsOf(SessionOf(f))
    OBVIOUS
  <1>1. /\ refresh[f].pc = "replayed" /\ Runs(f) /\ Goto(f, "revoking")
        /\ snap' = [snap EXCEPT ![f] = rows] /\ (rows = {} \/ rows = RowsOf(SessionOf(f)))
        /\ UNCHANGED <<db, browser, login, logout, reset, failures, history>>
        /\ "revoking" \in RefreshSteps \ {"idle", "sent"}
    BY <1>0 DEF ReplaySnapshot, Runs, RefreshSteps, SessionOf
  <1>2. /\ refresh'[f].pc = "revoking" /\ refresh'[f].token = refresh[f].token /\ refresh'[f].new = refresh[f].new
        /\ \A g \in Fetches \ {f} : refresh'[g] = refresh[g]
    BY <1>1, GotoFacts DEF SessionsIInv, Base, RefreshSteps
  <1>3. /\ snap' \in [Fetches \cup {"reset"} -> SUBSET Tokens] /\ snap'[f] = rows
        /\ snap'["reset"] = snap["reset"] /\ \A g \in Fetches \ {f} : snap'[g] = snap[g]
    BY <1>1, SessionsAssumption DEF SessionsIInv, Base, Typed, RowsOf
  <1>4. Unused' = Unused /\ session' = session /\ status' = status /\ Valid' = Valid
    BY <1>1 DEF db, Unused, Valid
  <1>5. \A g \in Fetches : SessionOf(g)' = SessionOf(g)
    BY <1>2, <1>4 DEF SessionOf
  <1>6. Base'
    <2>1. RefreshOK(f)'
      BY <1>1, <1>2, <1>3, <1>4, <1>5, TokenFacts DEF SessionsIInv, RefreshOK, RowsOf, SessionOf
    <2>2. failures' \in 0..MaxFailures /\ ended' = ended
      BY <1>1 DEF SessionsIInv, Base, Typed, history
    <2> QED
      BY <1>1, <1>3, <2>1, <2>2, PcStepBase DEF SessionsIInv
  <1>7. CleanInv'
    <2>1. ~Clean(f) /\ \A g \in Fetches \ {f} : Clean(g)' <=> Clean(g)
      BY <1>1, <1>2, <1>5 DEF SessionsIInv, CleanInv, RefreshesClean, Clean, Runs, history
    <2>2. ~Clean(f)'
      BY <1>1, <1>2, <1>5, <2>1 DEF Clean, Runs, history
    <2>3. \A g \in Fetches : Clean(g) => refresh[g].pc \notin {"replayed", "revoking"} /\ g # f
      BY <2>1 DEF SessionsIInv, CleanInv, RefreshesClean
    <2>4. \A l \in Logins : Created(l)' => Created(l) /\ login'[l].token = login[l].token
      BY <1>1 DEF Created
    <2>5. disturbed' = disturbed /\ cookie' = cookie
      BY <1>1 DEF history, browser
    <2> QED
      BY <1>2, <1>4, <1>5, <1>6, <2>1, <2>2, <2>3, <2>4, <2>5, CleanKept DEF SessionsIInv
  <1>8. OutInv'
    <2>1. UNCHANGED <<loginOf, password, login, reset, ended, overlapping>>
      BY <1>1 DEF db, history
    <2>2. \A g \in Fetches : refresh'[g].pc = "valid" => refresh'[g] = refresh[g]
      BY <1>2
    <2>3. LateOK'
      BY <1>4, <1>5, <2>1, <2>2 DEF SessionsIInv, OutInv, LateOK
    <2>4. Found'
      <3>1. ASSUME NEW g \in Fetches, refresh'[g].pc = "revoking", snap'[g] # {},
                   NEW t \in Valid, session[t] = SessionOf(g)
            PROVE  t \in snap'[g] \cup overlapping
        <4>1. CASE g = f
          BY <1>1, <1>3, <3>1, <4>1 DEF Valid, RowsOf
        <4>2. CASE g # f
          BY <1>2, <1>3, <3>1, <4>2 DEF SessionsIInv, OutInv, Found
        <4> QED
          BY <4>1, <4>2
      <3> QED
        BY <1>3, <1>4, <1>5, <2>1, <3>1 DEF SessionsIInv, OutInv, Found
    <2> QED
      BY <1>4, <2>1, <2>3, <2>4 DEF SessionsIInv, OutInv, LoginsLateOK, RevokedStaysOut, EndedStaysEnded, OldPasswordIsOut
  <1> QED
    BY <1>6, <1>7, <1>8 DEF SessionsIInv

(* Sessions S end, and with them the rows that were found of theirs.  A    *)
(* refresh that revokes is over with it, and the logins go on.             *)
LEMMA RevokeInv ==
  ASSUME SessionsIInv, NEW S \in SUBSET (Tokens \ Unused), NEW rows \in SUBSET (Tokens \ Unused), Revoke(rows),
         UNCHANGED <<session, password, loginOf, browser, failures>>,
         ended' = ended \cup S, overlapping \subseteq overlapping', disturbed \subseteq disturbed',
         \A t \in rows : session[t] \in disturbed',
         \A t \in Valid \ rows : session[t] \in S => t \in overlapping',
         refresh' \in [Fetches -> Refreshes],
         \A g \in Fetches :
            /\ refresh'[g].token = refresh[g].token /\ refresh'[g].new = refresh[g].new
            /\ refresh'[g].pc = refresh[g].pc \/ (refresh[g].pc = "revoking" /\ refresh'[g].pc = "refused")
            /\ refresh'[g].late <=> refresh[g].late \/ (refresh[g].pc = "valid" /\ SessionOf(g) \in S)
            /\ refresh'[g].pc = "revoking" => snap'[g] = snap[g],
         login' \in [Logins -> LoginTries],
         \A l \in Logins :
            /\ login'[l].pc = login[l].pc /\ login'[l].token = login[l].token
            /\ login'[l].password = login[l].password /\ (login[l].late => login'[l].late),
         logout' \in 0..MaxTokens, reset' \in {"idle", "changed", "revoking", "done"},
         snap' \in [Fetches \cup {"reset"} -> SUBSET Tokens], snap'["reset"] \subseteq snap["reset"],
         reset' = "revoking" => reset = "revoking" /\ snap'["reset"] = snap["reset"],
         reset' = "done" =>
            \/ reset = "done"
            \/ /\ \A t \in Tokens \ Unused : session[t] \in S
               /\ \A l \in Logins : login[l].pc = "checked" => login'[l].late
  PROVE  SessionsIInv'
  <1>1. /\ status' \in [Tokens -> {"unused", "valid", "revoked", "gone"}]
        /\ \A t \in Tokens : status'[t] = IF t \in rows /\ status[t] # "gone" THEN "revoked" ELSE status[t]
    BY DEF Revoke, SessionsIInv, Base, Typed
  <1>2. RowsShrink /\ Unused' = Unused
    BY <1>1 DEF RowsShrink, Unused
  <1>3. \A g \in Fetches : SessionOf(g)' = SessionOf(g) /\ (Runs(g)' <=> Runs(g))
    BY DEF SessionOf, Runs
  <1>4. Base'
    <2>1. Typed'
      BY <1>1 DEF SessionsIInv, Base, Typed, browser
    <2>2. \A g \in Fetches : RefreshOK(g)'
      <3> SUFFICES ASSUME NEW g \in Fetches PROVE RefreshOK(g)'
        OBVIOUS
      <3>1. RefreshOK(g)
        BY TokenFacts DEF SessionsIInv
      <3> QED
        BY <1>2, <1>3, <3>1 DEF RefreshOK
    <2>3. \A g \in Fetches : refresh'[g].pc \in {"idle", "sent", "valid"} => refresh[g].pc \in {"idle", "sent", "valid"}
      OBVIOUS
    <2>4. snap'["reset"] \cap Unused = {} /\ ended' \subseteq Tokens \ Unused /\ cookie' \notin Unused
      BY DEF SessionsIInv, Base, HandsOK, RowsOK, browser
    <2>5. \A l \in Logins : Created(l)' =>
              /\ Created(l) /\ login'[l].token = login[l].token
              /\ cookie' # 0 => session[cookie'] # login[l].token
      BY DEF SessionsIInv, Base, LoginsOK, Created, browser
    <2>6. Checked' \subseteq Checked /\ UNCHANGED <<promise, fetch>>
      BY DEF Checked, browser
    <2> QED
      BY <1>2, <1>3, <2>1, <2>2, <2>3, <2>4, <2>5, <2>6, QuietBase DEF SessionsIInv
  <1>5. CleanInv'
    <2>1. \A g \in Fetches : Clean(g)' <=> Clean(g) /\ SessionOf(g) \notin disturbed'
      BY <1>3 DEF Clean
    <2>2. \A g \in Fetches : Clean(g) => refresh[g].pc \notin {"replayed", "revoking"} /\ refresh'[g].pc = refresh[g].pc
      BY DEF SessionsIInv, CleanInv, RefreshesClean
    <2>3. \A t \in Tokens \ Unused : session[t] \notin disturbed' => status'[t] = status[t] \/ status'[t] = "gone"
      BY <1>1
    <2>4. \A l \in Logins : Created(l)' => Created(l) /\ login'[l].token = login[l].token
      BY DEF Created
    <2> QED
      BY <1>2, <1>3, <1>4, <2>1, <2>2, <2>3, <2>4, CleanKept DEF SessionsIInv, browser
  <1>6. OutInv'
    <2>1. \A t \in Tokens : t \in Valid' /\ session[t] \in S => t \in overlapping'
      BY <1>1 DEF Valid
    <2>2. \A f \in Fetches : refresh'[f].pc = "valid" =>
            /\ refresh'[f].token = refresh[f].token
            /\ \/ refresh[f].pc = "valid" /\ (refresh[f].late => refresh'[f].late)
               \/ refresh[f].token \in Valid
            /\ SessionOf(f) \in S => refresh'[f].late
      OBVIOUS
    <2>3. \A f \in Fetches : refresh'[f].pc = "revoking" =>
            /\ refresh[f].pc = "revoking" /\ refresh'[f].token = refresh[f].token
            /\ snap'[f] = snap[f]
      OBVIOUS
    <2>4. reset' = "done" =>
            \/ reset = "done" /\ password' = password
            \/ \A t \in Tokens \ Unused : session[t] \in S
      OBVIOUS
    <2>5. reset' = "done" => \A l \in Logins : login'[l].pc = "checked" =>
            login'[l].late \/ login'[l].password = password'
      BY DEF SessionsIInv, OutInv, LoginsLateOK
    <2>6. reset' = "done" => \A l \in Logins : login'[l].pc = "checked" =>
            \/ login'[l].late \/ login'[l].password = password'
            \/ /\ reset = "done" /\ password' = password /\ login[l].pc = "checked"
               /\ login'[l].late = login[l].late /\ login'[l].password = login[l].password
      BY <2>5
    <2>7. /\ reset' = "revoking" => reset = "revoking" /\ snap'["reset"] = snap["reset"]
          /\ loginOf' = loginOf /\ overlapping \subseteq overlapping' /\ ended' = ended \cup S
      OBVIOUS
    <2>8. Base /\ OutInv
      BY DEF SessionsIInv
    <2> QED
      BY <1>2, <2>1, <2>2, <2>3, <2>4, <2>6, <2>7, <2>8, OutKept
  <1> QED
    BY <1>4, <1>5, <1>6 DEF SessionsIInv

LEMMA ReplayRevokeInv == ASSUME SessionsIInv, NEW f \in Fetches, ReplayRevoke(f) PROVE SessionsIInv'
  <1> DEFINE s == SessionOf(f)
  <1>0. PICK S : S = {session[t] : t \in snap[f]}
    OBVIOUS
  <1>1. /\ refresh[f].pc = "revoking" /\ Revoke(snap[f]) /\ refresh' = [Late(S) EXCEPT ![f].pc = "refused"]
        /\ ended' = ended \cup S /\ snap' = [snap EXCEPT ![f] = {}]
        /\ UNCHANGED <<session, password, loginOf, browser, login, logout, reset, failures, overlapping, disturbed>>
    BY <1>0 DEF ReplayRevoke
  <1>2. /\ refresh[f].token # 0 /\ s \in Tokens \ Unused /\ \A t \in snap[f] : session[t] = s
    BY <1>1, TokenFacts DEF SessionsIInv, RefreshOK
  <1>3. snap[f] \subseteq Tokens \ Unused
    BY <1>2 DEF SessionsIInv, Base, RowsOK, Typed, Tokens
  <1>4. s \in disturbed
    BY <1>1, <1>2 DEF SessionsIInv, CleanInv, RefreshesClean, Clean, Runs
  <1>5. \A t \in Valid \ snap[f] : session[t] \in S => t \in overlapping'
    <2>1. S \subseteq {s} /\ (S # {} => snap[f] # {})
      BY <1>0, <1>2
    <2> QED
      BY <1>1, <2>1 DEF SessionsIInv, OutInv, Found
  <1>6. Late(S) \in [Fetches -> Refreshes]
    BY LateFacts DEF SessionsIInv, Base
  <1>7. PICK new : new = [Late(S)[f] EXCEPT !.pc = "refused"]
    OBVIOUS
  <1>8. /\ new \in Refreshes /\ new.pc = "refused" /\ new.token = Late(S)[f].token
        /\ new.new = Late(S)[f].new /\ new.late = Late(S)[f].late
        /\ refresh' = [Late(S) EXCEPT ![f] = new]
    BY <1>1, <1>6, <1>7 DEF Refreshes, RefreshSteps
  <1>9. /\ refresh' \in [Fetches -> Refreshes] /\ refresh'[f] = new
        /\ \A g \in Fetches \ {f} : refresh'[g] = Late(S)[g]
    BY <1>6, <1>8
  <1>10. /\ snap' \in [Fetches \cup {"reset"} -> SUBSET Tokens] /\ snap'["reset"] = snap["reset"]
         /\ \A g \in Fetches \ {f} : snap'[g] = snap[g]
    BY <1>1, SessionsAssumption DEF SessionsIInv, Base, Typed
  <1>11. \A g \in Fetches :
            /\ refresh'[g].token = refresh[g].token /\ refresh'[g].new = refresh[g].new
            /\ refresh'[g].pc = refresh[g].pc \/ (refresh[g].pc = "revoking" /\ refresh'[g].pc = "refused")
            /\ refresh'[g].late <=> refresh[g].late \/ (refresh[g].pc = "valid" /\ SessionOf(g) \in S)
            /\ refresh'[g].pc = "revoking" => snap'[g] = snap[g]
    <2> SUFFICES ASSUME NEW g \in Fetches
                 PROVE  /\ refresh'[g].token = refresh[g].token /\ refresh'[g].new = refresh[g].new
                        /\ refresh'[g].pc = refresh[g].pc \/ (refresh[g].pc = "revoking" /\ refresh'[g].pc = "refused")
                        /\ refresh'[g].late <=> refresh[g].late \/ (refresh[g].pc = "valid" /\ SessionOf(g) \in S)
                        /\ refresh'[g].pc = "revoking" => snap'[g] = snap[g]
      OBVIOUS
    <2>1. /\ Late(S)[g].pc = refresh[g].pc /\ Late(S)[g].token = refresh[g].token
          /\ Late(S)[g].new = refresh[g].new
          /\ Late(S)[g].late <=> refresh[g].late \/ (refresh[g].pc = "valid" /\ SessionOf(g) \in S)
      BY LateFacts DEF SessionsIInv, Base
    <2>2. CASE g = f
      BY <1>1, <1>8, <1>9, <2>1, <2>2
    <2>3. CASE g # f
      BY <1>9, <1>10, <2>1, <2>3
    <2> QED
      BY <2>2, <2>3
  <1>12. S \in SUBSET (Tokens \ Unused) /\ \A t \in snap[f] : session[t] \in disturbed'
    BY <1>0, <1>1, <1>2, <1>4
  <1>13. /\ login' \in [Logins -> LoginTries] /\ logout' \in 0..MaxTokens
         /\ reset' = reset /\ reset \in {"idle", "changed", "revoking", "done"}
         /\ login' = login /\ overlapping' = overlapping /\ disturbed' = disturbed
    BY <1>1 DEF SessionsIInv, Base, Typed
  <1>14. PICK rows : rows = snap[f]
    OBVIOUS
  <1>15. /\ S \in SUBSET (Tokens \ Unused) /\ rows \in SUBSET (Tokens \ Unused) /\ Revoke(rows)
         /\ UNCHANGED <<session, password, loginOf, browser, failures>>
         /\ ended' = ended \cup S /\ overlapping \subseteq overlapping' /\ disturbed \subseteq disturbed'
         /\ \A t \in rows : session[t] \in disturbed'
         /\ \A t \in Valid \ rows : session[t] \in S => t \in overlapping'
    BY <1>1, <1>3, <1>5, <1>12, <1>13, <1>14
  <1>16. \A g \in Fetches :
            /\ refresh'[g].token = refresh[g].token /\ refresh'[g].new = refresh[g].new
            /\ refresh'[g].pc = refresh[g].pc \/ (refresh[g].pc = "revoking" /\ refresh'[g].pc = "refused")
            /\ refresh'[g].late <=> refresh[g].late \/ (refresh[g].pc = "valid" /\ SessionOf(g) \in S)
            /\ refresh'[g].pc = "revoking" => snap'[g] = snap[g]
    BY <1>11
  <1>17. \A l \in Logins :
            /\ login'[l].pc = login[l].pc /\ login'[l].token = login[l].token
            /\ login'[l].password = login[l].password /\ (login[l].late => login'[l].late)
    BY <1>13
  <1>18. /\ reset' \in {"idle", "changed", "revoking", "done"} /\ snap'["reset"] \subseteq snap["reset"]
         /\ reset' = "revoking" => reset = "revoking" /\ snap'["reset"] = snap["reset"]
         /\ reset' = "done" =>
              \/ reset = "done"
              \/ /\ \A t \in Tokens \ Unused : session[t] \in S
                 /\ \A l \in Logins : login[l].pc = "checked" => login'[l].late
    BY <1>10, <1>13
  <1> QED
    BY <1>9, <1>10, <1>13, <1>15, <1>16, <1>17, <1>18, RevokeInv

LEMMA LogoutInv == ASSUME SessionsIInv, Logout PROVE SessionsIInv'
  <1> DEFINE s == session[cookie]
             awaited == {f \in Fetches : refresh[f].pc \in {"issued", "answered"} /\ SessionOf(f) \in {s} \ disturbed}
  <1>1. PICK S : S = {s} \ disturbed
    OBVIOUS
  <1>2. /\ cookie # 0 /\ logout' = cookie /\ Revoke({cookie}) /\ refresh' = Late(S) /\ ended' = ended \cup S
        /\ overlapping' = overlapping \cup {refresh[f].new : f \in awaited} /\ disturbed' = disturbed \cup S
        /\ UNCHANGED <<session, password, loginOf, browser, login, reset, snap, failures>>
    BY <1>1 DEF Logout, SessionOf
  <1>3. /\ cookie \in Tokens \ Unused /\ s \in Tokens \ Unused /\ logout' \in 0..MaxTokens
    BY <1>1, <1>2 DEF SessionsIInv, Base, Typed, RowsOK, Tokens
  <1>4. S \in SUBSET (Tokens \ Unused) /\ {cookie} \in SUBSET (Tokens \ Unused)
        /\ (\A t \in {cookie} : session[t] \in disturbed')
    BY <1>1, <1>2, <1>3
  <1>12. \A t \in Valid \ {cookie} : session[t] \in S => t \in overlapping'
    <2> SUFFICES ASSUME NEW t \in Valid, t # cookie, session[t] = s, s \notin disturbed
                 PROVE  t \in overlapping'
      BY <1>1
    <2>1. t \in Tokens /\ Mine(t, s)
      BY DEF Valid, Mine
    <2>2. PICK f \in Fetches : Clean(f) /\ SessionOf(f) = s
      BY <1>2, <2>1 DEF SessionsIInv, CleanInv, CookieClean, Only
    <2>3. cookie = refresh[f].token
      BY <1>2, <2>2 DEF SessionsIInv, CleanInv, RefreshesClean
    <2>4. refresh[f].pc \in {"issued", "answered"} /\ Only(s, refresh[f].new)
      BY <2>1, <2>2, <2>3 DEF SessionsIInv, CleanInv, RefreshesClean, Only
    <2>5. t = refresh[f].new /\ f \in awaited
      BY <2>1, <2>2, <2>4 DEF Only
    <2> QED
      BY <1>2, <2>5
  <1>5. /\ refresh' \in [Fetches -> Refreshes]
        /\ \A g \in Fetches :
            /\ refresh'[g].token = refresh[g].token /\ refresh'[g].new = refresh[g].new
            /\ refresh'[g].pc = refresh[g].pc \/ (refresh[g].pc = "revoking" /\ refresh'[g].pc = "refused")
            /\ refresh'[g].late <=> refresh[g].late \/ (refresh[g].pc = "valid" /\ SessionOf(g) \in S)
            /\ refresh'[g].pc = "revoking" => snap'[g] = snap[g]
    <2>1. Late(S) \in [Fetches -> Refreshes] \/ Fetches = {}
      BY LateFacts DEF SessionsIInv, Base
    <2>2. Late(S) \in [Fetches -> Refreshes]
      BY <2>1 DEF Late
    <2> QED
      BY <1>2, <2>2, LateFacts DEF SessionsIInv, Base
  <1>6. /\ login' \in [Logins -> LoginTries] /\ login' = login
        /\ reset' = reset /\ reset \in {"idle", "changed", "revoking", "done"}
        /\ snap' = snap /\ snap \in [Fetches \cup {"reset"} -> SUBSET Tokens]
        /\ overlapping \subseteq overlapping' /\ disturbed \subseteq disturbed'
    BY <1>2 DEF SessionsIInv, Base, Typed
  <1>7. PICK rows : rows = {cookie}
    OBVIOUS
  <1>8. /\ S \in SUBSET (Tokens \ Unused) /\ rows \in SUBSET (Tokens \ Unused) /\ Revoke(rows)
        /\ UNCHANGED <<session, password, loginOf, browser, failures>>
        /\ ended' = ended \cup S
        /\ \A t \in rows : session[t] \in disturbed'
        /\ \A t \in Valid \ rows : session[t] \in S => t \in overlapping'
    BY <1>2, <1>4, <1>7, <1>12
  <1>9. \A g \in Fetches :
            /\ refresh'[g].token = refresh[g].token /\ refresh'[g].new = refresh[g].new
            /\ refresh'[g].pc = refresh[g].pc \/ (refresh[g].pc = "revoking" /\ refresh'[g].pc = "refused")
            /\ refresh'[g].late <=> refresh[g].late \/ (refresh[g].pc = "valid" /\ SessionOf(g) \in S)
            /\ refresh'[g].pc = "revoking" => snap'[g] = snap[g]
    BY <1>5
  <1>10. \A l \in Logins :
            /\ login'[l].pc = login[l].pc /\ login'[l].token = login[l].token
            /\ login'[l].password = login[l].password /\ (login[l].late => login'[l].late)
    BY <1>6
  <1>11. /\ reset' \in {"idle", "changed", "revoking", "done"} /\ snap'["reset"] \subseteq snap["reset"]
         /\ snap' \in [Fetches \cup {"reset"} -> SUBSET Tokens]
         /\ reset' = "revoking" => reset = "revoking" /\ snap'["reset"] = snap["reset"]
         /\ reset' = "done" =>
              \/ reset = "done"
              \/ /\ \A t \in Tokens \ Unused : session[t] \in S
                 /\ \A l \in Logins : login[l].pc = "checked" => login'[l].late
    BY <1>6
  <1> QED
    BY <1>3, <1>5, <1>6, <1>8, <1>9, <1>10, <1>11, RevokeInv

LEMMA ResetRevokeInv == ASSUME SessionsIInv, ResetRevoke PROVE SessionsIInv'
  <1>1. PICK S : S = {session[t] : t \in Tokens \ Unused}
    OBVIOUS
  <1>2. /\ reset = "revoking" /\ reset' = "done" /\ Revoke(snap["reset"]) /\ refresh' = Late(S)
        /\ login' = [l \in Logins |-> IF login[l].pc = "checked" THEN [login[l] EXCEPT !.late = TRUE] ELSE login[l]]
        /\ ended' = ended \cup S /\ disturbed' = disturbed \cup S /\ snap' = [snap EXCEPT !["reset"] = {}]
        /\ UNCHANGED <<session, password, loginOf, browser, logout, failures, overlapping>>
    BY <1>1 DEF ResetRevoke
  <1>3. /\ S \in SUBSET (Tokens \ Unused) /\ snap["reset"] \in SUBSET (Tokens \ Unused)
        /\ \A t \in Tokens \ Unused : session[t] \in S
    BY <1>1 DEF SessionsIInv, Base, RowsOK, HandsOK, Typed
  <1>4. (\A t \in snap["reset"] : session[t] \in disturbed')
        /\ \A t \in Valid \ snap["reset"] : session[t] \in S => t \in overlapping'
    BY <1>2, <1>3 DEF SessionsIInv, OutInv, Found
  <1>5. /\ refresh' \in [Fetches -> Refreshes]
        /\ snap' \in [Fetches \cup {"reset"} -> SUBSET Tokens] /\ snap'["reset"] \subseteq snap["reset"]
        /\ \A g \in Fetches :
            /\ refresh'[g].token = refresh[g].token /\ refresh'[g].new = refresh[g].new
            /\ refresh'[g].pc = refresh[g].pc \/ (refresh[g].pc = "revoking" /\ refresh'[g].pc = "refused")
            /\ refresh'[g].late <=> refresh[g].late \/ (refresh[g].pc = "valid" /\ SessionOf(g) \in S)
            /\ refresh'[g].pc = "revoking" => snap'[g] = snap[g]
    <2>1. Late(S) \in [Fetches -> Refreshes] \/ Fetches = {}
      BY LateFacts DEF SessionsIInv, Base
    <2>2. Late(S) \in [Fetches -> Refreshes]
      BY <2>1 DEF Late
    <2>3. /\ snap' \in [Fetches \cup {"reset"} -> SUBSET Tokens] /\ snap'["reset"] = {}
          /\ \A g \in Fetches : snap'[g] = snap[g]
      BY <1>2, SessionsAssumption DEF SessionsIInv, Base, Typed
    <2> QED
      BY <1>2, <2>2, <2>3, LateFacts DEF SessionsIInv, Base
  <1>6. ASSUME NEW l \in Logins
        PROVE  /\ login'[l] \in LoginTries
               /\ login'[l].pc = login[l].pc /\ login'[l].token = login[l].token
               /\ login'[l].password = login[l].password /\ (login[l].late => login'[l].late)
               /\ login[l].pc = "checked" => login'[l].late
    <2>1. login[l] \in LoginTries
      BY DEF SessionsIInv, Base, Typed
    <2>2. CASE login[l].pc = "checked"
      <3>1. login'[l] = [login[l] EXCEPT !.late = TRUE]
        BY <1>2, <2>2
      <3> QED
        BY <2>1, <3>1 DEF LoginTries
    <2>3. CASE login[l].pc # "checked"
      BY <1>2, <2>1, <2>3
    <2> QED
      BY <2>2, <2>3
  <1>7. login' \in [Logins -> LoginTries]
    BY <1>2, <1>6
  <1>8. overlapping \subseteq overlapping' /\ disturbed \subseteq disturbed' /\ logout' \in 0..MaxTokens
        /\ reset' \in {"idle", "changed", "revoking", "done"} /\ reset' # "revoking"
    BY <1>2 DEF SessionsIInv, Base, Typed
  <1> QED
    BY <1>2, <1>3, <1>4, <1>5, <1>6, <1>7, <1>8, RevokeInv, ZenonT(40)

-----------------------------------------------------------------------------
(* The steps that no refresh takes *)

LEMMA StillBase ==
  ASSUME Base, Typed', RowsShrink, Room', UNCHANGED <<promise, fetch, refresh, ended>>,
         \A g \in Fetches : snap'[g] = snap[g],
         snap'["reset"] \cap Unused = {}, cookie' \notin Unused,
         \A l \in Logins : Created(l)' =>
            /\ Created(l) /\ login'[l].token = login[l].token
            /\ cookie' # 0 => session[cookie'] # login[l].token
  PROVE  Base'
  <1>1. RowsOK'
    BY RowsKept DEF Base, RowsOK
  <1>2. PromisesOK'
    <2>1. \A g \in Fetches : Runs(g)' <=> Runs(g)
      BY DEF Runs
    <2> QED
      BY <2>1, PromisesKept
  <1>3. HandsOK'
    <2>1. \A g \in Fetches : RefreshOK(g)'
      BY RefreshKept, ShrinkFacts DEF SameRefresh
    <2> QED
      BY <2>1, ShrinkFacts DEF HandsOK
  <1>4. LoginsOK'
    <2>1. \A g \in Fetches : Runs(g)' /\ refresh'[g].token # 0 =>
            (Runs(g) /\ refresh'[g].token = refresh[g].token) \/ refresh'[g].token = cookie
      BY DEF Runs
    <2> QED
      BY <2>1, ShrinkFacts, LoginsKept DEF RowsShrink
  <1> QED
    BY <1>1, <1>2, <1>3, <1>4 DEF Base

(* The logins are as they were, and so is the cookie or it is cleared. *)
LEMMA IdleBase ==
  ASSUME Base, Typed', RowsShrink, UNCHANGED <<promise, fetch, refresh, login, ended>>,
         cookie' = cookie \/ cookie' = 0,
         \A g \in Fetches : snap'[g] = snap[g],
         snap'["reset"] \cap Unused = {}
  PROVE  Base'
  <1>1. Room'
    <2>1. Rotators' \subseteq Rotators /\ Checked' \subseteq Checked
      BY DEF Rotators, Checked
    <2> QED
      BY <2>1, RoomKept, ShrinkFacts
  <1>2. cookie' \notin Unused
    BY DEF Base, RowsOK, Unused, Tokens
  <1>3. \A l \in Logins : Created(l)' =>
            /\ Created(l) /\ login'[l].token = login[l].token
            /\ cookie' # 0 => session[cookie'] # login[l].token
    BY DEF Base, LoginsOK, Created
  <1> QED
    BY <1>1, <1>2, <1>3, StillBase

LEMMA LogoutRespondInv == ASSUME SessionsIInv, LogoutRespond PROVE SessionsIInv'
  <1>1. /\ logout' = 0 /\ cookie' = 0
        /\ UNCHANGED <<db, promise, fetch, refresh, login, reset, snap, failures, history>>
    BY DEF LogoutRespond
  <1>2. RowsShrink
    BY <1>1 DEF RowsShrink, db
  <1>3. Base'
    <2>1. Typed'
      BY <1>1, SessionsAssumption DEF SessionsIInv, Base, Typed, db
    <2>2. snap'["reset"] \cap Unused = {}
      BY <1>1 DEF SessionsIInv, Base, HandsOK
    <2> QED
      BY <1>1, <1>2, <2>1, <2>2, IdleBase DEF SessionsIInv, history
  <1>4. CleanInv'
    BY <1>1, <1>3, SameClean DEF db, history, Created
  <1>5. OutInv'
    BY <1>1, <1>2, OutQuiet DEF SessionsIInv, db, history
  <1> QED
    BY <1>3, <1>4, <1>5 DEF SessionsIInv

LEMMA ResetPasswordInv == ASSUME SessionsIInv, ResetPassword PROVE SessionsIInv'
  <1>1. /\ reset = "idle" /\ reset' = "changed" /\ password' = 1
        /\ UNCHANGED <<status, session, loginOf, browser, refresh, login, logout, snap, failures, history>>
    BY DEF ResetPassword
  <1>2. RowsShrink
    BY <1>1 DEF RowsShrink
  <1>3. Base'
    <2>1. Typed'
      BY <1>1 DEF SessionsIInv, Base, Typed, browser
    <2>2. snap'["reset"] \cap Unused = {}
      BY <1>1 DEF SessionsIInv, Base, HandsOK
    <2> QED
      BY <1>1, <1>2, <2>1, <2>2, IdleBase DEF SessionsIInv, history, browser
  <1>4. CleanInv'
    BY <1>1, <1>3, SameClean DEF history, browser, Created
  <1>5. OutInv'
    <2>1. UNCHANGED <<Valid, overlapping, ended>>
      BY <1>1 DEF Valid, history
    <2>2. \A f \in Fetches : SessionOf(f)' = SessionOf(f)
      BY <1>1 DEF SessionOf
    <2>3. LateOK'
      BY <1>1, <2>1, <2>2 DEF SessionsIInv, OutInv, LateOK
    <2>4. Found'
      BY <1>1, <2>1, <2>2 DEF SessionsIInv, OutInv, Found
    <2> QED
      BY <1>1, <2>1, <2>3, <2>4 DEF SessionsIInv, OutInv, LoginsLateOK, RevokedStaysOut, EndedStaysEnded, OldPasswordIsOut
  <1> QED
    BY <1>3, <1>4, <1>5 DEF SessionsIInv

LEMMA ResetSnapshotInv == ASSUME SessionsIInv, ResetSnapshot PROVE SessionsIInv'
  <1>1. /\ reset = "changed" /\ reset' = "revoking" /\ snap' = [snap EXCEPT !["reset"] = Valid]
        /\ UNCHANGED <<db, browser, refresh, login, logout, failures, history>>
    BY DEF ResetSnapshot
  <1>2. RowsShrink
    BY <1>1 DEF RowsShrink, db
  <1>3. /\ snap' \in [Fetches \cup {"reset"} -> SUBSET Tokens] /\ snap'["reset"] = Valid
        /\ \A g \in Fetches : snap'[g] = snap[g]
    BY <1>1, SessionsAssumption DEF SessionsIInv, Base, Typed, Valid
  <1>4. Base'
    <2>1. Typed'
      BY <1>1, <1>3 DEF SessionsIInv, Base, Typed, db, browser
    <2>2. snap'["reset"] \cap Unused = {}
      BY <1>3 DEF Valid, Unused
    <2> QED
      BY <1>1, <1>2, <1>3, <2>1, <2>2, IdleBase DEF SessionsIInv, history, browser
  <1>5. CleanInv'
    BY <1>1, <1>4, SameClean DEF db, history, browser, Created
  <1>6. OutInv'
    <2>1. UNCHANGED <<Valid, overlapping, ended, loginOf, password>>
      BY <1>1 DEF Valid, history, db
    <2>2. \A f \in Fetches : SessionOf(f)' = SessionOf(f)
      BY <1>1 DEF SessionOf, db
    <2>3. LateOK'
      BY <1>1, <2>1, <2>2 DEF SessionsIInv, OutInv, LateOK
    <2>4. Found'
      <3>1. ASSUME NEW f \in Fetches, refresh[f].pc = "revoking", snap'[f] # {},
                   NEW t \in Valid, session[t] = SessionOf(f)
            PROVE  t \in snap'[f] \cup overlapping
        BY <1>3, <3>1 DEF SessionsIInv, OutInv, Found
      <3>2. refresh' = refresh /\ session' = session /\ Valid' = Valid /\ overlapping' = overlapping
        BY <1>1, <2>1 DEF db
      <3>3. \A t \in Valid' : t \in snap'["reset"]
        BY <1>3, <3>2
      <3> QED
        BY <2>2, <3>1, <3>2, <3>3 DEF Found
    <2> QED
      BY <1>1, <2>1, <2>3, <2>4 DEF SessionsIInv, OutInv, LoginsLateOK, RevokedStaysOut, EndedStaysEnded, OldPasswordIsOut, db
  <1> QED
    BY <1>4, <1>5, <1>6 DEF SessionsIInv

LEMMA LoginCheckInv == ASSUME SessionsIInv, NEW l \in Logins, LoginCheck(l) PROVE SessionsIInv'
  <1>1. PICK new : new = [pc |-> "checked", password |-> password, token |-> 0, late |-> FALSE]
    OBVIOUS
  <1>2. /\ login[l].pc = "idle" /\ Spare /\ login' = [login EXCEPT ![l] = new]
        /\ UNCHANGED <<db, browser, refresh, logout, reset, snap, failures, history>>
    BY <1>1 DEF LoginCheck
  <1>3. /\ new \in LoginTries /\ new.pc = "checked" /\ new.password = password
        /\ login' \in [Logins -> LoginTries] /\ login'[l] = new
        /\ \A m \in Logins \ {l} : login'[m] = login[m]
    BY <1>1, <1>2, SessionsAssumption DEF SessionsIInv, Base, Typed, LoginTries
  <1>4. RowsShrink /\ Unused' = Unused
    BY <1>2 DEF RowsShrink, db, Unused
  <1>5. \A m \in Logins : Created(m)' => Created(m) /\ login'[m] = login[m]
    BY <1>3 DEF Created
  <1>6. Base'
    <2>1. Typed'
      BY <1>2, <1>3 DEF SessionsIInv, Base, Typed, db, browser
    <2>2. snap'["reset"] \cap Unused = {} /\ cookie' \notin Unused
      BY <1>2 DEF SessionsIInv, Base, HandsOK, RowsOK, browser
    <2>3. Room'
      <3>1. Checked' \subseteq Checked \cup {l} /\ Rotators' = Rotators
        BY <1>2, <1>3 DEF Checked, Rotators, browser
      <3> QED
        BY <1>2, <1>4, <3>1, SpareLeaves DEF SessionsIInv
    <2>4. \A m \in Logins : Created(m)' =>
            /\ Created(m) /\ login'[m].token = login[m].token
            /\ cookie' # 0 => session[cookie'] # login[m].token
      BY <1>2, <1>5 DEF SessionsIInv, Base, LoginsOK, browser
    <2> QED
      BY <1>2, <1>4, <2>1, <2>2, <2>3, <2>4, StillBase DEF SessionsIInv, history, browser
  <1>7. CleanInv'
    BY <1>2, <1>5, <1>6, SameClean DEF db, history, browser
  <1>8. OutInv'
    BY <1>2, <1>3, <1>4, OutQuiet DEF SessionsIInv, db, history
  <1> QED
    BY <1>6, <1>7, <1>8 DEF SessionsIInv

LEMMA LoginRespondInv == ASSUME SessionsIInv, NEW l \in Logins, LoginRespond(l) PROVE SessionsIInv'
  <1>1. PICK m : m = login[l].token
    OBVIOUS
  <1>2. /\ Created(l) /\ cookie' = m /\ login' = [login EXCEPT ![l] = NoLogin]
        /\ UNCHANGED <<db, promise, fetch, refresh, logout, reset, snap, failures, history>>
    BY <1>1 DEF LoginRespond, Created
  <1>3. /\ login' \in [Logins -> LoginTries] /\ login'[l].pc = "idle"
        /\ \A k \in Logins \ {l} : login'[k] = login[k]
    BY <1>2, SessionsAssumption DEF SessionsIInv, Base, Typed, LoginTries, NoLogin
  <1>4. /\ m \in Tokens \ Unused /\ session[m] = m /\ \A t \in Tokens : session[t] = m => t = m
        /\ \A f \in Fetches : Runs(f) /\ refresh[f].token # 0 => SessionOf(f) # m
        /\ m \in 0..MaxTokens /\ m # 0
    BY <1>1, <1>2 DEF SessionsIInv, Base, LoginsOK, Tokens
  <1>5. RowsShrink /\ Unused' = Unused
    BY <1>2 DEF RowsShrink, db, Unused
  <1>6. \A k \in Logins : Created(k)' => Created(k) /\ k # l /\ login'[k] = login[k]
    BY <1>3 DEF Created
  <1>7. Base'
    <2>1. Typed'
      BY <1>2, <1>3, <1>4 DEF SessionsIInv, Base, Typed, db
    <2>2. snap'["reset"] \cap Unused = {} /\ cookie' \notin Unused
      BY <1>2, <1>4 DEF SessionsIInv, Base, HandsOK
    <2>3. Room'
      <3>1. Checked' \subseteq Checked /\ Rotators' \subseteq Rotators
        BY <1>2, <1>3 DEF Checked, Rotators
      <3> QED
        BY <1>5, <3>1, RoomKept DEF SessionsIInv
    <2>4. \A k \in Logins : Created(k)' =>
            /\ Created(k) /\ login'[k].token = login[k].token
            /\ cookie' # 0 => session[cookie'] # login[k].token
      BY <1>1, <1>2, <1>4, <1>6 DEF SessionsIInv, Base, LoginsOK
    <2> QED
      BY <1>2, <1>5, <2>1, <2>2, <2>3, <2>4, StillBase DEF SessionsIInv, history
  <1>8. CleanInv'
    <2>1. \A g \in Fetches : (Clean(g)' <=> Clean(g)) /\ SessionOf(g)' = SessionOf(g) /\ refresh'[g] = refresh[g]
      BY <1>2 DEF Clean, SessionOf, Runs, db, history
    <2>2. UNCHANGED <<status, session, disturbed>>
      BY <1>2 DEF db, history
    <2>3. RefreshesClean'
      <3>1. \A f, g \in Fetches : Clean(f)' /\ Clean(g)' /\ SessionOf(f)' = SessionOf(g)' => f = g
        BY <2>1 DEF SessionsIInv, CleanInv, RefreshesClean
      <3>2. ASSUME NEW f \in Fetches, Clean(f)'
            PROVE  /\ refresh'[f].pc \notin {"replayed", "revoking"}
                   /\ cookie' # 0 /\ session'[cookie'] = SessionOf(f)' => cookie' = refresh'[f].token
                   /\ IF refresh'[f].pc \in {"issued", "answered"}
                      THEN Sound(refresh[f].new)' /\ Only(SessionOf(f), refresh[f].new)'
                      ELSE Sound(refresh[f].token)' /\ Only(SessionOf(f), refresh[f].token)'
        <4>1. Clean(f) /\ SessionOf(f) # m /\ session'[cookie'] = m
          BY <1>2, <1>4, <2>1, <2>2, <3>2 DEF Clean
        <4>2. /\ refresh[f].pc \notin {"replayed", "revoking"}
              /\ IF refresh[f].pc \in {"issued", "answered"}
                 THEN Sound(refresh[f].new) /\ Only(SessionOf(f), refresh[f].new)
                 ELSE Sound(refresh[f].token) /\ Only(SessionOf(f), refresh[f].token)
          BY <4>1 DEF SessionsIInv, CleanInv, RefreshesClean
        <4>3. IF refresh[f].pc \in {"issued", "answered"}
              THEN Sound(refresh[f].new)' /\ Only(SessionOf(f), refresh[f].new)'
              ELSE Sound(refresh[f].token)' /\ Only(SessionOf(f), refresh[f].token)'
          BY <1>2, <2>1, <2>2, <4>2 DEF Sound, Only, Mine
        <4> QED
          BY <2>1, <4>1, <4>2, <4>3
      <3> QED
        BY <3>1, <3>2 DEF RefreshesClean
    <2>4. CookieClean'
      <3>1. m \notin disturbed => Sound(m)
        BY <1>1, <1>2 DEF SessionsIInv, CleanInv, LoginsClean
      <3>2. Only(m, m)
        BY <1>4 DEF Only, Mine
      <3> QED
        BY <1>2, <1>4, <2>2, <3>1, <3>2 DEF CookieClean, Sound, Only, Mine
    <2>5. LoginsClean'
      BY <1>6, <2>2 DEF SessionsIInv, CleanInv, LoginsClean, Sound
    <2>6. OneEach'
      BY <2>2 DEF SessionsIInv, CleanInv, OneEach, Mine
    <2> QED
      BY <2>3, <2>4, <2>5, <2>6 DEF CleanInv
  <1>9. OutInv'
    <2>1. \A k \in Logins : login'[k].pc = "checked" =>
            login'[k].late \/ login'[k].password = password \/ login'[k] = login[k]
      BY <1>3
    <2> QED
      BY <1>2, <1>5, <2>1, OutQuiet DEF SessionsIInv, db, history
  <1> QED
    BY <1>7, <1>8, <1>9 DEF SessionsIInv

(* A row expires or is pruned. *)
LEMMA RowsGoneInv ==
  ASSUME SessionsIInv, status' \in [Tokens -> {"unused", "valid", "revoked", "gone"}],
         \A t \in Tokens : \/ status'[t] = status[t]
                           \/ status[t] # "unused" /\ status'[t] = "gone",
         UNCHANGED <<session, password, loginOf, browser, refresh, login, logout, reset, snap, failures, history>>
  PROVE  SessionsIInv'
  <1>1. RowsShrink /\ Unused' = Unused
    BY DEF RowsShrink, Unused
  <1>2. Base'
    <2>1. Typed'
      BY DEF SessionsIInv, Base, Typed, browser
    <2>2. snap'["reset"] \cap Unused = {}
      BY DEF SessionsIInv, Base, HandsOK
    <2> QED
      BY <1>1, <2>1, <2>2, IdleBase DEF SessionsIInv, history, browser
  <1>3. CleanInv'
    <2>1. \A g \in Fetches : (Clean(g)' <=> Clean(g)) /\ SessionOf(g)' = SessionOf(g) /\ refresh'[g] = refresh[g]
      BY DEF Clean, SessionOf, Runs, history
    <2>2. \A g \in Fetches : Clean(g) => refresh[g].pc \notin {"replayed", "revoking"}
      BY DEF SessionsIInv, CleanInv, RefreshesClean
    <2>3. \A l \in Logins : Created(l)' => Created(l) /\ login'[l].token = login[l].token
      BY DEF Created
    <2> QED
      BY <1>1, <1>2, <2>1, <2>2, <2>3, CleanKept DEF SessionsIInv, browser, history
  <1>4. OutInv'
    BY <1>1, OutQuiet DEF SessionsIInv, history
  <1> QED
    BY <1>2, <1>3, <1>4 DEF SessionsIInv

LEMMA TokenExpiresInv == ASSUME SessionsIInv, NEW t \in Tokens, TokenExpires(t) PROVE SessionsIInv'
  <1>1. /\ status' \in [Tokens -> {"unused", "valid", "revoked", "gone"}]
        /\ \A x \in Tokens : \/ status'[x] = status[x]
                             \/ status[x] # "unused" /\ status'[x] = "gone"
    BY DEF TokenExpires, SessionsIInv, Base, Typed
  <1> QED
    BY <1>1, RowsGoneInv DEF TokenExpires

LEMMA PruneInv == ASSUME SessionsIInv, Prune PROVE SessionsIInv'
  <1>1. /\ status' \in [Tokens -> {"unused", "valid", "revoked", "gone"}]
        /\ \A x \in Tokens : \/ status'[x] = status[x]
                             \/ status[x] # "unused" /\ status'[x] = "gone"
    BY DEF Prune, SessionsIInv, Base, Typed
  <1> QED
    BY <1>1, RowsGoneInv DEF Prune

-----------------------------------------------------------------------------
(* The steps that insert a row *)

(* Whoever inserts one needs no room any more. *)
LEMMA RoomTaken ==
  ASSUME Base, NEW n \in Unused, Unused' = Unused \ {n},
         \/ \E f \in Rotators : Rotators' \subseteq Rotators \ {f} /\ Checked' = Checked
         \/ \E l \in Checked : Checked' \subseteq Checked \ {l} /\ Rotators' = Rotators
  PROVE  Room'
  <1>1. ASSUME NEW B, IsFiniteSet(B), NEW x \in B, NEW C \in SUBSET (B \ {x})
        PROVE  Cardinality(C) <= Cardinality(B) - 1 /\ Cardinality(C) \in Nat
    <2>1. IsFiniteSet(B \ {x}) /\ Cardinality(B \ {x}) = Cardinality(B) - 1
      BY <1>1, FS_RemoveElement
    <2> QED
      BY <1>1, <2>1, FS_Subset, FS_CardinalityType
  <1>2. Cardinality(Unused') = Cardinality(Unused) - 1
    BY RoomTypes, FS_RemoveElement
  <1>3. CASE \E f \in Rotators : Rotators' \subseteq Rotators \ {f} /\ Checked' = Checked
    <2>1. Cardinality(Rotators') <= Cardinality(Rotators) - 1 /\ Cardinality(Rotators') \in Nat
      BY <1>1, <1>3, RoomTypes
    <2>2. Cardinality(Unused') >= Cardinality(Rotators') + Cardinality(Checked)
      BY <1>2, <2>1, RoomTypes DEF Base, Room
    <2> QED
      BY <1>3, <2>2 DEF Room
  <1>4. CASE \E l \in Checked : Checked' \subseteq Checked \ {l} /\ Rotators' = Rotators
    <2>1. Cardinality(Checked') <= Cardinality(Checked) - 1 /\ Cardinality(Checked') \in Nat
      BY <1>1, <1>4, RoomTypes
    <2>2. Cardinality(Unused') >= Cardinality(Rotators) + Cardinality(Checked')
      BY <1>2, <2>1, RoomTypes DEF Base, Room
    <2> QED
      BY <1>4, <2>2 DEF Room
  <1> QED
    BY <1>3, <1>4

(* Row n, of session s, is inserted; others are revoked at most. *)
Inserted(n, s) ==
    /\ n \in Unused
    /\ s \in Tokens \ (Unused \ {n})
    /\ status' \in [Tokens -> {"unused", "valid", "revoked", "gone"}]
    /\ status'[n] = "valid"
    /\ \A x \in Tokens \ {n} : status'[x] = "unused" <=> status[x] = "unused"
    /\ session' = [session EXCEPT ![n] = s]

LEMMA InsertedFacts ==
  ASSUME Base, NEW n, NEW s, Inserted(n, s), UNCHANGED <<cookie, ended>>
  PROVE  /\ n \in Tokens /\ n # 0 /\ Unused' = Unused \ {n} /\ RowsGrow /\ RowsOK'
         /\ session' \in [Tokens -> 0..MaxTokens] /\ session'[n] = s
         /\ \A x \in Tokens \ {n} : session'[x] = session[x]
         /\ \A x \in Tokens \ Unused : x # n /\ session'[x] = session[x]
         /\ \A x \in Tokens : session[x] # n
         /\ cookie # 0 => cookie \in Tokens \ Unused
  <1>1. n \in Tokens /\ n # 0
    BY DEF Inserted, Unused, Tokens
  <1>2. Unused' = Unused \ {n}
    BY <1>1 DEF Inserted, Unused
  <1>3. /\ session' \in [Tokens -> 0..MaxTokens] /\ session'[n] = s
        /\ \A x \in Tokens \ {n} : session'[x] = session[x]
    <2>1. s \in 0..MaxTokens
      BY DEF Inserted, Tokens
    <2> QED
      BY <1>1, <2>1 DEF Inserted, Base, Typed
  <1>4. cookie # 0 => cookie \in Tokens \ Unused
    BY DEF Base, RowsOK, Typed, Tokens
  <1>5. \A x \in Tokens : session[x] # n
    <2>1. \A x \in Tokens : session[x] = 0 \/ session[x] \in Tokens \ Unused
      BY DEF Base, RowsOK
    <2> QED
      BY <1>1, <2>1 DEF Inserted
  <1>6. RowsGrow /\ \A x \in Tokens \ Unused : x # n /\ session'[x] = session[x]
    BY <1>2, <1>3 DEF RowsGrow, Inserted
  <1>7. RowsOK'
    <2>1. \A t \in Tokens \ Unused' : session'[t] \in Tokens \ Unused'
      <3> SUFFICES ASSUME NEW t \in Tokens \ Unused' PROVE session'[t] \in Tokens \ Unused'
        OBVIOUS
      <3>1. CASE t = n
        BY <1>2, <1>3, <3>1 DEF Inserted
      <3>2. CASE t # n
        BY <1>2, <1>3, <3>2 DEF Base, RowsOK
      <3> QED
        BY <3>1, <3>2
    <2>2. \A t \in Unused' : session'[t] = 0
      BY <1>2, <1>3 DEF Base, RowsOK, Unused
    <2>3. cookie' \notin Unused' /\ ended' \subseteq Tokens \ Unused'
      BY <1>2 DEF Base, RowsOK
    <2> QED
      BY <2>1, <2>2, <2>3 DEF RowsOK
  <1> QED
    BY <1>1, <1>2, <1>3, <1>4, <1>5, <1>6, <1>7

(* The row is the only one of its session that works, if anybody cares;    *)
(* nothing else changes for the sessions that nobody has disturbed.        *)
LEMMA CleanInserted ==
  ASSUME Base, CleanInv, NEW n, NEW s, Inserted(n, s), UNCHANGED <<cookie, ended, disturbed>>,
         s \notin disturbed => Only(s, n)',
         \A x \in Tokens \ {n} : session[x] # s => status'[x] = status[x],
         \A x \in Tokens \ {n} : status'[x] = "valid" => status[x] = "valid",
         \A g \in Fetches :
            /\ refresh'[g].token = refresh[g].token /\ (Runs(g)' <=> Runs(g))
            /\ Clean(g) /\ SessionOf(g) = s => refresh'[g].pc \in {"issued", "answered"} /\ refresh'[g].new = n
            /\ Clean(g) /\ SessionOf(g) # s => refresh'[g] = refresh[g],
         cookie # 0 /\ session[cookie] = s /\ s \notin disturbed => \E g \in Fetches : Clean(g) /\ SessionOf(g) = s,
         \A l \in Logins : Created(l)' =>
            login'[l].token = n \/ (Created(l) /\ login'[l].token = login[l].token /\ login[l].token # s)
  PROVE  CleanInv'
  <1>1. /\ n \in Tokens /\ n # 0 /\ Unused' = Unused \ {n}
        /\ session' \in [Tokens -> 0..MaxTokens] /\ session'[n] = s
        /\ \A x \in Tokens \ {n} : session'[x] = session[x]
        /\ \A x \in Tokens \ Unused : x # n /\ session'[x] = session[x]
        /\ \A x \in Tokens : session[x] # n
        /\ cookie # 0 => cookie \in Tokens \ Unused
    BY InsertedFacts
  <1>2. /\ \A x \in Tokens \ Unused : session[x] # s /\ Sound(x) => Sound(x)'
        /\ Sound(n)'
    BY <1>1 DEF Sound, Inserted
  <1>3. \A x \in Tokens : \A r : r # s /\ Mine(x, r)' => Mine(x, r)
    BY <1>1 DEF Mine
  <1>4. \A r, t : r # s /\ Only(r, t) => Only(r, t)'
    BY <1>3 DEF Only
  <1>5. ASSUME NEW g \in Fetches, refresh[g].token # 0
        PROVE  /\ refresh[g].token \in Tokens \ Unused /\ SessionOf(g)' = SessionOf(g)
               /\ refresh[g].pc \in {"issued", "answered"} =>
                     refresh[g].new \in Tokens \ Unused /\ session[refresh[g].new] = SessionOf(g)
    BY <1>1, <1>5, TokenFacts DEF RefreshOK, SessionOf
  <1>6. \A g \in Fetches : /\ Clean(g)' <=> Clean(g)
                           /\ Clean(g) => SessionOf(g)' = SessionOf(g) /\ refresh[g].token # 0
    BY <1>5 DEF Clean
  <1>7. RefreshesClean'
    <2>1. \A f, g \in Fetches : Clean(f)' /\ Clean(g)' /\ SessionOf(f)' = SessionOf(g)' => f = g
      BY <1>6 DEF CleanInv, RefreshesClean
    <2>2. ASSUME NEW f \in Fetches, Clean(f)'
          PROVE  /\ refresh'[f].pc \notin {"replayed", "revoking"}
                 /\ cookie' # 0 /\ session'[cookie'] = SessionOf(f)' => cookie' = refresh'[f].token
                 /\ IF refresh'[f].pc \in {"issued", "answered"}
                    THEN /\ Sound(refresh[f].new)'
                         /\ \A x \in Tokens : Mine(x, SessionOf(f))' => x = refresh'[f].new
                    ELSE /\ Sound(refresh[f].token)'
                         /\ \A x \in Tokens : Mine(x, SessionOf(f))' => x = refresh'[f].token
      <3>1. Clean(f) /\ SessionOf(f)' = SessionOf(f) /\ refresh[f].token # 0
        BY <1>6, <2>2
      <3>2. cookie' # 0 /\ session'[cookie'] = SessionOf(f)' => cookie' = refresh'[f].token
        BY <1>1, <3>1 DEF CleanInv, RefreshesClean
      <3>3. CASE SessionOf(f) = s
        <4>1. refresh'[f].pc \in {"issued", "answered"} /\ refresh'[f].new = n
          BY <3>1, <3>3
        <4>2. s \notin disturbed
          BY <3>1, <3>3 DEF Clean
        <4>3. Sound(refresh[f].new)'
          BY <1>2, <4>1 DEF Sound
        <4>4. \A x \in Tokens : Mine(x, SessionOf(f))' => x = n
          BY <3>1, <3>3, <4>2 DEF Only, Mine
        <4> QED
          BY <3>2, <4>1, <4>3, <4>4
      <3>4. CASE SessionOf(f) # s
        <4>1. refresh'[f] = refresh[f]
          BY <3>1, <3>4
        <4>2. /\ refresh[f].pc \notin {"replayed", "revoking"}
              /\ IF refresh[f].pc \in {"issued", "answered"}
                 THEN Sound(refresh[f].new) /\ Only(SessionOf(f), refresh[f].new)
                 ELSE Sound(refresh[f].token) /\ Only(SessionOf(f), refresh[f].token)
          BY <3>1 DEF CleanInv, RefreshesClean
        <4>3. \A x \in Tokens : Mine(x, SessionOf(f))' => Mine(x, SessionOf(f))
          BY <1>3, <3>1, <3>4 DEF Mine
        <4>4. CASE refresh[f].pc \in {"issued", "answered"}
          <5>1. refresh[f].new \in Tokens \ Unused /\ session[refresh[f].new] # s
            BY <1>5, <3>1, <3>4, <4>4
          <5>2. Sound(refresh[f].new)'
            BY <1>2, <4>1, <4>2, <4>4, <5>1 DEF Sound
          <5> QED
            BY <3>2, <4>1, <4>2, <4>3, <4>4, <5>2 DEF Only
        <4>5. CASE refresh[f].pc \notin {"issued", "answered"}
          <5>1. refresh[f].token \in Tokens \ Unused /\ session[refresh[f].token] # s
            BY <1>5, <3>1, <3>4 DEF SessionOf
          <5>2. Sound(refresh[f].token)'
            BY <1>2, <4>1, <4>2, <4>5, <5>1 DEF Sound
          <5> QED
            BY <3>2, <4>1, <4>2, <4>3, <4>5, <5>2 DEF Only
        <4> QED
          BY <4>4, <4>5
      <3> QED
        BY <3>3, <3>4
    <2> QED
      BY <2>1, <2>2 DEF RefreshesClean, Only
  <1>8. CookieClean'
    <2> SUFFICES ASSUME cookie # 0, session'[cookie] \notin disturbed,
                        \A g \in Fetches : Clean(g)' => SessionOf(g)' # session'[cookie]
                 PROVE  Sound(cookie)' /\ Only(session[cookie], cookie)'
      BY DEF CookieClean
    <2>1. /\ cookie \in Tokens \ Unused /\ session'[cookie] = session[cookie]
          /\ \A g \in Fetches : Clean(g) => SessionOf(g) # session[cookie]
      BY <1>1, <1>6
    <2>2. session[cookie] # s
      BY <2>1
    <2>3. Sound(cookie) /\ Only(session[cookie], cookie)
      BY <2>1 DEF CleanInv, CookieClean
    <2>4. Sound(cookie)'
      BY <1>2, <2>1, <2>2, <2>3 DEF Sound
    <2>5. \A x \in Tokens : Mine(x, session[cookie])' => x = cookie
      BY <1>3, <2>1, <2>2, <2>3 DEF Only, Mine
    <2> QED
      BY <2>4, <2>5 DEF Only
  <1>9. LoginsClean'
    <2> SUFFICES ASSUME NEW l \in Logins, Created(l)', login'[l].token \notin disturbed
                 PROVE  Sound(login[l].token)'
      BY DEF LoginsClean
    <2>1. CASE login'[l].token = n
      BY <1>2, <2>1 DEF Sound
    <2>2. CASE Created(l) /\ login'[l].token = login[l].token /\ login[l].token # s
      <3>1. login[l].token \in Tokens \ Unused /\ session[login[l].token] # s
        BY <2>2 DEF Base, LoginsOK
      <3>2. Sound(login[l].token)
        BY <2>2 DEF CleanInv, LoginsClean
      <3> QED
        BY <1>2, <2>2, <3>1, <3>2 DEF Sound
    <2> QED
      BY <2>1, <2>2
  <1>10. OneEach'
    <2> SUFFICES ASSUME NEW r \in Tokens \ disturbed, NEW x \in Tokens, NEW y \in Tokens, Mine(x, r)', Mine(y, r)'
                 PROVE  x = y
      BY DEF OneEach
    <2>1. CASE r = s
      BY <2>1 DEF Only, Mine
    <2>2. CASE r # s
      BY <1>3, <2>2 DEF CleanInv, OneEach
    <2> QED
      BY <2>1, <2>2
  <1> QED
    BY <1>7, <1>8, <1>9, <1>10 DEF CleanInv

(* What overlapped a revocation is excused, and the rest is not out. *)
LEMMA OutInserted ==
  ASSUME Base, OutInv, NEW n, NEW s, Inserted(n, s),
         UNCHANGED <<cookie, ended, password, reset, snap>>, overlapping \subseteq overlapping',
         \A x \in Tokens \ {n} : /\ status'[x] = "valid" => status[x] = "valid"
                                 /\ loginOf'[x] = loginOf[x],
         \A g \in Fetches :
            /\ refresh'[g].token = refresh[g].token
            /\ refresh'[g].pc \in {"valid", "revoking"} => refresh'[g] = refresh[g],
         \A l \in Logins : login'[l].pc = "checked" => login'[l] = login[l],
         Revoking(s) \/ s \in ended => n \in overlapping',
         reset = "done" => loginOf'[n] = password \/ n \in overlapping'
  PROVE  OutInv'
  <1>1. /\ n \in Tokens /\ session'[n] = s
        /\ \A x \in Tokens \ {n} : session'[x] = session[x]
        /\ \A x \in Tokens \ Unused : x # n /\ session'[x] = session[x]
    BY InsertedFacts
  <1>2. \A x \in Tokens : x \in Valid' => x = n \/ (x \in Valid /\ session'[x] = session[x] /\ loginOf'[x] = loginOf[x])
    BY <1>1 DEF Valid
  <1>3. ASSUME NEW g \in Fetches, refresh'[g].pc \in {"valid", "revoking"}
        PROVE  /\ refresh'[g] = refresh[g] /\ SessionOf(g)' = SessionOf(g)
               /\ refresh[g].token \in Tokens \ {n}
    <2>1. refresh'[g] = refresh[g] /\ refresh[g].token # 0
      BY <1>3, TokenFacts DEF RefreshOK
    <2>2. refresh[g].token \in Tokens \ Unused
      BY <2>1, TokenFacts
    <2> QED
      BY <1>1, <2>1, <2>2 DEF SessionOf
  <1>4. LateOK'
    <2> SUFFICES ASSUME NEW g \in Fetches, refresh'[g].pc = "valid", ~refresh'[g].late, refresh'[g].token \notin overlapping'
                 PROVE  /\ SessionOf(g)' \notin ended'
                        /\ reset' = "done" => loginOf'[refresh'[g].token] = password'
      BY DEF LateOK
    <2>1. /\ refresh'[g] = refresh[g] /\ SessionOf(g)' = SessionOf(g)
          /\ refresh[g].token \in Tokens \ {n}
      BY <1>3
    <2>2. /\ SessionOf(g) \notin ended
          /\ reset = "done" => loginOf[refresh[g].token] = password
      BY <2>1 DEF OutInv, LateOK
    <2> QED
      BY <2>1, <2>2
  <1>5. LoginsLateOK'
    BY DEF OutInv, LoginsLateOK
  <1>6. Found'
    <2>1. ASSUME NEW g \in Fetches, refresh'[g].pc = "revoking", snap'[g] # {},
                 NEW x \in Tokens, x \in Valid', session'[x] = SessionOf(g)'
          PROVE  x \in snap'[g] \cup overlapping'
      <3>1. refresh[g].pc = "revoking" /\ SessionOf(g)' = SessionOf(g)
        BY <1>3, <2>1
      <3>2. CASE x = n
        <4>1. \A t \in snap[g] : session[t] = s
          BY <1>1, <2>1, <3>1, <3>2, TokenFacts DEF RefreshOK
        <4>2. s \in {session[t] : t \in snap[g]}
          BY <2>1, <4>1
        <4> QED
          BY <3>1, <3>2, <4>2 DEF Revoking
      <3>3. CASE x # n
        BY <1>2, <2>1, <3>1, <3>3 DEF OutInv, Found
      <3> QED
        BY <3>2, <3>3
    <2>2. ASSUME reset' = "revoking", NEW x \in Tokens, x \in Valid' PROVE x \in snap'["reset"] \cup overlapping'
      <3>1. CASE x = n
        BY <2>2, <3>1 DEF Revoking
      <3>2. CASE x # n
        BY <1>2, <2>2, <3>2 DEF OutInv, Found
      <3> QED
        BY <3>1, <3>2
    <2>3. \A x \in Valid' : x \in Tokens
      BY DEF Valid
    <2> QED
      BY <2>1, <2>2, <2>3 DEF Found
  <1>7. EndedStaysEnded'
    <2> SUFFICES ASSUME NEW x \in Tokens, x \in Valid', session'[x] \in ended PROVE x \in overlapping'
      BY DEF EndedStaysEnded, Valid
    <2> QED
      BY <1>1, <1>2 DEF OutInv, RevokedStaysOut, EndedStaysEnded
  <1>8. OldPasswordIsOut'
    <2> SUFFICES ASSUME reset = "done", NEW x \in Tokens, x \in Valid' PROVE loginOf'[x] = password \/ x \in overlapping'
      BY DEF OldPasswordIsOut, Valid
    <2> QED
      BY <1>2 DEF OutInv, RevokedStaysOut, OldPasswordIsOut
  <1> QED
    BY <1>4, <1>5, <1>6, <1>7, <1>8 DEF OutInv, RevokedStaysOut

LEMMA RotateIssueInv == ASSUME SessionsIInv, NEW f \in Fetches, RotateIssue(f) PROVE SessionsIInv'
  <1>1. PICK t, s, n, new : /\ t = refresh[f].token /\ s = session[t] /\ n = Min(Unused)
                            /\ new = [pc |-> "issued", token |-> t, new |-> n, late |-> refresh[f].late]
    OBVIOUS
  <1>2. /\ refresh[f].pc = "valid" /\ Runs(f)
        /\ status' = [status EXCEPT ![n] = "valid", ![t] = IF @ = "gone" THEN @ ELSE "revoked"]
        /\ session' = [session EXCEPT ![n] = s] /\ loginOf' = [loginOf EXCEPT ![n] = loginOf[t]]
        /\ refresh' = [refresh EXCEPT ![f] = new]
        /\ overlapping' = IF refresh[f].late \/ t \in overlapping \/ Revoking(s) THEN overlapping \cup {n} ELSE overlapping
        /\ UNCHANGED <<password, browser, login, logout, reset, snap, failures, ended, disturbed>>
    BY <1>1 DEF RotateIssue, Insert, Runs
  <1>3. /\ t # 0 /\ t \in Tokens \ Unused /\ s \in Tokens \ Unused /\ s = SessionOf(f)
        /\ refresh[f] \in Refreshes /\ t \in 0..MaxTokens
    BY <1>1, <1>2, TokenFacts DEF SessionsIInv, RefreshOK, SessionOf, Tokens
  <1>4. fetch[f] = "awaits" /\ f \in Rotators
    BY <1>2 DEF SessionsIInv, Base, PromisesOK, Rotators
  <1>5. n \in Unused /\ n \in Tokens /\ n # t
    BY <1>1, <1>3, <1>4, NewRow DEF SessionsIInv
  <1>6. /\ status' \in [Tokens -> {"unused", "valid", "revoked", "gone"}] /\ status'[n] = "valid"
        /\ status'[t] \in {"revoked", "gone"} /\ \A x \in Tokens \ {n, t} : status'[x] = status[x]
    BY <1>2, <1>3, <1>5 DEF SessionsIInv, Base, Typed
  <1>7. Inserted(n, s) /\ UNCHANGED <<cookie, ended, disturbed>>
    BY <1>2, <1>3, <1>5, <1>6 DEF Inserted, Unused, browser
  <1>8. /\ n # 0 /\ Unused' = Unused \ {n} /\ RowsGrow /\ RowsOK'
        /\ session' \in [Tokens -> 0..MaxTokens] /\ session'[n] = s
        /\ \A x \in Tokens \ {n} : session'[x] = session[x]
        /\ \A x \in Tokens : session[x] # n
        /\ cookie # 0 => cookie \in Tokens \ Unused
    BY <1>7, InsertedFacts DEF SessionsIInv
  <1>9. /\ new \in Refreshes /\ new.pc = "issued" /\ new.token = t /\ new.new = n /\ new.late = refresh[f].late
        /\ refresh' \in [Fetches -> Refreshes] /\ refresh'[f] = new
        /\ \A g \in Fetches \ {f} : refresh'[g] = refresh[g]
    <2>1. new \in Refreshes /\ new.pc = "issued" /\ new.token = t /\ new.new = n /\ new.late = refresh[f].late
      BY <1>1, <1>3, <1>5 DEF Refreshes, RefreshSteps, Tokens
    <2> QED
      BY <1>2, <2>1 DEF SessionsIInv, Base, Typed
  <1>10. \A g \in Fetches : refresh'[g].token = refresh[g].token /\ (Runs(g)' <=> Runs(g))
    BY <1>1, <1>2, <1>9 DEF Runs
  <1>11. /\ loginOf' \in [Tokens -> 0..1] /\ loginOf'[n] = loginOf[t]
         /\ \A x \in Tokens \ {n} : loginOf'[x] = loginOf[x]
    BY <1>2, <1>3, <1>5 DEF SessionsIInv, Base, Typed
  <1>12. Base'
    <2>1. Typed'
      BY <1>2, <1>6, <1>8, <1>9, <1>11 DEF SessionsIInv, Base, Typed, browser
    <2>2. PromisesOK'
      BY <1>2, <1>10, PromisesKept DEF SessionsIInv, browser
    <2>3. HandsOK'
      <3>1. \A g \in Fetches \ {f} : RefreshOK(g)'
        BY <1>2, <1>8, <1>9, RefreshKept DEF SessionsIInv, SameRefresh
      <3>2. RefreshOK(f)'
        <4>1. SessionOf(f)' = s
          BY <1>1, <1>3, <1>5, <1>8, <1>9 DEF SessionOf
        <4> QED
          BY <1>3, <1>8, <1>9, <4>1 DEF RefreshOK
      <3>3. snap'["reset"] \cap Unused' = {}
        BY <1>2, <1>8 DEF SessionsIInv, Base, HandsOK
      <3> QED
        BY <3>1, <3>2, <3>3 DEF HandsOK
    <2>4. LoginsOK'
      <3>1. ASSUME NEW l \in Logins, Created(l)
            PROVE  /\ login[l].token \in Tokens \ Unused' /\ session'[login[l].token] = login[l].token
                   /\ \A x \in Tokens : session'[x] = login[l].token => x = login[l].token
                   /\ cookie # 0 => session'[cookie] # login[l].token
                   /\ \A g \in Fetches : Runs(g) /\ refresh[g].token # 0 => session'[refresh[g].token] # login[l].token
        <4>1. /\ login[l].token \in Tokens \ Unused /\ session[login[l].token] = login[l].token
              /\ \A x \in Tokens : session[x] = login[l].token => x = login[l].token
              /\ cookie # 0 => session[cookie] # login[l].token
              /\ \A g \in Fetches : Runs(g) /\ refresh[g].token # 0 => SessionOf(g) # login[l].token
          BY <3>1 DEF SessionsIInv, Base, LoginsOK
        <4>2. s # login[l].token
          BY <1>1, <1>2, <1>3, <4>1
        <4>3. \A g \in Fetches : refresh[g].token # 0 => refresh[g].token \in Tokens \ {n}
          BY <1>5, TokenFacts DEF SessionsIInv
        <4> QED
          BY <1>5, <1>8, <4>1, <4>2, <4>3 DEF SessionOf
      <3>2. login' = login /\ cookie' = cookie
        BY <1>2 DEF browser
      <3>3. \A l \in Logins : Created(l)' <=> Created(l)
        BY <3>2 DEF Created
      <3>4. \A l, m \in Logins : Created(l) /\ Created(m) /\ login[l].token = login[m].token => l = m
        BY DEF SessionsIInv, Base, LoginsOK
      <3> QED
        BY <1>10, <3>1, <3>2, <3>3, <3>4 DEF LoginsOK, SessionOf
    <2>5. Room'
      <3>1. Rotators' \subseteq Rotators \ {f} /\ Checked' = Checked
        BY <1>2, <1>9 DEF Rotators, Checked, browser
      <3> QED
        BY <1>4, <1>5, <1>8, <3>1, RoomTaken DEF SessionsIInv
    <2> QED
      BY <1>8, <2>1, <2>2, <2>3, <2>4, <2>5 DEF Base
  <1>13. CleanInv'
    <2>1. s \notin disturbed => Clean(f)
      BY <1>1, <1>2, <1>3 DEF Clean
    <2>2. \A g \in Fetches : Clean(g) /\ SessionOf(g) = s => g = f
      BY <1>3, <2>1 DEF SessionsIInv, CleanInv, RefreshesClean, Clean
    <2>3. s \notin disturbed => Only(s, n)'
      <3> SUFFICES ASSUME s \notin disturbed, NEW x \in Tokens, Mine(x, s)' PROVE x = n
        BY DEF Only
      <3>1. Only(s, t)
        BY <1>1, <1>2, <1>3, <2>1 DEF SessionsIInv, CleanInv, RefreshesClean
      <3>2. SUFFICES ASSUME x # n PROVE FALSE
        OBVIOUS
      <3>3. x # t /\ Mine(x, s)
        BY <1>6, <1>8, <3>2 DEF Mine
      <3> QED
        BY <3>1, <3>3 DEF Only
    <2>4. /\ \A x \in Tokens \ {n} : session[x] # s => status'[x] = status[x]
          /\ \A x \in Tokens \ {n} : status'[x] = "valid" => status[x] = "valid"
      BY <1>1, <1>6
    <2>5. \A g \in Fetches :
            /\ refresh'[g].token = refresh[g].token /\ (Runs(g)' <=> Runs(g))
            /\ Clean(g) /\ SessionOf(g) = s => refresh'[g].pc \in {"issued", "answered"} /\ refresh'[g].new = n
            /\ Clean(g) /\ SessionOf(g) # s => refresh'[g] = refresh[g]
      BY <1>3, <1>9, <1>10, <2>2
    <2>6. cookie # 0 /\ session[cookie] = s /\ s \notin disturbed => \E g \in Fetches : Clean(g) /\ SessionOf(g) = s
      BY <1>3, <2>1
    <2>7. \A l \in Logins : Created(l)' =>
            login'[l].token = n \/ (Created(l) /\ login'[l].token = login[l].token /\ login[l].token # s)
      BY <1>1, <1>2, <1>3 DEF SessionsIInv, Base, LoginsOK, Created
    <2> QED
      BY <1>7, <2>3, <2>4, <2>5, <2>6, <2>7, CleanInserted DEF SessionsIInv
  <1>14. OutInv'
    <2>1. \A x \in Tokens \ {n} : /\ status'[x] = "valid" => status[x] = "valid"
                                  /\ loginOf'[x] = loginOf[x]
      BY <1>6, <1>11
    <2>2. \A g \in Fetches :
            /\ refresh'[g].token = refresh[g].token
            /\ refresh'[g].pc \in {"valid", "revoking"} => refresh'[g] = refresh[g]
      BY <1>9, <1>10
    <2>3. refresh[f].late \/ t \in overlapping \/ (s \notin ended /\ (reset = "done" => loginOf[t] = password))
      BY <1>1, <1>2, <1>3 DEF SessionsIInv, OutInv, LateOK
    <2>4. /\ overlapping \subseteq overlapping'
          /\ Revoking(s) \/ s \in ended => n \in overlapping'
          /\ reset = "done" => loginOf'[n] = password \/ n \in overlapping'
      BY <1>2, <1>11, <2>3
    <2>5. \A l \in Logins : login'[l].pc = "checked" => login'[l] = login[l]
      BY <1>2
    <2>6. UNCHANGED <<cookie, ended, password, reset, snap>>
      BY <1>2 DEF browser
    <2> QED
      BY <1>7, <2>1, <2>2, <2>4, <2>5, <2>6, OutInserted DEF SessionsIInv
  <1> QED
    BY <1>12, <1>13, <1>14 DEF SessionsIInv

LEMMA LoginCreateInv == ASSUME SessionsIInv, NEW l \in Logins, LoginCreate(l) PROVE SessionsIInv'
  <1>1. PICK n, new : /\ n = Min(Unused)
                      /\ new = [pc |-> "created", password |-> login[l].password, token |-> n, late |-> login[l].late]
    OBVIOUS
  <1>2. /\ login[l].pc = "checked" /\ l \in Checked
        /\ status' = [status EXCEPT ![n] = "valid"]
        /\ session' = [session EXCEPT ![n] = n] /\ loginOf' = [loginOf EXCEPT ![n] = login[l].password]
        /\ login' = [login EXCEPT ![l] = new]
        /\ overlapping' = IF login[l].late \/ reset = "revoking" THEN overlapping \cup {n} ELSE overlapping
        /\ UNCHANGED <<password, browser, refresh, logout, reset, snap, failures, ended, disturbed>>
    BY <1>1 DEF LoginCreate, Insert, Checked
  <1>3. n \in Unused /\ n \in Tokens /\ login[l] \in LoginTries
    BY <1>1, <1>2, NewRow DEF SessionsIInv, Base, Typed
  <1>4. /\ status' \in [Tokens -> {"unused", "valid", "revoked", "gone"}] /\ status'[n] = "valid"
        /\ \A x \in Tokens \ {n} : status'[x] = status[x]
    BY <1>2, <1>3 DEF SessionsIInv, Base, Typed
  <1>5. Inserted(n, n) /\ UNCHANGED <<cookie, ended, disturbed>>
    BY <1>2, <1>3, <1>4 DEF Inserted, browser
  <1>6. /\ n # 0 /\ Unused' = Unused \ {n} /\ RowsGrow /\ RowsOK'
        /\ session' \in [Tokens -> 0..MaxTokens] /\ session'[n] = n
        /\ \A x \in Tokens \ {n} : session'[x] = session[x]
        /\ \A x \in Tokens : session[x] # n
        /\ cookie # 0 => cookie \in Tokens \ Unused
    BY <1>5, InsertedFacts DEF SessionsIInv
  <1>7. /\ new.pc = "created" /\ new.token = n
        /\ login' \in [Logins -> LoginTries] /\ login'[l] = new
        /\ \A m \in Logins \ {l} : login'[m] = login[m]
    <2>1. new \in LoginTries /\ new.pc = "created" /\ new.token = n
      BY <1>1, <1>3 DEF LoginTries, Tokens
    <2> QED
      BY <1>2, <2>1 DEF SessionsIInv, Base, Typed
  <1>8. /\ loginOf' \in [Tokens -> 0..1] /\ loginOf'[n] = login[l].password
        /\ \A x \in Tokens \ {n} : loginOf'[x] = loginOf[x]
    BY <1>2, <1>3 DEF SessionsIInv, Base, Typed, LoginTries
  <1>9. \A g \in Fetches : Runs(g)' <=> Runs(g)
    BY <1>2 DEF Runs
  <1>10. \A g \in Fetches : refresh[g].token # 0 => refresh[g].token \in Tokens \ {n} /\ SessionOf(g) # n
    BY <1>3, <1>6, TokenFacts DEF SessionsIInv, SessionOf
  <1>11. \A m \in Logins \ {l} : Created(m)' => Created(m) /\ login'[m] = login[m] /\ login[m].token # n
    BY <1>3, <1>7 DEF Created, SessionsIInv, Base, LoginsOK
  <1>12. Base'
    <2>1. Typed'
      BY <1>2, <1>4, <1>6, <1>7, <1>8 DEF SessionsIInv, Base, Typed, browser
    <2>2. PromisesOK'
      BY <1>2, <1>9, PromisesKept DEF SessionsIInv, browser
    <2>3. HandsOK'
      <3>1. \A g \in Fetches : RefreshOK(g)'
        BY <1>2, <1>6, RefreshKept DEF SessionsIInv, SameRefresh
      <3>2. snap'["reset"] \cap Unused' = {}
        BY <1>2, <1>6 DEF SessionsIInv, Base, HandsOK
      <3> QED
        BY <3>1, <3>2 DEF HandsOK
    <2>4. LoginsOK'
      <3>1. ASSUME NEW m \in Logins, Created(m)'
            PROVE  /\ login'[m].token \in Tokens \ Unused' /\ session'[login'[m].token] = login'[m].token
                   /\ \A x \in Tokens : session'[x] = login'[m].token => x = login'[m].token
                   /\ cookie # 0 => session'[cookie] # login'[m].token
                   /\ \A g \in Fetches : Runs(g) /\ refresh[g].token # 0 => session'[refresh[g].token] # login'[m].token
        <4>1. CASE m = l
          BY <1>3, <1>6, <1>7, <1>10, <4>1 DEF SessionOf
        <4>2. CASE m # l
          <5>1. Created(m) /\ login'[m] = login[m] /\ login[m].token # n
            BY <1>11, <3>1, <4>2
          <5>2. /\ login[m].token \in Tokens \ Unused /\ session[login[m].token] = login[m].token
                /\ \A x \in Tokens : session[x] = login[m].token => x = login[m].token
                /\ cookie # 0 => session[cookie] # login[m].token
                /\ \A g \in Fetches : Runs(g) /\ refresh[g].token # 0 => SessionOf(g) # login[m].token
            BY <5>1 DEF SessionsIInv, Base, LoginsOK
          <5> QED
            BY <1>3, <1>6, <1>10, <5>1, <5>2 DEF SessionOf
        <4> QED
          BY <4>1, <4>2
      <3>2. \A k, m \in Logins : Created(k)' /\ Created(m)' /\ login'[k].token = login'[m].token => k = m
        <4> SUFFICES ASSUME NEW k \in Logins, NEW m \in Logins, Created(k)', Created(m)',
                            login'[k].token = login'[m].token
                     PROVE  k = m
          OBVIOUS
        <4>1. CASE k = l \/ m = l
          BY <1>7, <1>11, <4>1
        <4>2. CASE k # l /\ m # l
          BY <1>11, <4>2 DEF SessionsIInv, Base, LoginsOK
        <4> QED
          BY <4>1, <4>2
      <3>3. refresh' = refresh /\ cookie' = cookie
        BY <1>2 DEF browser
      <3> QED
        BY <1>9, <3>1, <3>2, <3>3 DEF LoginsOK, SessionOf
    <2>5. Room'
      <3>1. Checked' \subseteq Checked \ {l} /\ Rotators' = Rotators
        BY <1>2, <1>7 DEF Rotators, Checked, browser
      <3> QED
        BY <1>2, <1>3, <1>6, <3>1, RoomTaken DEF SessionsIInv
    <2> QED
      BY <1>6, <2>1, <2>2, <2>3, <2>4, <2>5 DEF Base
  <1>13. CleanInv'
    <2>1. Only(n, n)'
      BY <1>6 DEF Only, Mine
    <2>2. /\ \A x \in Tokens \ {n} : session[x] # n => status'[x] = status[x]
          /\ \A x \in Tokens \ {n} : status'[x] = "valid" => status[x] = "valid"
      BY <1>4
    <2>3. \A g \in Fetches :
            /\ refresh'[g].token = refresh[g].token /\ (Runs(g)' <=> Runs(g))
            /\ Clean(g) /\ SessionOf(g) = n => refresh'[g].pc \in {"issued", "answered"} /\ refresh'[g].new = n
            /\ Clean(g) /\ SessionOf(g) # n => refresh'[g] = refresh[g]
      BY <1>2, <1>9, <1>10 DEF Clean
    <2>4. cookie # 0 => session[cookie] # n
      BY <1>6
    <2>5. \A m \in Logins : Created(m)' =>
            login'[m].token = n \/ (Created(m) /\ login'[m].token = login[m].token /\ login[m].token # n)
      BY <1>7, <1>11
    <2> QED
      BY <1>5, <2>1, <2>2, <2>3, <2>4, <2>5, CleanInserted DEF SessionsIInv
  <1>14. OutInv'
    <2>1. \A x \in Tokens \ {n} : /\ status'[x] = "valid" => status[x] = "valid"
                                  /\ loginOf'[x] = loginOf[x]
      BY <1>4, <1>8
    <2>2. \A g \in Fetches :
            /\ refresh'[g].token = refresh[g].token
            /\ refresh'[g].pc \in {"valid", "revoking"} => refresh'[g] = refresh[g]
      BY <1>2
    <2>3. Revoking(n) => reset = "revoking"
      <3>1. \A g \in Fetches : refresh[g].pc = "revoking" => session[refresh[g].token] # n
        BY <1>10, TokenFacts DEF SessionsIInv, RefreshOK, SessionOf
      <3>2. \A g \in Fetches : refresh[g].pc = "revoking" => \A t \in snap[g] : session[t] # n
        BY <3>1, TokenFacts DEF SessionsIInv, RefreshOK, SessionOf
      <3> QED
        BY <3>2 DEF Revoking
    <2>4. n \notin ended
      BY <1>3 DEF SessionsIInv, Base, RowsOK
    <2>5. reset = "done" => login[l].late \/ login[l].password = password
      BY <1>2 DEF SessionsIInv, OutInv, LoginsLateOK
    <2>6. /\ overlapping \subseteq overlapping'
          /\ Revoking(n) \/ n \in ended => n \in overlapping'
          /\ reset = "done" => loginOf'[n] = password \/ n \in overlapping'
      BY <1>2, <1>8, <2>3, <2>4, <2>5
    <2>7. \A m \in Logins : login'[m].pc = "checked" => login'[m] = login[m]
      BY <1>7
    <2>8. UNCHANGED <<cookie, ended, password, reset, snap>>
      BY <1>2 DEF browser
    <2> QED
      BY <1>5, <2>1, <2>2, <2>6, <2>7, <2>8, OutInserted DEF SessionsIInv
  <1> QED
    BY <1>12, <1>13, <1>14 DEF SessionsIInv

-----------------------------------------------------------------------------
LEMMA SessionsInitially == SessionsInit => SessionsIInv
  <1> SUFFICES ASSUME SessionsInit PROVE SessionsIInv
    OBVIOUS
  <1>1. 1 \in Tokens /\ 0 \notin Tokens /\ MaxTokens \in Nat
    BY SessionsAssumption DEF Tokens
  <1>2. /\ \A t \in Tokens : (status[t] = IF t = 1 THEN "valid" ELSE "unused")
                             /\ (session[t] = IF t = 1 THEN 1 ELSE 0) /\ loginOf[t] = 0
        /\ Unused = Tokens \ {1} /\ Valid = {1}
    BY <1>1 DEF SessionsInit, Unused, Valid
  <1>3. \A f \in Fetches : refresh[f] = NoRefresh /\ ~Runs(f) /\ ~Clean(f)
    BY NoRefreshOK DEF SessionsInit, Runs, Clean
  <1>4. \A l \in Logins : login[l] = NoLogin /\ login[l].pc = "idle" /\ ~Created(l)
    BY DEF SessionsInit, NoLogin, Created
  <1>5. Typed
    <2>1. NoLogin \in LoginTries
      BY <1>1 DEF NoLogin, LoginTries
    <2>2. /\ status \in [Tokens -> {"unused", "valid", "revoked", "gone"}]
          /\ session \in [Tokens -> 0..MaxTokens] /\ loginOf \in [Tokens -> 0..1]
      BY <1>1, SessionsAssumption DEF SessionsInit
    <2>3. cookie \in 0..MaxTokens /\ logout \in 0..MaxTokens /\ failures \in 0..MaxFailures /\ password \in 0..1
      BY <1>1, SessionsAssumption DEF SessionsInit
    <2> QED
      BY <2>1, <2>2, <2>3, NoRefreshOK DEF SessionsInit, Typed
  <1>6. RowsOK
    BY <1>1, <1>2 DEF SessionsInit, RowsOK
  <1>7. PromisesOK
    BY <1>3 DEF SessionsInit, PromisesOK
  <1>8. HandsOK
    BY <1>1, <1>2, <1>3, NoRefreshOK DEF SessionsInit, HandsOK, RefreshOK
  <1>9. LoginsOK
    BY <1>4 DEF LoginsOK
  <1>10. Room
    <2>1. Rotators = {} /\ Checked = {}
      BY <1>4 DEF SessionsInit, Rotators, Checked
    <2>2. IsFiniteSet(Unused)
      <3>1. IsFiniteSet(Tokens)
        <4>1. 1 \in Int /\ MaxTokens \in Int
          BY SessionsAssumption
        <4> QED
          BY <4>1, FS_Interval DEF Tokens
      <3>2. Unused \subseteq Tokens
        BY DEF Unused
      <3> QED
        BY <3>1, <3>2, FS_Subset
    <2>3. Cardinality(Rotators) = 0 /\ Cardinality(Checked) = 0 /\ Cardinality(Unused) \in Nat
      BY <2>1, <2>2, FS_EmptySet, FS_CardinalityType
    <2> QED
      BY <2>3 DEF Room
  <1>11. CleanInv
    <2>1. RefreshesClean
      BY <1>3 DEF RefreshesClean
    <2>2. CookieClean
      BY <1>1, <1>2 DEF SessionsInit, CookieClean, Sound, Only, Mine
    <2>3. LoginsClean
      BY <1>4 DEF LoginsClean
    <2>4. OneEach
      BY <1>2 DEF OneEach, Mine
    <2> QED
      BY <2>1, <2>2, <2>3, <2>4 DEF CleanInv
  <1>12. OutInv
    <2>1. LateOK /\ LoginsLateOK /\ Found
      BY <1>3, NoRefreshOK DEF SessionsInit, LateOK, LoginsLateOK, Found
    <2>2. RevokedStaysOut
      BY DEF SessionsInit, RevokedStaysOut, EndedStaysEnded, OldPasswordIsOut
    <2> QED
      BY <2>1, <2>2 DEF OutInv
  <1> QED
    BY <1>5, <1>6, <1>7, <1>8, <1>9, <1>10, <1>11, <1>12 DEF SessionsIInv, Base

LEMMA SessionsInductive == SessionsIInv /\ [SessionsNext]_sessionVars => SessionsIInv'
  <1> SUFFICES ASSUME SessionsIInv, [SessionsNext]_sessionVars PROVE SessionsIInv'
    OBVIOUS
  <1>1. ASSUME NEW f \in Fetches,
               Fetch(f) \/ Unauthorized(f) \/ Serve(f) \/ RotateFails(f) \/ FindFails(f) \/ LoseResponse(f)
        PROVE  SessionsIInv'
    BY <1>1, FetchInv, UnauthorizedInv, RotateSelectInv, RotateIssueInv, FindValidInv, ReplaySnapshotInv,
       ReplayRevokeInv, RespondInv, RespondRefusedInv, RotateFailsInv, FindFailsInv,
       LoseResponseInv DEF Serve
  <1>2. ASSUME NEW l \in Logins, LoginCheck(l) \/ LoginCreate(l) \/ LoginRespond(l) PROVE SessionsIInv'
    BY <1>2, LoginCheckInv, LoginCreateInv, LoginRespondInv
  <1>3. ASSUME Logout \/ LogoutRespond \/ ResetPassword \/ ResetSnapshot \/ ResetRevoke PROVE SessionsIInv'
    BY <1>3, LogoutInv, LogoutRespondInv, ResetPasswordInv, ResetSnapshotInv, ResetRevokeInv
  <1>4. ASSUME (\E t \in Tokens : TokenExpires(t)) \/ Prune PROVE SessionsIInv'
    BY <1>4, TokenExpiresInv, PruneInv
  <1>5. ASSUME UNCHANGED sessionVars PROVE SessionsIInv'
    <2>1. /\ status' \in [Tokens -> {"unused", "valid", "revoked", "gone"}]
          /\ \A t \in Tokens : status'[t] = status[t]
          /\ UNCHANGED <<session, password, loginOf, browser, refresh, login, logout, reset, snap, failures, history>>
      BY <1>5 DEF sessionVars, db, SessionsIInv, Base, Typed
    <2> QED
      BY <2>1, RowsGoneInv
  <1> QED
    BY <1>1, <1>2, <1>3, <1>4, <1>5 DEF SessionsNext

THEOREM SessionsInvariance == SessionsSpec => []SessionsIInv
  BY SessionsInitially, SessionsInductive, PTL DEF SessionsSpec

(* One usable token, rather than at most one, of a set. *)
LEMMA AtMostOne ==
  ASSUME NEW A, \A x, y \in A : x = y
  PROVE  Cardinality(A) <= 1
  <1>1. CASE A = {}
    BY <1>1, FS_EmptySet
  <1>2. CASE A # {}
    <2>1. PICK x \in A : TRUE
      BY <1>2
    <2>2. A = {x}
      BY <2>1
    <2> QED
      BY <2>2, FS_Singleton
  <1> QED
    BY <1>1, <1>2

LEMMA InvImpliesSessionInv == SessionsIInv => SessionInv
  <1> SUFFICES ASSUME SessionsIInv PROVE SessionInv
    OBVIOUS
  <1>1. SessionsTypeOK
    <2>1. \A f \in Fetches :
            /\ refresh[f].pc \in {"idle", "sent", "valid", "replayed", "revoking", "issued", "answered", "refused"}
            /\ {refresh[f].token, refresh[f].new} \subseteq 0..MaxTokens
      BY TokenFacts DEF SessionsIInv, Refreshes, RefreshSteps
    <2>2. \A l \in Logins : login[l].pc \in {"idle", "checked", "created"}
      BY DEF SessionsIInv, Base, Typed, LoginTries
    <2>3. \A b \in Tabs : promise[b] # None => refresh[promise[b]].pc # "idle"
      BY DEF SessionsIInv, Base, PromisesOK, Runs
    <2> QED
      BY <2>1, <2>2, <2>3 DEF SessionsTypeOK, SessionsIInv, Base, Typed
  <1>2. OneTokenPerSession
    <2> SUFFICES ASSUME NEW s \in Tokens \ disturbed PROVE Cardinality({t \in Valid : session[t] = s}) <= 1
      BY DEF OneTokenPerSession
    <2>1. \A x, y \in {t \in Valid : session[t] = s} : x = y
      BY DEF SessionsIInv, CleanInv, OneEach, Mine, Valid
    <2> QED
      BY <2>1, AtMostOne
  <1> QED
    BY <1>1, <1>2 DEF SessionInv

LEMMA InvImpliesCookieSurvives == SessionsIInv => CookieSurvives
  <1> SUFFICES ASSUME SessionsIInv, cookie # 0, session[cookie] \notin disturbed,
                      ~(status[cookie] \in {"valid", "gone"})
               PROVE  \E f \in Fetches : refresh[f].token = cookie /\ refresh[f].pc \in {"issued", "answered"}
    BY DEF CookieSurvives
  <1>1. PICK f \in Fetches : Clean(f) /\ SessionOf(f) = session[cookie]
    BY DEF SessionsIInv, CleanInv, CookieClean, Sound
  <1>2. refresh[f].token = cookie
    BY <1>1 DEF SessionsIInv, CleanInv, RefreshesClean
  <1>3. refresh[f].pc \in {"issued", "answered"}
    BY <1>1, <1>2 DEF SessionsIInv, CleanInv, RefreshesClean, Sound
  <1> QED
    BY <1>2, <1>3

(* However tabs, logins and revocations interleave, a session that was     *)
(* neither disturbed nor ended on purpose has one usable token.            *)
THEOREM SessionInvHolds == SessionsSpec => []SessionInv
  BY SessionsInvariance, InvImpliesSessionInv, PTL

(* The browser keeps a session that nobody disturbed (doRefresh, rotate).  *)
THEOREM CookieSurvivesHolds == SessionsSpec => []CookieSurvives
  BY SessionsInvariance, InvImpliesCookieSurvives, PTL

(* Nobody gets back into a session that was revoked, or in with the old    *)
(* password, but through what overlapped the revocation.                   *)
THEOREM RevokedStaysOutHolds == SessionsSpec => []RevokedStaysOut
  <1>1. SessionsIInv => RevokedStaysOut
    BY DEF SessionsIInv, OutInv
  <1> QED
    BY <1>1, SessionsInvariance, PTL
=============================================================================
