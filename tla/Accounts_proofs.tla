-------------------------- MODULE Accounts_proofs --------------------------
(* Users and their links by mail, for any number of addresses, overlapping *)
(* registrations and links, any pool and any number of failures.           *)
EXTENDS Accounts, Integers, FiniteSetTheorems, TLAPS

RegistrationSteps == {"idle", "hash", "slug", "workspace", "commit", "session"}
LinkSteps         == {"unused", "invalidate", "insert", "send", "mailed", "stray"}

Typed ==
    /\ registration \in [Registrations -> [step : RegistrationSteps, email : Emails \cup {None}, slug : Nat]]
    /\ link \in [Links -> [step : LinkSteps, email : Emails \cup {None}, kind : Kinds \cup {None}]]
    /\ faults \in 0..MaxFaults
    /\ verified \subseteq accounts /\ session \subseteq accounts /\ resetting \subseteq accounts
    /\ accounts \subseteq Emails /\ slugs \subseteq 0..Cardinality(Emails)
    /\ \A r \in Registrations : registration[r].slug <= Cardinality(Emails)

(* The user of a registration is inserted, and not committed. *)
Inside(r) == registration[r].step \in {"slug", "workspace", "commit"}

RegistrationOK ==
    /\ \A r \in Registrations :
          /\ ~At(r, "idle") => registration[r].email \in Emails
          /\ Inside(r) => registration[r].email \notin accounts
          /\ At(r, "session") => registration[r].email \in accounts
          /\ At(r, "commit") => registration[r].slug \notin slugs
          /\ \A k \in 0..Cardinality(Emails) : k < registration[r].slug => k \in slugs
    /\ \A r, o \in Registrations : r # o =>
          /\ Inside(r) /\ Inside(o) => registration[r].email # registration[o].email
          /\ At(r, "commit") /\ At(o, "commit") => registration[r].slug # registration[o].slug

(* Each account has a slug of its own. *)
SlugsCounted ==
    IsFiniteSet(accounts) /\ IsFiniteSet(slugs) /\ Cardinality(slugs) = Cardinality(accounts)

Making(l)  == link[l].step \in {"invalidate", "insert"}
Alike(l, o) == link[o].email = link[l].email /\ link[o].kind = link[l].kind
Overlapped(l) == <<link[l].email, link[l].kind>> \in overlapped

LinkOK ==
    /\ \A l \in Links :
          /\ link[l].step = "unused" => link[l] = NoLink
          /\ link[l].step # "unused" => link[l].email \in accounts /\ link[l].kind \in Kinds
    \* two that are made at once have overlapped, and one that is about to
    \* be inserted has no other of its kind beside it
    /\ \A l, o \in Links :
          Making(l) /\ Making(o) /\ Alike(l, o) /\ l # o => Overlapped(l)
    /\ \A l, o \in Links :
          link[l].step = "insert" /\ o \in Live /\ Alike(l, o) => Overlapped(l)
    /\ \A l, o \in Links :
          l \in Live /\ o \in Live /\ Alike(l, o) /\ l # o => Overlapped(l)

(* An account has a link to verify it, whoever is logged in. *)
HasLink(e) ==
    \/ \E l \in Links : link[l].email = e /\ link[l].kind = "verify"
    \/ \E r \in Registrations : At(r, "session") /\ registration[r].email = e

Reachable == \A e \in accounts \ (verified \cup lost) : HasLink(e)

IInv == Typed /\ RegistrationOK /\ SlugsCounted /\ LinkOK /\ Reachable

LEMMA InvImplied == IInv => AccountsInv /\ NobodyIsLockedOut
  <1> SUFFICES ASSUME IInv PROVE AccountsInv /\ NobodyIsLockedOut
    OBVIOUS
  <1>1. TypeOK
    <2>1. ASSUME NEW r \in Registrations
          PROVE  registration[r].step \in RegistrationSteps /\ registration[r].slug \in 0..Cardinality(Emails)
      BY AccountsAssumption, FS_CardinalityType DEF IInv, Typed
    <2>2. ASSUME NEW l \in Links
          PROVE  link[l].step \in LinkSteps /\ (link[l] = NoLink \/ link[l].kind \in Kinds)
      BY DEF IInv, Typed, LinkOK
    <2> QED
      BY <2>1, <2>2 DEF IInv, Typed, TypeOK, RegistrationSteps, LinkSteps
  <1>2. OneLiveLink
    BY DEF IInv, LinkOK, OneLiveLink, Like, Live, Alike, Overlapped
  <1>3. NobodyIsLockedOut
    BY DEF IInv, Reachable, HasLink, NobodyIsLockedOut
  <1> QED
    BY <1>1, <1>2, <1>3 DEF AccountsInv

LEMMA Initially == Init => IInv
  <1> SUFFICES ASSUME Init PROVE IInv
    OBVIOUS
  <1>1. IsFiniteSet({}) /\ Cardinality({}) = 0 /\ Cardinality(Emails) \in Nat
    BY AccountsAssumption, FS_EmptySet, FS_CardinalityType
  <1>2. Typed
    BY <1>1, AccountsAssumption DEF Init, Typed, NoReg, NoLink, RegistrationSteps, LinkSteps
  <1>3. RegistrationOK
    BY DEF Init, RegistrationOK, NoReg, At, Inside
  <1>4. SlugsCounted /\ Reachable
    BY <1>1 DEF Init, SlugsCounted, Reachable
  <1>5. LinkOK
    BY DEF Init, LinkOK, NoLink, Making, Live
  <1> QED
    BY <1>2, <1>3, <1>4, <1>5 DEF IInv

-----------------------------------------------------------------------------
(* Registrations *)

RegRecord  == [step : RegistrationSteps, email : Emails \cup {None}, slug : Nat]
LinkRecord == [step : LinkSteps, email : Emails \cup {None}, kind : Kinds \cup {None}]

LEMMA FaultTyped ==
    ASSUME IInv, UNCHANGED faults \/ Fault
    PROVE  faults' \in 0..MaxFaults
  BY AccountsAssumption DEF IInv, Typed, Fault

(* What becomes of the links alone, or of the requests alone.              *)
LEMMA LinksKept ==
    ASSUME IInv, UNCHANGED <<link, overlapped>>, accounts \subseteq accounts'
    PROVE  LinkOK'
  <1>1. \A l, o : Alike(l, o)' <=> Alike(l, o)
    BY DEF Alike
  <1>2. \A l : (Making(l)' <=> Making(l)) /\ (Overlapped(l)' <=> Overlapped(l))
    BY DEF Making, Overlapped
  <1>3. Live' = Live
    BY DEF Live
  <1> QED
    BY <1>1, <1>2, <1>3 DEF IInv, LinkOK

LEMMA RegistrationsKept ==
    ASSUME IInv, UNCHANGED <<registration, accounts, slugs>>
    PROVE  RegistrationOK' /\ SlugsCounted'
  <1>1. \A r \in Registrations : Inside(r)' <=> Inside(r)
    BY DEF Inside
  <1>2. \A r \in Registrations : \A x : At(r, x)' <=> At(r, x)
    BY DEF At
  <1>3. SlugsCounted'
    BY DEF IInv, SlugsCounted
  <1> QED
    BY <1>1, <1>2, <1>3 DEF IInv, RegistrationOK

(* A request goes on, or ends, and commits nothing.  Its record is new.    *)
LEMMA RegistrationStep ==
    ASSUME IInv, NEW r \in Registrations, NEW new \in RegRecord,
           registration' = [registration EXCEPT ![r] = new],
           UNCHANGED <<accounts, slugs, verified, resetting>>,
           session' \subseteq accounts, faults' \in 0..MaxFaults,
           link' \in [Links -> LinkRecord],
           new.slug <= Cardinality(Emails),
           \A k \in 0..Cardinality(Emails) : k < new.slug => k \in slugs,
           new.step # "idle" => new.email \in Emails,
           new.step \in {"slug", "workspace", "commit"} =>
              /\ new.email \notin accounts
              /\ \A o \in Registrations \ {r} : Inside(o) => registration[o].email # new.email,
           new.step = "session" => new.email \in accounts,
           new.step = "commit" =>
              /\ new.slug \notin slugs
              /\ \A o \in Registrations \ {r} : At(o, "commit") => registration[o].slug # new.slug
    PROVE  Typed' /\ RegistrationOK' /\ SlugsCounted'
  <1>1. registration \in [Registrations -> RegRecord]
    BY DEF IInv, Typed, RegRecord
  <1>2. registration' \in [Registrations -> RegRecord] /\ registration'[r] = new
        /\ \A o \in Registrations \ {r} : registration'[o] = registration[o]
    BY <1>1
  <1>3. Typed'
    BY <1>1, <1>2 DEF IInv, Typed, RegRecord, LinkRecord
  <1>4. \A o \in Registrations \ {r} : Inside(o)' <=> Inside(o)
    BY <1>2 DEF Inside
  <1>5. \A o \in Registrations \ {r} : \A x : At(o, x)' <=> At(o, x)
    BY <1>2 DEF At
  <1>6. /\ Inside(r)' <=> new.step \in {"slug", "workspace", "commit"}
        /\ \A x : At(r, x)' <=> new.step = x
    BY <1>2 DEF Inside, At
  <1>7. RegistrationOK'
    <2>1. ASSUME NEW o \in Registrations
          PROVE  /\ ~At(o, "idle")' => registration'[o].email \in Emails
                 /\ Inside(o)' => registration'[o].email \notin accounts'
                 /\ At(o, "session")' => registration'[o].email \in accounts'
                 /\ At(o, "commit")' => registration'[o].slug \notin slugs'
                 /\ \A k \in 0..Cardinality(Emails) : k < registration'[o].slug => k \in slugs'
      <3>1. CASE o = r
        BY <1>2, <1>6, <3>1
      <3>2. CASE o # r
        BY <1>2, <1>4, <1>5, <3>2 DEF IInv, RegistrationOK
      <3> QED
        BY <3>1, <3>2
    <2>2. ASSUME NEW q \in Registrations, NEW o \in Registrations, q # o
          PROVE  /\ Inside(q)' /\ Inside(o)' => registration'[q].email # registration'[o].email
                 /\ At(q, "commit")' /\ At(o, "commit")' => registration'[q].slug # registration'[o].slug
      <3>1. CASE q = r
        BY <1>2, <1>4, <1>5, <1>6, <2>2, <3>1
      <3>2. CASE o = r
        BY <1>2, <1>4, <1>5, <1>6, <2>2, <3>2
      <3>3. CASE q # r /\ o # r
        BY <1>2, <1>4, <1>5, <2>2, <3>3 DEF IInv, RegistrationOK
      <3> QED
        BY <3>1, <3>2, <3>3
    <2> QED
      BY <2>1, <2>2 DEF RegistrationOK
  <1>8. SlugsCounted'
    BY DEF IInv, SlugsCounted
  <1> QED
    BY <1>3, <1>7, <1>8

(* An account is reachable as long as what makes it so is kept. *)
LEMMA ReachableKept ==
    ASSUME IInv, accounts' = accounts, verified \subseteq verified', lost \subseteq lost',
           \A l \in Links : link[l].kind = "verify" =>
              \/ \E o \in Links : link'[o].email = link[l].email /\ link'[o].kind = "verify"
              \/ link[l].email \in verified' \cup lost',
           \A r \in Registrations : At(r, "session") =>
              \/ At(r, "session")' /\ registration'[r].email = registration[r].email
              \/ registration[r].email \in lost'
              \/ \E o \in Links : link'[o].email = registration[r].email /\ link'[o].kind = "verify"
    PROVE  Reachable'
  <1> SUFFICES ASSUME NEW e \in accounts, e \notin verified', e \notin lost'
               PROVE  HasLink(e)'
    BY DEF Reachable
  <1>1. HasLink(e)
    BY DEF IInv, Reachable
  <1>2. CASE \E l \in Links : link[l].email = e /\ link[l].kind = "verify"
    BY <1>2 DEF HasLink
  <1>3. CASE \E r \in Registrations : At(r, "session") /\ registration[r].email = e
    BY <1>3 DEF HasLink
  <1> QED
    BY <1>1, <1>2, <1>3 DEF HasLink

(* Between an insert and its commit the address is nobody's: a slug that   *)
(* is taken leaves one more to try.                                        *)
LEMMA SlugsLeft ==
    ASSUME IInv, NEW r \in Registrations, Inside(r), registration[r].slug \in slugs
    PROVE  registration[r].slug + 1 <= Cardinality(Emails)
  <1> DEFINE s == registration[r].slug
             e == registration[r].email
  <1>1. s \in Nat /\ Cardinality(Emails) \in Nat /\ IsFiniteSet(Emails)
    BY AccountsAssumption, FS_CardinalityType DEF IInv, Typed
  <1>2. 0..s \subseteq slugs
    <2> SUFFICES ASSUME NEW k \in 0..s, k # s PROVE k \in slugs
      OBVIOUS
    <2>1. k < s /\ k \in 0..Cardinality(Emails)
      BY <1>1 DEF IInv, Typed
    <2> QED
      BY <2>1 DEF IInv, RegistrationOK
  <1>3. Cardinality(0..s) = s + 1 /\ IsFiniteSet(0..s)
    <2>1. s \in Int /\ 0 \in Int
      BY <1>1
    <2>2. IsFiniteSet(0..s) /\ Cardinality(0..s) = IF 0 > s THEN 0 ELSE s - 0 + 1
      BY <2>1, FS_Interval
    <2> QED
      BY <1>1, <2>2
  <1>4. s + 1 <= Cardinality(slugs) /\ Cardinality(slugs) \in Nat /\ Cardinality(slugs) = Cardinality(accounts)
    <2>1. IsFiniteSet(slugs) /\ Cardinality(slugs) = Cardinality(accounts)
      BY DEF IInv, SlugsCounted
    <2>2. Cardinality(0..s) <= Cardinality(slugs) /\ Cardinality(slugs) \in Nat
      BY <1>2, <2>1, FS_Subset, FS_CardinalityType
    <2> QED
      BY <1>3, <2>1, <2>2
  <1>5. e \notin accounts /\ e \in Emails /\ accounts \subseteq Emails /\ IsFiniteSet(accounts)
    BY DEF IInv, RegistrationOK, Inside, At, Typed, SlugsCounted
  <1>6. Cardinality(accounts \cup {e}) = Cardinality(accounts) + 1
    BY <1>5, FS_AddElement
  <1>7. Cardinality(accounts \cup {e}) <= Cardinality(Emails)
    <2>1. accounts \cup {e} \subseteq Emails
      BY <1>5
    <2> QED
      BY <1>1, <2>1, FS_Subset
  <1> QED
    BY <1>1, <1>4, <1>6, <1>7

LEMMA GotoNew ==
    ASSUME IInv, NEW r \in Registrations, NEW x \in RegistrationSteps, Goto(r, x)
    PROVE  \E new \in RegRecord :
              /\ registration' = [registration EXCEPT ![r] = new]
              /\ new.step = x /\ new.email = registration[r].email /\ new.slug = registration[r].slug
  <1>1. PICK new : new = [registration[r] EXCEPT !.step = x]
    OBVIOUS
  <1>2. registration \in [Registrations -> RegRecord]
    BY DEF IInv, Typed, RegRecord
  <1>3. /\ new \in RegRecord /\ new.step = x /\ new.email = registration[r].email
        /\ new.slug = registration[r].slug
    BY <1>1, <1>2 DEF RegRecord
  <1>4. registration' = [registration EXCEPT ![r] = new]
    BY <1>1, <1>2 DEF Goto
  <1> QED
    BY <1>3, <1>4

LEMMA FinishedOK == NoReg \in RegRecord /\ NoReg.step = "idle" /\ NoReg.slug = 0
  BY DEF NoReg, RegRecord, RegistrationSteps

(* The numbers of slugs *)
LEMMA SlugTyped ==
    ASSUME IInv, NEW r \in Registrations
    PROVE  /\ registration[r] \in RegRecord /\ registration[r].slug \in Nat
           /\ Cardinality(Emails) \in Nat /\ 0 <= Cardinality(Emails)
           /\ registration[r].slug <= Cardinality(Emails)
           /\ session \subseteq accounts /\ link \in [Links -> LinkRecord]
           /\ \A k \in 0..Cardinality(Emails) : k < registration[r].slug => k \in slugs
  BY AccountsAssumption, FS_CardinalityType DEF IInv, Typed, RegRecord, LinkRecord, RegistrationOK

(* A request that goes on without a commit and does not touch the links.   *)
LEMMA RequestInv ==
    ASSUME IInv, NEW r \in Registrations, ~At(r, "session"),
           UNCHANGED <<accounts, slugs, verified, session, link, resetting, lost, overlapped>>,
           NEW new, registration' = [registration EXCEPT ![r] = new],
           Typed' /\ RegistrationOK' /\ SlugsCounted'
    PROVE  IInv'
  <1>1. registration \in [Registrations -> RegRecord]
    BY DEF IInv, Typed, RegRecord
  <1>2. \A o \in Registrations : At(o, "session") => At(o, "session")' /\ registration'[o].email = registration[o].email
    BY <1>1 DEF At
  <1>3. Reachable'
    BY <1>2, ReachableKept
  <1> QED
    BY <1>3, LinksKept DEF IInv

LEMMA RegisterInv ==
    ASSUME IInv, NEW r \in Registrations, NEW e \in Emails, Register(r, e)
    PROVE  IInv'
  <1>1. PICK new : new = [step |-> "hash", email |-> e, slug |-> 0]
    OBVIOUS
  <1>2. new \in RegRecord /\ new.step = "hash" /\ new.email = e /\ new.slug = 0
    BY <1>1 DEF RegRecord, RegistrationSteps
  <1>3. /\ ~At(r, "session") /\ registration' = [registration EXCEPT ![r] = new]
        /\ UNCHANGED <<accounts, slugs, verified, session, link, resetting, faults, lost, overlapped>>
    BY <1>1 DEF Register, At
  <1>4. \A k \in 0..Cardinality(Emails) : ~(k < 0)
    BY SlugTyped
  <1>5. Typed' /\ RegistrationOK' /\ SlugsCounted'
    BY <1>2, <1>3, <1>4, SlugTyped, FaultTyped, RegistrationStep
  <1> QED
    BY <1>3, <1>5, RequestInv

LEMMA FinishInv ==
    ASSUME IInv, NEW r \in Registrations, Finish(r), ~At(r, "session"), faults' \in 0..MaxFaults,
           UNCHANGED <<accounts, slugs, verified, session, link, resetting, lost, overlapped>>
    PROVE  IInv'
  <1>1. PICK new : new = NoReg
    OBVIOUS
  <1>2. new \in RegRecord /\ new.step = "idle" /\ new.slug = 0 /\ registration' = [registration EXCEPT ![r] = new]
    BY <1>1, FinishedOK DEF Finish
  <1>3. \A k \in 0..Cardinality(Emails) : ~(k < 0)
    BY SlugTyped
  <1>4. Typed' /\ RegistrationOK' /\ SlugsCounted'
    BY <1>2, <1>3, SlugTyped, RegistrationStep
  <1> QED
    BY <1>2, <1>4, RequestInv

LEMMA InsertUserInv == ASSUME IInv, NEW r \in Registrations, InsertUser(r) PROVE IInv'
  <1>1. /\ At(r, "hash")
        /\ \A o \in Registrations \ {r} :
              registration[o].email = registration[r].email => registration[o].step \in {"hash", "session"}
        /\ UNCHANGED <<accounts, slugs, verified, session, link, resetting, faults, lost, overlapped>>
        /\ ~At(r, "session")
    BY DEF InsertUser, At
  <1>2. CASE registration[r].email \in accounts
    BY <1>1, <1>2, FinishInv, FaultTyped DEF InsertUser
  <1>3. CASE registration[r].email \notin accounts
    <2>1. PICK new \in RegRecord :
             /\ registration' = [registration EXCEPT ![r] = new]
             /\ new.step = "slug" /\ new.email = registration[r].email /\ new.slug = registration[r].slug
      BY <1>3, GotoNew DEF InsertUser, RegistrationSteps
    <2>2. new.email \in Emails
      BY <1>1, <2>1 DEF IInv, RegistrationOK, At
    <2>3. \A o \in Registrations \ {r} : Inside(o) => registration[o].email # new.email
      BY <1>1, <2>1 DEF Inside
    <2>4. Typed' /\ RegistrationOK' /\ SlugsCounted'
      BY <1>1, <1>3, <2>1, <2>2, <2>3, SlugTyped, FaultTyped, RegistrationStep
    <2> QED
      BY <1>1, <2>1, <2>4, RequestInv
  <1> QED
    BY <1>2, <1>3

(* What holds of a request that is inside *)
LEMMA InsideFacts ==
    ASSUME IInv, NEW r \in Registrations, Inside(r)
    PROVE  /\ registration[r].email \in Emails /\ registration[r].email \notin accounts
           /\ \A o \in Registrations \ {r} : Inside(o) => registration[o].email # registration[r].email
           /\ ~At(r, "session")
  BY DEF IInv, RegistrationOK, Inside, At

LEMMA TrySlugInv == ASSUME IInv, NEW r \in Registrations, TrySlug(r) PROVE IInv'
  <1>1. /\ Inside(r) /\ registration[r].step = "slug"
        /\ UNCHANGED <<accounts, slugs, verified, session, link, resetting, faults, lost, overlapped>>
    BY DEF TrySlug, At, Inside
  <1>2. PICK new \in RegRecord :
           /\ registration' = [registration EXCEPT ![r] = new]
           /\ new.email = registration[r].email
           /\ \/ /\ registration[r].slug \in slugs /\ new.step = "slug"
                 /\ new.slug = registration[r].slug + 1
              \/ /\ registration[r].slug \notin slugs /\ new.step = "workspace"
                 /\ new.slug = registration[r].slug
    <2>1. CASE registration[r].slug \in slugs
      <3>1. PICK new : new = [registration[r] EXCEPT !.slug = registration[r].slug + 1]
        OBVIOUS
      <3>2. /\ new \in RegRecord /\ new.step = "slug" /\ new.email = registration[r].email
            /\ new.slug = registration[r].slug + 1
        BY <1>1, <3>1, SlugTyped DEF RegRecord
      <3>3. registration' = [registration EXCEPT ![r] = new]
        BY <2>1, <3>1 DEF TrySlug, IInv, Typed
      <3> QED
        BY <2>1, <3>2, <3>3
    <2>2. CASE registration[r].slug \notin slugs
      BY <2>2, GotoNew DEF TrySlug, RegistrationSteps
    <2> QED
      BY <2>1, <2>2
  <1>3. new.slug <= Cardinality(Emails) /\ \A k \in 0..Cardinality(Emails) : k < new.slug => k \in slugs
    <2>1. CASE registration[r].slug \in slugs
      BY <1>1, <1>2, <2>1, SlugTyped, SlugsLeft
    <2>2. CASE registration[r].slug \notin slugs
      BY <1>2, <2>2, SlugTyped
    <2> QED
      BY <2>1, <2>2
  <1>4. new.email \in Emails /\ new.email \notin accounts /\ new.step \in {"slug", "workspace"}
        /\ \A o \in Registrations \ {r} : Inside(o) => registration[o].email # new.email
    BY <1>1, <1>2, InsideFacts
  <1>5. Typed' /\ RegistrationOK' /\ SlugsCounted'
    BY <1>1, <1>2, <1>3, <1>4, SlugTyped, FaultTyped, RegistrationStep
  <1> QED
    BY <1>1, <1>2, <1>5, InsideFacts, RequestInv

LEMMA InsertWorkspaceInv == ASSUME IInv, NEW r \in Registrations, InsertWorkspace(r) PROVE IInv'
  <1>1. /\ Inside(r)
        /\ \A o \in Registrations \ {r} : ~(At(o, "commit") /\ registration[o].slug = registration[r].slug)
        /\ UNCHANGED <<accounts, slugs, verified, session, link, resetting, faults, lost, overlapped>>
    BY DEF InsertWorkspace, At, Inside
  <1>2. CASE registration[r].slug \in slugs
    BY <1>1, <1>2, FinishInv, FaultTyped, InsideFacts DEF InsertWorkspace
  <1>3. CASE registration[r].slug \notin slugs
    <2>1. PICK new \in RegRecord :
             /\ registration' = [registration EXCEPT ![r] = new]
             /\ new.step = "commit" /\ new.email = registration[r].email /\ new.slug = registration[r].slug
      BY <1>3, GotoNew DEF InsertWorkspace, RegistrationSteps
    <2>2. new.email \in Emails /\ new.email \notin accounts
          /\ \A o \in Registrations \ {r} : Inside(o) => registration[o].email # new.email
      BY <1>1, <2>1, InsideFacts
    <2>3. Typed' /\ RegistrationOK' /\ SlugsCounted'
      BY <1>1, <1>3, <2>1, <2>2, SlugTyped, FaultTyped, RegistrationStep
    <2> QED
      BY <1>1, <2>1, <2>3, InsideFacts, RequestInv
  <1> QED
    BY <1>2, <1>3

LEMMA RegistrationFailsInv == ASSUME IInv, NEW r \in Registrations, RegistrationFails(r) PROVE IInv'
  <1>1. ~At(r, "session")
    BY DEF RegistrationFails, At
  <1> QED
    BY <1>1, FinishInv, FaultTyped DEF RegistrationFails

(* The commit makes an account, with a slug that no other account has.     *)
LEMMA CommitInv == ASSUME IInv, NEW r \in Registrations, Commit(r) PROVE IInv'
  <1> DEFINE e == registration[r].email
             s == registration[r].slug
  <1>1. PICK new \in RegRecord :
           /\ registration' = [registration EXCEPT ![r] = new]
           /\ new.step = "session" /\ new.email = e /\ new.slug = s
    BY GotoNew DEF Commit, RegistrationSteps
  <1>2. /\ accounts' = accounts \cup {e} /\ slugs' = slugs \cup {s}
        /\ UNCHANGED <<verified, session, link, resetting, faults, lost, overlapped>>
        /\ Inside(r) /\ At(r, "commit")
    BY DEF Commit, At, Inside
  <1>3. e \in Emails /\ e \notin accounts /\ s \notin slugs
        /\ \A o \in Registrations \ {r} : Inside(o) => registration[o].email # e
    BY <1>2, InsideFacts DEF IInv, RegistrationOK
  <1>4. \A o \in Registrations \ {r} : At(o, "commit") => registration[o].slug # s
    BY <1>2 DEF IInv, RegistrationOK
  <1>5. registration \in [Registrations -> RegRecord]
    BY DEF IInv, Typed, RegRecord
  <1>6. registration' \in [Registrations -> RegRecord] /\ registration'[r] = new
        /\ \A o \in Registrations \ {r} : registration'[o] = registration[o]
    BY <1>1, <1>5
  <1>7. Typed'
    <2>1. s \in 0..Cardinality(Emails)
      BY SlugTyped
    <2>2. \A o \in Registrations : registration'[o].slug <= Cardinality(Emails)
      BY <1>1, <1>6, SlugTyped
    <2> QED
      BY <1>2, <1>3, <1>6, <2>1, <2>2 DEF IInv, Typed, RegRecord
  <1>8. \A o \in Registrations \ {r} : (Inside(o)' <=> Inside(o)) /\ \A x : At(o, x)' <=> At(o, x)
    BY <1>6 DEF Inside, At
  <1>9. ~Inside(r)' /\ \A x : At(r, x)' <=> x = "session"
    BY <1>1, <1>6 DEF Inside, At
  <1>10. RegistrationOK'
    <2>1. ASSUME NEW o \in Registrations
          PROVE  /\ ~At(o, "idle")' => registration'[o].email \in Emails
                 /\ Inside(o)' => registration'[o].email \notin accounts'
                 /\ At(o, "session")' => registration'[o].email \in accounts'
                 /\ At(o, "commit")' => registration'[o].slug \notin slugs'
                 /\ \A k \in 0..Cardinality(Emails) : k < registration'[o].slug => k \in slugs'
      <3>1. CASE o = r
        BY <1>1, <1>2, <1>3, <1>6, <1>9, <3>1, SlugTyped
      <3>2. CASE o # r
        BY <1>2, <1>3, <1>4, <1>6, <1>8, <3>2 DEF IInv, RegistrationOK
      <3> QED
        BY <3>1, <3>2
    <2>2. ASSUME NEW q \in Registrations, NEW o \in Registrations, q # o
          PROVE  /\ Inside(q)' /\ Inside(o)' => registration'[q].email # registration'[o].email
                 /\ At(q, "commit")' /\ At(o, "commit")' => registration'[q].slug # registration'[o].slug
      <3>1. CASE q = r \/ o = r
        BY <1>9, <3>1
      <3>2. CASE q # r /\ o # r
        BY <1>6, <1>8, <2>2, <3>2 DEF IInv, RegistrationOK
      <3> QED
        BY <3>1, <3>2
    <2> QED
      BY <2>1, <2>2 DEF RegistrationOK
  <1>11. SlugsCounted'
    <2>1. IsFiniteSet(accounts) /\ IsFiniteSet(slugs) /\ Cardinality(slugs) = Cardinality(accounts)
      BY DEF IInv, SlugsCounted
    <2>2. IsFiniteSet(accounts \cup {e}) /\ Cardinality(accounts \cup {e}) = Cardinality(accounts) + 1
      BY <1>3, <2>1, FS_AddElement
    <2>3. IsFiniteSet(slugs \cup {s}) /\ Cardinality(slugs \cup {s}) = Cardinality(slugs) + 1
      BY <1>3, <2>1, FS_AddElement
    <2> QED
      BY <1>2, <2>1, <2>2, <2>3 DEF SlugsCounted
  <1>12. LinkOK'
    BY <1>2, LinksKept
  <1>13. Reachable'
    <2> SUFFICES ASSUME NEW a \in accounts', a \notin verified, a \notin lost
                 PROVE  HasLink(a)'
      BY <1>2 DEF Reachable
    <2>1. CASE a = e
      BY <1>1, <1>6, <1>9, <2>1 DEF HasLink
    <2>2. CASE a # e
      <3>1. HasLink(a)
        BY <1>2, <2>2 DEF IInv, Reachable
      <3>2. CASE \E l \in Links : link[l].email = a /\ link[l].kind = "verify"
        BY <1>2, <3>2 DEF HasLink
      <3>3. CASE \E o \in Registrations : At(o, "session") /\ registration[o].email = a
        <4>1. PICK o \in Registrations : At(o, "session") /\ registration[o].email = a
          BY <3>3
        <4>2. o # r
          BY <1>2, <4>1 DEF At
        <4> QED
          BY <1>6, <1>8, <4>1, <4>2 DEF HasLink
      <3> QED
        BY <3>1, <3>2, <3>3 DEF HasLink
    <2> QED
      BY <2>1, <2>2
  <1> QED
    BY <1>7, <1>10, <1>11, <1>12, <1>13 DEF IInv

-----------------------------------------------------------------------------
(* The links *)

(* A link that is started is one that was unused. *)
LEMMA StartLinkOK ==
    ASSUME IInv, NEW e \in accounts, NEW k \in Kinds, StartLink(e, k), accounts' = accounts
    PROVE  /\ link' \in [Links -> LinkRecord] /\ LinkOK'
           /\ \A l \in Links : link[l].kind = "verify" => link'[l] = link[l]
           /\ \E l \in Links : link'[l].email = e /\ link'[l].kind = k
  <1>1. PICK l \in Links : link[l] = NoLink /\ link' = [link EXCEPT ![l] = [step |-> "invalidate", email |-> e, kind |-> k]]
    BY DEF StartLink
  <1>2. overlapped' = overlapped \cup
         {<<e, k>> : o \in {o \in Links : /\ link[o].email = e /\ link[o].kind = k
                                          /\ link[o].step \in {"invalidate", "insert"}}}
    BY DEF StartLink
  <1>3. PICK new : new = [step |-> "invalidate", email |-> e, kind |-> k]
    OBVIOUS
  <1>4. /\ new \in LinkRecord /\ new.step = "invalidate" /\ new.email = e /\ new.kind = k
        /\ link' = [link EXCEPT ![l] = new] /\ link \in [Links -> LinkRecord]
    BY <1>1, <1>3 DEF LinkRecord, LinkSteps, IInv, Typed
  <1>5. /\ link' \in [Links -> LinkRecord] /\ link'[l] = new
        /\ \A o \in Links \ {l} : link'[o] = link[o]
    BY <1>4
  <1>6. overlapped \subseteq overlapped'
    BY <1>2
  <1>7. ASSUME NEW o \in Links, o # l, Making(o)', Alike(l, o)'
        PROVE  <<e, k>> \in overlapped'
    BY <1>2, <1>4, <1>5, <1>7 DEF Making, Alike
  <1>8. /\ Making(l)' /\ l \notin Live' /\ (Overlapped(l)' <=> <<e, k>> \in overlapped')
        /\ \A o \in Links \ {l} : /\ Making(o)' <=> Making(o)
                                  /\ o \in Live' <=> o \in Live
                                  /\ Overlapped(o) => Overlapped(o)'
    BY <1>4, <1>5, <1>6 DEF Making, Live, Overlapped
  <1>9. \A o, q \in Links \ {l} : Alike(o, q)' <=> Alike(o, q)
    BY <1>5 DEF Alike
  <1>10. LinkOK'
    <2>1. \A o \in Links :
             /\ link'[o].step = "unused" => link'[o] = NoLink
             /\ link'[o].step # "unused" => link'[o].email \in accounts' /\ link'[o].kind \in Kinds
      BY <1>4, <1>5 DEF IInv, LinkOK
    <2>2. ASSUME NEW o \in Links, NEW q \in Links, Making(o)', Making(q)', Alike(o, q)', o # q
          PROVE  Overlapped(o)'
      <3>1. CASE o = l
        BY <1>7, <1>8, <2>2, <3>1
      <3>2. CASE q = l
        <4>1. Alike(l, o)' /\ link'[o].email = e /\ link'[o].kind = k
          BY <1>4, <1>5, <2>2, <3>2 DEF Alike
        <4> QED
          BY <1>7, <2>2, <3>2, <4>1 DEF Overlapped
      <3>3. CASE o # l /\ q # l
        BY <1>8, <1>9, <2>2, <3>3 DEF IInv, LinkOK
      <3> QED
        BY <3>1, <3>2, <3>3
    <2>3. ASSUME NEW o \in Links, NEW q \in Links, link'[o].step = "insert", q \in Live', Alike(o, q)'
          PROVE  Overlapped(o)'
      <3>1. o # l /\ q # l
        BY <1>4, <1>5, <1>8, <2>3
      <3>2. link[o].step = "insert" /\ q \in Live /\ Alike(o, q)
        BY <1>5, <1>8, <1>9, <2>3, <3>1
      <3> QED
        BY <1>8, <3>1, <3>2 DEF IInv, LinkOK
    <2>4. ASSUME NEW o \in Links, NEW q \in Links, o \in Live', q \in Live', Alike(o, q)', o # q
          PROVE  Overlapped(o)'
      BY <1>8, <1>9, <2>4 DEF IInv, LinkOK
    <2> QED
      BY <2>1, <2>2, <2>3, <2>4 DEF LinkOK
  <1>11. \A o \in Links : link[o].kind = "verify" => link'[o] = link[o]
    <2>1. link[l].kind # "verify"
      BY <1>1 DEF NoLink, None
    <2> QED
      BY <1>5, <2>1
  <1> QED
    BY <1>4, <1>5, <1>10, <1>11

(* A request ends with its commit behind it.                               *)
LEMMA EndRequest ==
    ASSUME IInv, NEW r \in Registrations, At(r, "session"), Finish(r),
           UNCHANGED <<accounts, slugs, verified, resetting>>, session' \subseteq accounts,
           faults' \in 0..MaxFaults, link' \in [Links -> LinkRecord], LinkOK', lost \subseteq lost',
           \A l \in Links : link[l].kind = "verify" => link'[l] = link[l],
           \/ registration[r].email \in lost'
           \/ \E l \in Links : link'[l].email = registration[r].email /\ link'[l].kind = "verify"
    PROVE  IInv'
  <1>1. PICK new : new = NoReg
    OBVIOUS
  <1>2. new \in RegRecord /\ new.step = "idle" /\ new.slug = 0 /\ registration' = [registration EXCEPT ![r] = new]
    BY <1>1, FinishedOK DEF Finish
  <1>3. \A k \in 0..Cardinality(Emails) : ~(k < 0)
    BY SlugTyped
  <1>4. Typed' /\ RegistrationOK' /\ SlugsCounted'
    BY <1>2, <1>3, SlugTyped, RegistrationStep
  <1>5. \A o \in Registrations \ {r} : At(o, "session") => At(o, "session")' /\ registration'[o].email = registration[o].email
    BY <1>2 DEF At, IInv, Typed
  <1>6. Reachable'
    BY <1>5, ReachableKept
  <1> QED
    BY <1>4, <1>6 DEF IInv

LEMMA CreateSessionInv == ASSUME IInv, NEW r \in Registrations, CreateSession(r) PROVE IInv'
  <1>1. /\ At(r, "session") /\ Finish(r) /\ StartLink(registration[r].email, "verify")
        /\ session' = session \cup {registration[r].email}
        /\ UNCHANGED <<accounts, slugs, verified, resetting, faults, lost>>
    BY DEF CreateSession
  <1>2. registration[r].email \in accounts /\ "verify" \in Kinds
    BY <1>1 DEF IInv, RegistrationOK, Kinds
  <1>3. /\ link' \in [Links -> LinkRecord] /\ LinkOK'
        /\ \A l \in Links : link[l].kind = "verify" => link'[l] = link[l]
        /\ \E l \in Links : link'[l].email = registration[r].email /\ link'[l].kind = "verify"
    BY <1>1, <1>2, StartLinkOK
  <1>4. session' \subseteq accounts /\ faults' \in 0..MaxFaults
    BY <1>1, <1>2, SlugTyped, FaultTyped
  <1> QED
    BY <1>1, <1>3, <1>4, EndRequest

LEMMA CreateSessionFailsInv == ASSUME IInv, NEW r \in Registrations, CreateSessionFails(r) PROVE IInv'
  <1>1. /\ At(r, "session") /\ Finish(r) /\ (UNCHANGED faults \/ Fault)
        /\ lost' = lost \cup {registration[r].email}
        /\ UNCHANGED <<accounts, slugs, verified, session, link, resetting, overlapped>>
    BY DEF CreateSessionFails, QueryFails, Lose
  <1>2. LinkOK' /\ faults' \in 0..MaxFaults
    BY <1>1, LinksKept, FaultTyped
  <1> QED
    BY <1>1, <1>2, SlugTyped, EndRequest

(* A step that leaves the registrations alone.                             *)
LEMMA LinkInv ==
    ASSUME IInv, UNCHANGED <<registration, accounts, slugs>>, faults' \in 0..MaxFaults,
           verified \subseteq verified', verified' \subseteq accounts,
           session' \subseteq accounts, resetting' \subseteq accounts, lost \subseteq lost',
           link' \in [Links -> LinkRecord], LinkOK',
           \A l \in Links : link[l].kind = "verify" =>
              \/ \E o \in Links : link'[o].email = link[l].email /\ link'[o].kind = "verify"
              \/ link[l].email \in verified' \cup lost'
    PROVE  IInv'
  <1>1. Typed'
    BY DEF IInv, Typed, LinkRecord
  <1>2. \A r \in Registrations : At(r, "session") => At(r, "session")' /\ registration'[r].email = registration[r].email
    BY DEF At
  <1>3. Reachable'
    BY <1>2, ReachableKept
  <1> QED
    BY <1>1, <1>3, RegistrationsKept DEF IInv

LEMMA StartInv ==
    ASSUME IInv, NEW e \in Emails, Resend(e) \/ RequestReset(e)
    PROVE  IInv'
  <1>1. PICK k \in Kinds : e \in accounts /\ StartLink(e, k)
    BY SlugTyped DEF Resend, RequestReset, Kinds, IInv, Typed
  <1>2. UNCHANGED <<accounts, slugs, verified, session, registration, resetting, faults, lost>>
    BY DEF Resend, RequestReset
  <1>3. /\ link' \in [Links -> LinkRecord] /\ LinkOK'
        /\ \A l \in Links : link[l].kind = "verify" => link'[l] = link[l]
    BY <1>1, <1>2, StartLinkOK
  <1> QED
    BY <1>2, <1>3, FaultTyped, LinkInv DEF IInv, Typed

(* A step that starts no link, and makes none live but those it names.     *)
LEMMA LinksNarrowed ==
    ASSUME IInv, UNCHANGED <<accounts, overlapped>>,
           \A o \in Links :
              \/ link'[o] = NoLink
              \/ /\ link'[o].email = link[o].email /\ link'[o].kind = link[o].kind
                 /\ link[o].step # "unused" /\ link'[o].step # "unused"
                 /\ Making(o)' => Making(o)
                 /\ link'[o].step = "insert" =>
                       \/ link[o].step = "insert"
                       \/ \A q \in Links : q \in Live' /\ Alike(o, q)' => Overlapped(o)
                 /\ o \in Live' =>
                       \/ o \in Live
                       \/ link[o].step = "insert"
    PROVE  LinkOK'
  <1>1. \A o \in Links : link'[o] = NoLink => ~Making(o)' /\ o \notin Live' /\ link'[o].step = "unused"
    BY DEF NoLink, Making, Live
  <1>2. \A o, q \in Links :
           link'[o] # NoLink /\ link'[q] # NoLink =>
              (Alike(o, q)' <=> Alike(o, q)) /\ (Overlapped(o)' <=> Overlapped(o))
    BY DEF Alike, Overlapped
  <1>3. \A o, q \in Links : Alike(o, q) => Alike(q, o) /\ (Overlapped(o) <=> Overlapped(q))
    BY DEF Alike, Overlapped
  <1>4. LinkOK
    BY DEF IInv
  <1>5. \A o \in Links :
           /\ link'[o].step = "unused" => link'[o] = NoLink
           /\ link'[o].step # "unused" => link'[o].email \in accounts' /\ link'[o].kind \in Kinds
    BY <1>1, <1>4 DEF LinkOK
  <1>6. ASSUME NEW o \in Links, NEW q \in Links, Making(o)', Making(q)', Alike(o, q)', o # q
        PROVE  Overlapped(o)'
    BY <1>1, <1>2, <1>4, <1>6 DEF LinkOK
  <1>7. ASSUME NEW o \in Links, NEW q \in Links, link'[o].step = "insert", q \in Live', Alike(o, q)'
        PROVE  Overlapped(o)'
    <2>1. link'[o] # NoLink /\ link'[q] # NoLink /\ Alike(o, q) /\ o # q
      BY <1>1, <1>2, <1>7 DEF NoLink, Live
    <2>2. link[o].step = "insert" \/ Overlapped(o)
      BY <1>7, <2>1
    <2>3. link[o].step = "insert" /\ q \in Live => Overlapped(o)
      BY <1>4, <2>1 DEF LinkOK
    <2>4. link[o].step = "insert" /\ link[q].step = "insert" => Overlapped(o)
      BY <1>4, <2>1 DEF LinkOK, Making
    <2>5. q \in Live \/ link[q].step = "insert"
      BY <1>7, <2>1
    <2> QED
      BY <1>2, <2>1, <2>2, <2>3, <2>4, <2>5
  <1>8. ASSUME NEW o \in Links, NEW q \in Links, o \in Live', q \in Live', Alike(o, q)', o # q
        PROVE  Overlapped(o)'
    <2>1. link'[o] # NoLink /\ link'[q] # NoLink /\ Alike(o, q) /\ Alike(q, o)
      BY <1>1, <1>2, <1>3, <1>8
    <2>2. (o \in Live \/ link[o].step = "insert") /\ (q \in Live \/ link[q].step = "insert")
      BY <1>8, <2>1
    <2>3. Overlapped(o)
      <3>1. CASE o \in Live /\ q \in Live
        BY <1>4, <1>8, <2>1, <3>1 DEF LinkOK
      <3>2. CASE link[o].step = "insert" /\ q \in Live
        BY <1>4, <2>1, <3>2 DEF LinkOK
      <3>3. CASE o \in Live /\ link[q].step = "insert"
        BY <1>3, <1>4, <2>1, <3>3 DEF LinkOK
      <3>4. CASE link[o].step = "insert" /\ link[q].step = "insert"
        BY <1>4, <1>8, <2>1, <3>4 DEF LinkOK, Making
      <3> QED
        BY <2>2, <3>1, <3>2, <3>3, <3>4
    <2> QED
      BY <1>2, <2>1, <2>3
  <1> QED
    BY <1>5, <1>6, <1>7, <1>8 DEF LinkOK

(* A link goes on to a step x, as the maker or the mail has it.            *)
LEMMA LinkGoesOn ==
    ASSUME IInv, NEW l \in Links, NEW x \in {"send", "mailed", "stray"},
           \/ link[l].step = "insert"
           \/ l \in Live,
           link' = [link EXCEPT ![l].step = x], UNCHANGED <<accounts, overlapped>>
    PROVE  /\ link' \in [Links -> LinkRecord] /\ LinkOK'
           /\ \A o \in Links : link'[o].email = link[o].email /\ link'[o].kind = link[o].kind
  <1>1. PICK new : new = [link[l] EXCEPT !.step = x]
    OBVIOUS
  <1>2. link \in [Links -> LinkRecord] /\ x \in LinkSteps
    BY DEF IInv, Typed, LinkRecord, LinkSteps
  <1>3. new \in LinkRecord /\ new.step = x /\ new.email = link[l].email /\ new.kind = link[l].kind
    BY <1>1, <1>2 DEF LinkRecord
  <1>4. /\ link' \in [Links -> LinkRecord] /\ link'[l] = new
        /\ \A o \in Links \ {l} : link'[o] = link[o]
    BY <1>1, <1>2, <1>3
  <1>5. \A o \in Links : link[o].step = "unused" => link[o] = NoLink
    BY DEF IInv, LinkOK
  <1>6. \A o \in Links \ {l} : (Making(o)' <=> Making(o)) /\ (o \in Live' <=> o \in Live)
    BY <1>4 DEF Making, Live
  <1>7. ~Making(l)' /\ link[l].step # "unused"
    BY <1>3, <1>4 DEF Making, Live
  <1>8. LinkOK'
    <2>1. ASSUME NEW o \in Links
          PROVE  \/ link'[o] = NoLink
                 \/ /\ link'[o].email = link[o].email /\ link'[o].kind = link[o].kind
                    /\ link[o].step # "unused" /\ link'[o].step # "unused"
                    /\ Making(o)' => Making(o)
                    /\ link'[o].step = "insert" => link[o].step = "insert"
                    /\ o \in Live' => o \in Live \/ link[o].step = "insert"
      <3>1. CASE o = l
        BY <1>3, <1>4, <1>7, <3>1
      <3>2. CASE o # l
        BY <1>4, <1>5, <1>6, <3>2
      <3> QED
        BY <3>1, <3>2
    <2> QED
      BY <2>1, LinksNarrowed
  <1> QED
    BY <1>3, <1>4, <1>8

(* A link is used up, or comes to nothing.                                 *)
LEMMA LinkGone ==
    ASSUME IInv, NEW l \in Links, link' = [link EXCEPT ![l] = NoLink], UNCHANGED <<accounts, overlapped>>
    PROVE  /\ link' \in [Links -> LinkRecord] /\ LinkOK'
           /\ \A o \in Links \ {l} : link'[o] = link[o]
  <1>1. link \in [Links -> LinkRecord] /\ NoLink \in LinkRecord
    BY DEF IInv, Typed, LinkRecord, LinkSteps, NoLink
  <1>2. /\ link' \in [Links -> LinkRecord] /\ link'[l] = NoLink
        /\ \A o \in Links \ {l} : link'[o] = link[o]
    BY <1>1
  <1>3. \A o \in Links : link[o].step = "unused" => link[o] = NoLink
    BY DEF IInv, LinkOK
  <1>4. \A o \in Links \ {l} : (Making(o)' <=> Making(o)) /\ (o \in Live' <=> o \in Live)
    BY <1>2 DEF Making, Live
  <1>5. LinkOK'
    BY <1>2, <1>3, <1>4, LinksNarrowed
  <1> QED
    BY <1>2, <1>5

LEMMA InvalidateInv == ASSUME IInv, NEW l \in Links, Invalidate(l) PROVE IInv'
  <1>1. /\ link[l].step = "invalidate"
        /\ link' = [o \in Links |->
                      IF o = l THEN [link[l] EXCEPT !.step = "insert"]
                      ELSE IF o \in Like(l) THEN NoLink ELSE link[o]]
        /\ UNCHANGED <<accounts, slugs, verified, session, registration, resetting, faults, lost, overlapped>>
    BY DEF Invalidate
  <1>2. PICK new : new = [link[l] EXCEPT !.step = "insert"]
    OBVIOUS
  <1>3. link \in [Links -> LinkRecord] /\ NoLink \in LinkRecord
    BY DEF IInv, Typed, LinkRecord, LinkSteps, NoLink
  <1>4. new \in LinkRecord /\ new.step = "insert" /\ new.email = link[l].email /\ new.kind = link[l].kind
    BY <1>2, <1>3 DEF LinkRecord, LinkSteps
  <1>5. /\ link' \in [Links -> LinkRecord] /\ link'[l] = new
        /\ \A o \in Links \ {l} : link'[o] = IF o \in Like(l) THEN NoLink ELSE link[o]
    BY <1>1, <1>2, <1>3, <1>4
  <1>6. \A o \in Links : link[o].step = "unused" => link[o] = NoLink
    BY DEF IInv, LinkOK
  <1>7. Making(l) /\ l \notin Live'
    BY <1>1, <1>4, <1>5 DEF Making, Live
  <1>8. \A o \in Links \ {l} : link'[o] = link[o] => (Making(o)' <=> Making(o)) /\ (o \in Live' <=> o \in Live)
    BY <1>5 DEF Making, Live
  <1>9. \A q \in Links : ~(q \in Live' /\ Alike(l, q)')
    <2> SUFFICES ASSUME NEW q \in Links, q \in Live', Alike(l, q)' PROVE FALSE
      OBVIOUS
    <2>1. q # l
      BY <1>7
    <2>2. link'[q] # NoLink
      BY DEF NoLink, Live
    <2>3. link'[q] = link[q] /\ q \notin Like(l) /\ q \in Live
      BY <1>5, <1>8, <2>1, <2>2
    <2>4. link[q].email = link[l].email /\ link[q].kind = link[l].kind
      BY <1>4, <1>5, <2>3 DEF Alike
    <2> QED
      BY <2>3, <2>4 DEF Like
  <1>10. LinkOK'
    <2>1. ASSUME NEW o \in Links
          PROVE  \/ link'[o] = NoLink
                 \/ /\ link'[o].email = link[o].email /\ link'[o].kind = link[o].kind
                    /\ link[o].step # "unused" /\ link'[o].step # "unused"
                    /\ Making(o)' => Making(o)
                    /\ link'[o].step = "insert" =>
                          \/ link[o].step = "insert"
                          \/ \A q \in Links : q \in Live' /\ Alike(o, q)' => Overlapped(o)
                    /\ o \in Live' => o \in Live \/ link[o].step = "insert"
      <3>1. CASE o = l
        BY <1>1, <1>4, <1>5, <1>7, <1>9, <3>1
      <3>2. CASE o # l
        BY <1>5, <1>6, <1>8, <3>2
      <3> QED
        BY <3>1, <3>2
    <2> QED
      BY <1>1, <2>1, LinksNarrowed
  <1>11. \A o \in Links : link[o].kind = "verify" =>
            \E q \in Links : link'[q].email = link[o].email /\ link'[q].kind = "verify"
    <2> SUFFICES ASSUME NEW o \in Links, link[o].kind = "verify"
                 PROVE  \E q \in Links : link'[q].email = link[o].email /\ link'[q].kind = "verify"
      OBVIOUS
    <2>1. CASE o = l \/ o \in Like(l)
      BY <1>4, <1>5, <2>1 DEF Like
    <2>2. CASE o # l /\ o \notin Like(l)
      BY <1>5, <2>2
    <2> QED
      BY <2>1, <2>2
  <1> QED
    BY <1>1, <1>5, <1>10, <1>11, FaultTyped, LinkInv DEF IInv, Typed

(* What stays as it is satisfies LinkInv. *)
LEMMA UsersTyped ==
    IInv => verified \subseteq accounts /\ session \subseteq accounts /\ resetting \subseteq accounts
            /\ link \in [Links -> LinkRecord]
  BY DEF IInv, Typed, LinkRecord

LEMMA DeliverInv ==
    ASSUME IInv, NEW l \in Links, Insert(l) \/ SendMail(l) \/ SendMailFails(l)
    PROVE  IInv'
  <1>1. /\ UNCHANGED <<accounts, slugs, verified, session, registration, resetting, overlapped>>
        /\ lost \subseteq lost' /\ (UNCHANGED faults \/ Fault)
    BY DEF Insert, SendMail, SendMailFails, LoseLink, Lose
  <1>2. PICK x \in {"send", "mailed", "stray"} :
           link' = [link EXCEPT ![l].step = x] /\ (link[l].step = "insert" \/ l \in Live)
    BY DEF Insert, SendMail, SendMailFails, Live
  <1>3. /\ link' \in [Links -> LinkRecord] /\ LinkOK'
        /\ \A o \in Links : link'[o].email = link[o].email /\ link'[o].kind = link[o].kind
    BY <1>1, <1>2, LinkGoesOn
  <1> QED
    BY <1>1, <1>3, UsersTyped, FaultTyped, LinkInv

LEMMA LinkEndsInv ==
    ASSUME IInv, NEW l \in Links, CreateFails(l) \/ ExpireLink(l) \/ VerifyEmail(l) \/ RedeemReset(l)
    PROVE  IInv'
  <1>1. /\ UNCHANGED <<accounts, slugs, session, registration, overlapped>>
        /\ lost \subseteq lost' /\ (UNCHANGED faults \/ Fault)
        /\ link' = [link EXCEPT ![l] = NoLink] /\ link[l].step # "unused"
        /\ verified \subseteq verified' /\ verified' \subseteq verified \cup {link[l].email}
        /\ resetting' \subseteq resetting \cup {link[l].email}
    BY DEF CreateFails, ExpireLink, VerifyEmail, RedeemReset, QueryFails, LoseLink, Lose, Live
  <1>2. link[l].kind = "verify" => link[l].email \in verified' \cup lost'
    BY DEF CreateFails, ExpireLink, VerifyEmail, RedeemReset, LoseLink, Lose
  <1>3. link[l].email \in accounts
    BY <1>1 DEF IInv, LinkOK
  <1>4. /\ link' \in [Links -> LinkRecord] /\ LinkOK'
        /\ \A o \in Links \ {l} : link'[o] = link[o]
    BY <1>1, LinkGone
  <1> QED
    BY <1>1, <1>2, <1>3, <1>4, UsersTyped, FaultTyped, LinkInv

LEMMA UserInv ==
    ASSUME IInv, NEW e \in Emails, ResetPassword(e) \/ ResetFails(e) \/ Login(e) \/ EndSession(e)
    PROVE  IInv'
  <1>1. /\ UNCHANGED <<accounts, slugs, verified, registration, link, lost, overlapped>>
        /\ session' \subseteq session \cup verified /\ resetting' \subseteq resetting
        /\ UNCHANGED faults \/ Fault
    BY DEF ResetPassword, ResetFails, Login, EndSession, QueryFails
  <1>2. LinkOK'
    BY <1>1, LinksKept
  <1> QED
    BY <1>1, <1>2, UsersTyped, FaultTyped, LinkInv

LEMMA Inductive == IInv /\ [Next]_vars => IInv'
  <1> SUFFICES ASSUME IInv, [Next]_vars PROVE IInv'
    OBVIOUS
  <1>1. CASE UNCHANGED vars
    <2>1. UNCHANGED <<accounts, slugs, verified, session, registration, link, resetting, faults, lost, overlapped>>
      BY <1>1 DEF vars
    <2>2. LinkOK'
      BY <2>1, LinksKept
    <2> QED
      BY <2>1, <2>2, UsersTyped, FaultTyped, LinkInv
  <1>2. ASSUME NEW r \in Registrations, Step(r) \/ RegistrationFails(r) PROVE IInv'
    BY <1>2, InsertUserInv, TrySlugInv, InsertWorkspaceInv, CommitInv, CreateSessionInv, CreateSessionFailsInv,
       RegistrationFailsInv DEF Step
  <1> QED
    BY <1>1, <1>2, RegisterInv, InvalidateInv, DeliverInv, LinkEndsInv, StartInv, UserInv DEF Next

LEMMA Invariance == Spec => []IInv
  BY Initially, Inductive, PTL DEF Spec

(* A user has one link of a kind that works, unless two requests were      *)
(* making one at once (create of the token repositories).                  *)
THEOREM AccountsInvHolds == Spec => []AccountsInv
  BY InvImplied, Invariance, PTL

(* An account whose address nobody has verified has a link that works or   *)
(* is on its way, unless one of its own failed or expired, or none could   *)
(* be made (register, create of the token repositories).                   *)
THEOREM NobodyIsLockedOutHolds == Spec => []NobodyIsLockedOut
  BY InvImplied, Invariance, PTL
=============================================================================
