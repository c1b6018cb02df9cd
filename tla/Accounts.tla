------------------------------ MODULE Accounts ------------------------------
(***************************************************************************)
(* How accounts come to be and stay in reach: registrations, each one a    *)
(* transaction on a connection of the pool it holds until it has answered, *)
(* the mailed links that verify an address or reset a password, which are  *)
(* made by two statements and redeemed by one, and the sessions that need  *)
(* them.  An account is named by its address.                              *)
(***************************************************************************)
EXTENDS Naturals, FiniteSets

CONSTANTS
    Registrations,   \* requests to /register at once; all give the same name
    Emails,
    Links,           \* links that can be in the making or alive (a bound)
    PoolMax,         \* DB_POOL_MAX
    MaxFaults        \* failures of the database and the mail (a bound)

ASSUME AccountsAssumption ==
    /\ IsFiniteSet(Emails)
    /\ PoolMax \in Nat \ {0} /\ MaxFaults \in Nat

VARIABLES
    accounts,     \* users that are committed, with workspace and membership
    slugs,        \* their workspaces' slugs: a number behind the name
    verified,     \* email_verified
    session,      \* who has a refresh token in a browser
    registration, \* where a request stands, and what it is to insert
    link,         \* "stray": its mail never arrived
    resetting,    \* whose reset link was redeemed a moment ago
    faults,
    \* history variables, which no action reads
    lost,         \* whose link has failed or expired, or was never made
    overlapped    \* the links of one kind that two requests made at once

vars == <<accounts, slugs, verified, session, registration, link, resetting, faults, lost, overlapped>>

None   == "none"
NoLink == [step |-> "unused", email |-> None, kind |-> None]
NoReg  == [step |-> "idle", email |-> None, slug |-> 0]
Kinds  == {"verify", "reset"}

TypeOK ==
    /\ accounts \subseteq Emails /\ verified \subseteq accounts /\ session \subseteq accounts
    /\ slugs \subseteq 0..Cardinality(Emails)
    /\ \A r \in Registrations :
          /\ registration[r].step \in {"idle", "hash", "slug", "workspace", "commit", "session"}
          /\ registration[r].slug \in 0..Cardinality(Emails)
    /\ \A l \in Links :
          /\ link[l].step \in {"unused", "invalidate", "insert", "send", "mailed", "stray"}
          /\ link[l] = NoLink \/ link[l].kind \in Kinds
    /\ resetting \subseteq accounts
    /\ faults \in 0..MaxFaults

Init ==
    /\ accounts = {} /\ slugs = {} /\ verified = {} /\ session = {}
    /\ registration = [r \in Registrations |-> NoReg]
    /\ link = [l \in Links |-> NoLink]
    /\ resetting = {}
    /\ faults = 0
    /\ lost = {} /\ overlapped = {}

Fault == faults < MaxFaults /\ faults' = faults + 1

At(r, step) == registration[r].step = step

(* A registration keeps its connection from BEGIN to its finally. *)
Free == Cardinality({r \in Registrations : ~At(r, "idle")}) < PoolMax

(* No connection within connectionTimeoutMillis, or another error. *)
QueryFails == (~Free /\ UNCHANGED faults) \/ Fault

Goto(r, step) == registration' = [registration EXCEPT ![r].step = step]
Finish(r)     == registration' = [registration EXCEPT ![r] = NoReg]

Lose(e) == lost' = lost \cup {e}

-----------------------------------------------------------------------------
(* register, statement by statement.  (One that finds its address is       *)
(* answered 409 and changes nothing.)                                      *)

Spare == Cardinality({l \in Links : link[l] = NoLink}) > Cardinality({r \in Registrations : ~At(r, "idle")})

(* BEGIN; SELECT: the address is not taken; bcrypt begins. *)
Register(r, e) ==
    /\ At(r, "idle") /\ Free /\ Spare
    /\ e \notin accounts
    /\ registration' = [registration EXCEPT ![r] = [step |-> "hash", email |-> e, slug |-> 0]]
    /\ UNCHANGED <<accounts, slugs, verified, session, link, resetting, faults, lost, overlapped>>

(* The unique index on email makes an INSERT wait for an open transaction  *)
(* that has inserted the same, and fail if it commits: ROLLBACK.           *)
InsertUser(r) ==
    LET e == registration[r].email IN
    /\ At(r, "hash")
    /\ \A o \in Registrations \ {r} :
          registration[o].email = e => registration[o].step \in {"hash", "session"}
    /\ IF e \in accounts THEN Finish(r) ELSE Goto(r, "slug")
    /\ UNCHANGED <<accounts, slugs, verified, session, link, resetting, faults, lost, overlapped>>

(* One SELECT of the loop that looks for a free slug. *)
TrySlug(r) ==
    /\ At(r, "slug")
    /\ IF registration[r].slug \in slugs
       THEN registration' = [registration EXCEPT ![r].slug = @ + 1]
       ELSE Goto(r, "workspace")
    /\ UNCHANGED <<accounts, slugs, verified, session, link, resetting, faults, lost, overlapped>>

(* The same of the unique index on slug. *)
InsertWorkspace(r) ==
    LET s == registration[r].slug IN
    /\ At(r, "workspace")
    /\ \A o \in Registrations \ {r} : ~(At(o, "commit") /\ registration[o].slug = s)
    /\ IF s \in slugs THEN Finish(r) ELSE Goto(r, "commit")
    /\ UNCHANGED <<accounts, slugs, verified, session, link, resetting, faults, lost, overlapped>>

(* The membership, and COMMIT *)
Commit(r) ==
    /\ At(r, "commit")
    /\ accounts' = accounts \cup {registration[r].email}
    /\ slugs' = slugs \cup {registration[r].slug}
    /\ Goto(r, "session")
    /\ UNCHANGED <<verified, session, link, resetting, faults, lost, overlapped>>

RegistrationFails(r) ==
    /\ registration[r].step \in {"hash", "slug", "workspace", "commit"}
    /\ Fault
    /\ Finish(r)
    /\ UNCHANGED <<accounts, slugs, verified, session, link, resetting, lost, overlapped>>

(* Two requests that make links of a kind at once overlap. *)
StartLink(e, k) ==
    /\ \E l \in Links :
          /\ link[l] = NoLink
          /\ \A o \in Links : link[o] = NoLink => l <= o
          /\ link' = [link EXCEPT ![l] = [step |-> "invalidate", email |-> e, kind |-> k]]
    /\ overlapped' = overlapped \cup
         {<<e, k>> : o \in {o \in Links : /\ link[o].email = e /\ link[o].kind = k
                                          /\ link[o].step \in {"invalidate", "insert"}}}

(* With a second connection: the refresh token, in the answer's cookie,    *)
(* and the mail, which nothing waits for.                                  *)
CreateSession(r) ==
    LET e == registration[r].email IN
    /\ At(r, "session") /\ Free
    /\ session' = session \cup {e}
    /\ StartLink(e, "verify")
    /\ Finish(r)
    /\ UNCHANGED <<accounts, slugs, verified, resetting, faults, lost>>

(* Mutant: the pool has no connectionTimeoutMillis. *)
CreateSessionHangs(r) ==
    /\ At(r, "session")
    /\ Fault
    /\ Lose(registration[r].email)
    /\ Finish(r)
    /\ UNCHANGED <<accounts, slugs, verified, session, link, resetting, overlapped>>

(* It fails, and ROLLBACK comes after the COMMIT: there is an account, but *)
(* no answer with a session, and no mail.                                  *)
CreateSessionFails(r) ==
    /\ At(r, "session")
    /\ QueryFails
    /\ Lose(registration[r].email)
    /\ Finish(r)
    /\ UNCHANGED <<accounts, slugs, verified, session, link, resetting, overlapped>>

-----------------------------------------------------------------------------
(* The links: EmailVerificationRepository and PasswordResetRepository      *)

Live == {l \in Links : link[l].step \in {"send", "mailed", "stray"}}
Like(l) == {o \in Live : link[o].email = link[l].email /\ link[o].kind = link[l].kind}

(* resend-verification, for which one must be logged in *)
Resend(e) ==
    /\ e \in session \ verified
    /\ Spare
    /\ StartLink(e, "verify")
    /\ UNCHANGED <<accounts, slugs, verified, session, registration, resetting, faults, lost>>

(* forgot-password *)
RequestReset(e) ==
    /\ e \in accounts
    /\ Spare
    /\ StartLink(e, "reset")
    /\ UNCHANGED <<accounts, slugs, verified, session, registration, resetting, faults, lost>>

(* Mutant: the links before are not invalidated. *)
KeepPrior(l) ==
    /\ link[l].step = "invalidate" /\ Free
    /\ link' = [link EXCEPT ![l].step = "insert"]
    /\ UNCHANGED <<accounts, slugs, verified, session, registration, resetting, faults, lost, overlapped>>

(* create: the UPDATE ... *)
Invalidate(l) ==
    /\ link[l].step = "invalidate" /\ Free
    /\ link' = [o \in Links |->
                  IF o = l THEN [link[l] EXCEPT !.step = "insert"]
                  ELSE IF o \in Like(l) THEN NoLink ELSE link[o]]
    /\ UNCHANGED <<accounts, slugs, verified, session, registration, resetting, faults, lost, overlapped>>

(* Mutant: the links are invalidated once the new one is in, with it. *)
InsertInvalidates(l) ==
    /\ link[l].step = "insert" /\ Free
    /\ link' = [o \in Links |-> IF o \in Like(l) \cup {l} THEN NoLink ELSE link[o]]
    /\ UNCHANGED <<accounts, slugs, verified, session, registration, resetting, faults, lost, overlapped>>

(* ... and the INSERT *)
Insert(l) ==
    /\ link[l].step = "insert" /\ Free
    /\ link' = [link EXCEPT ![l].step = "send"]
    /\ UNCHANGED <<accounts, slugs, verified, session, registration, resetting, faults, lost, overlapped>>

LoseLink(l) ==
    IF link[l].kind = "verify" THEN Lose(link[l].email) ELSE UNCHANGED lost

(* Either fails: the link before is gone, too, if the UPDATE is through. *)
CreateFails(l) ==
    /\ link[l].step \in {"invalidate", "insert"}
    /\ QueryFails
    /\ link' = [link EXCEPT ![l] = NoLink]
    /\ LoseLink(l)
    /\ UNCHANGED <<accounts, slugs, verified, session, registration, resetting, overlapped>>

SendMail(l) ==
    /\ link[l].step = "send"
    /\ link' = [link EXCEPT ![l].step = "mailed"]
    /\ UNCHANGED <<accounts, slugs, verified, session, registration, resetting, faults, lost, overlapped>>

SendMailFails(l) ==
    /\ link[l].step = "send"
    /\ Fault
    /\ link' = [link EXCEPT ![l].step = "stray"]
    /\ LoseLink(l)
    /\ UNCHANGED <<accounts, slugs, verified, session, registration, resetting, overlapped>>

(* expires_at: a day for a verification, an hour for a reset. *)
ExpireLink(l) ==
    /\ l \in Live
    /\ link' = [link EXCEPT ![l] = NoLink]
    /\ LoseLink(l)
    /\ UNCHANGED <<accounts, slugs, verified, session, registration, resetting, faults, overlapped>>

(* redeem of a verification: the claim and the user in one transaction *)
VerifyEmail(l) ==
    /\ link[l].step = "mailed" /\ link[l].kind = "verify" /\ Free
    /\ link' = [link EXCEPT ![l] = NoLink]
    /\ verified' = verified \cup {link[l].email}
    /\ UNCHANGED <<accounts, slugs, session, registration, resetting, faults, lost, overlapped>>

(* redeem of a reset: the claim alone *)
RedeemReset(l) ==
    /\ link[l].step = "mailed" /\ link[l].kind = "reset" /\ Free
    /\ link' = [link EXCEPT ![l] = NoLink]
    /\ resetting' = resetting \cup {link[l].email}
    /\ UNCHANGED <<accounts, slugs, verified, session, registration, faults, lost, overlapped>>

(* The password, and the revocation of every session (see Sessions).       *)
ResetPassword(e) ==
    /\ e \in resetting /\ Free
    /\ resetting' = resetting \ {e}
    /\ session' = session \ {e}
    /\ UNCHANGED <<accounts, slugs, verified, registration, link, faults, lost, overlapped>>

(* A failure after the claim has used the link up for nothing. *)
ResetFails(e) ==
    /\ e \in resetting
    /\ QueryFails
    /\ resetting' = resetting \ {e}
    /\ UNCHANGED <<accounts, slugs, verified, session, registration, link, lost, overlapped>>

(* login: not before the address is verified *)
Login(e) ==
    /\ e \in verified
    /\ session' = session \cup {e}
    /\ UNCHANGED <<accounts, slugs, verified, registration, link, resetting, faults, lost, overlapped>>

(* A logout, the end of a token's 30 days, or a browser that is no more *)
EndSession(e) ==
    /\ e \in session
    /\ session' = session \ {e}
    /\ UNCHANGED <<accounts, slugs, verified, registration, link, resetting, faults, lost, overlapped>>

-----------------------------------------------------------------------------
Step(r) ==
    \/ InsertUser(r) \/ TrySlug(r) \/ InsertWorkspace(r) \/ Commit(r)
    \/ CreateSession(r) \/ CreateSessionFails(r)

Next ==
    \/ \E r \in Registrations, e \in Emails : Register(r, e)
    \/ \E r \in Registrations : Step(r) \/ RegistrationFails(r)
    \/ \E l \in Links :
          \/ Invalidate(l) \/ Insert(l) \/ CreateFails(l) \/ SendMail(l) \/ SendMailFails(l)
          \/ ExpireLink(l) \/ VerifyEmail(l) \/ RedeemReset(l)
    \/ \E e \in Emails :
          \/ Resend(e) \/ RequestReset(e) \/ ResetPassword(e) \/ ResetFails(e)
          \/ Login(e) \/ EndSession(e)

Spec == Init /\ [][Next]_vars

(* The database answers a registration, or its wait for a connection ends. *)
FairSpec == Spec /\ \A r \in Registrations : WF_vars(Step(r))

-----------------------------------------------------------------------------
(* "Invalidate any prior unused tokens for this user before issuing a new  *)
(* one": of one kind a user has one link that works, unless two requests   *)
(* were making one at once.                                                *)
OneLiveLink ==
    \A l \in Live : <<link[l].email, link[l].kind>> \in overlapped \/ Like(l) = {l}

(* An account whose address nobody has verified, and which login turns     *)
(* away, has a link that works or is on its way, or a session that can ask *)
(* for one, however the requests for links overlap: unless a link of its   *)
(* own failed or expired, or DB_POOL_MAX registrations waited for a second *)
(* connection when it was made.                                            *)
NobodyIsLockedOut ==
    \A e \in accounts \ (verified \cup session \cup lost) :
        \/ \E l \in Links : link[l].email = e /\ link[l].kind = "verify"
        \/ \E r \in Registrations : At(r, "session") /\ registration[r].email = e

(* Every registration is answered, although each holds a connection of the *)
(* pool while it waits for another.                                        *)
EveryRegistrationEnds ==
    \A r \in Registrations : ~At(r, "idle") ~> At(r, "idle")

(* With the types: one link of a kind works (create of the repositories).  *)
AccountsInv == TypeOK /\ OneLiveLink
=============================================================================
