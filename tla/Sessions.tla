------------------------------ MODULE Sessions ------------------------------
(***************************************************************************)
(* The sessions of accounts (modules/auth): a login opens a family of      *)
(* refresh sessions, a refresh replaces its newest member by another, and  *)
(* a logout, a refresh token that comes back after its use, or a password  *)
(* reset ends them.  With them the password-reset tokens and the devices   *)
(* pushes are sent to.                                                     *)
(*                                                                         *)
(* A transaction that can meet another one on the same row is two steps:   *)
(* the one that takes its snapshot and row lock, and the one that writes   *)
(* and commits.  An UPDATE of many rows revokes the rows its snapshot      *)
(* found, once nobody else holds them, if they are still active: it does   *)
(* not see a row that was inserted meanwhile (READ COMMITTED).             *)
(***************************************************************************)
EXTENDS Integers, FiniteSets

CONSTANTS
  Users,     \* the accounts people may register
  Sids,      \* the ids new sessions get
  Tokens,    \* the ids of reset tokens
  Devices,   \* the devices' ids
  Phones,    \* the push tokens of the handsets
  Workers,   \* the requests in progress
  None

ASSUME SessionsAssumption ==
  None \notin Users \cup Sids \cup Tokens \cup Devices \cup Phones

VARIABLES
  accounts,  \* the users who registered
  session,   \* auth_sessions
  token,     \* password_reset_tokens
  device,    \* devices
  job        \* what each request does

vars == <<accounts, session, token, device, job>>

-----------------------------------------------------------------------------
(* Helpers.                                                                *)

NoSession == [status |-> "none", user |-> None, device |-> None, family |-> None]
NoToken == [status |-> "none", user |-> None]
NoDevice == [status |-> "none", owner |-> None, push |-> None]

\* A request between two steps: the session, token, user and device it works
\* on, and the rows its snapshot found.
Idle == [step |-> "idle", session |-> None, token |-> None, user |-> None,
         device |-> None, seen |-> {}]

Is(w, step) == job[w].step = step
Begin(w, fields) == Is(w, "idle") /\ job' = [job EXCEPT ![w] = fields]
Finish(w) == job' = [job EXCEPT ![w] = Idle]

Exists(s) == session[s].status # "none"
Active(s) == session[s].status = "active"
FamilyOf(f) == {s \in Sids : Exists(s) /\ session[s].family = f}
ActiveOf(S) == {s \in S : Active(s)}
SessionsOf(u) == {s \in Sids : session[s].user = u}
Unspent(u) == {t \in Tokens : token[t] = [status |-> "unused", user |-> u]}

\* The rows other transactions hold: a session that is being refreshed or was
\* found to be reused, and the account and the token of a reset.
HeldBy(v, s) == job[v].session = s /\ job[v].step \in {"refreshing", "sweeping"}
Held(s) == \E v \in Workers : HeldBy(v, s)
Resetting(u) == \E v \in Workers : Is(v, "revoking") /\ job[v].user = u

OpenSession(s, u, d, f) ==
  session' = [session EXCEPT ![s] =
    [status |-> "active", user |-> u, device |-> d, family |-> f]]

\* The sessions of S that are still active end: revoked or compromised.
EndAll(S) ==
  session' = [s \in Sids |->
    IF s \in S /\ Active(s) THEN [session[s] EXCEPT !.status = "ended"] ELSE session[s]]

-----------------------------------------------------------------------------
(* register, login and logout.                                             *)

\* The account, its preferences and a root session: one transaction; an email
\* that is taken is refused by its unique index.
Register(u, s) ==
  /\ u \notin accounts /\ ~Exists(s)
  /\ accounts' = accounts \cup {u}
  /\ OpenSession(s, u, None, s)
  /\ UNCHANGED <<token, device, job>>

\* upsertDevice: the device is active and belongs to u now.
UpsertDevice(d, u) ==
  IF d = None THEN UNCHANGED device
  ELSE device' = [device EXCEPT ![d].owner = u, ![d].status = "active"]

\* The last write of the transaction is to the account: it waits for a reset.
Login(u, d, s) ==
  /\ u \in accounts /\ ~Resetting(u) /\ ~Exists(s)
  /\ UpsertDevice(d, u)
  /\ OpenSession(s, u, d, s)
  /\ UNCHANGED <<accounts, token, job>>

\* The device is the one of the session, or else the one the request names.
LogoutReads(w, s, d) ==
  /\ Exists(s)
  /\ session[s].device # None => d = session[s].device
  /\ Begin(w, [Idle EXCEPT !.step = "leaving", !.session = s, !.device = d])
  /\ UNCHANGED <<accounts, session, token, device>>

LogoutRevokes(w) ==
  /\ Is(w, "leaving") /\ ~Held(job[w].session)
  /\ EndAll({job[w].session})
  /\ job' = [job EXCEPT ![w].step = "silencing"]
  /\ UNCHANGED <<accounts, token, device>>

\* Deviation: whoever the device belongs to now.
AnyOwner(d, u) == TRUE

OwnedBy(d, u) == device[d].owner = u

\* Signed-out phones stop receiving pushes.
LogoutSilences(w) ==
  LET d == job[w].device IN
  /\ Is(w, "silencing")
  /\ IF d # None /\ OwnedBy(d, session[job[w].session].user)
     THEN device' = [device EXCEPT ![d].status = "inactive"]
     ELSE UNCHANGED device
  /\ Finish(w)
  /\ UNCHANGED <<accounts, session, token>>

-----------------------------------------------------------------------------
(* refresh: one transaction that begins with SELECT ... FOR UPDATE.        *)

\* Deviation: the row is read without the lock.
RowRead(s) == TRUE

RowFree(s) == ~Held(s)

\* An active session is read and its row locked; what follows relies on that.
\* Other statuses than these two are refused.
RefreshLocks(w, s) ==
  /\ Active(s) /\ RowFree(s)
  /\ Begin(w, [Idle EXCEPT !.step = "refreshing", !.session = s])
  /\ UNCHANGED <<accounts, session, token, device>>

\* The session becomes rotated and the next of its family active.
Rotate(w, n) ==
  LET s == job[w].session IN
  /\ Is(w, "refreshing") /\ ~Exists(n)
  /\ session' = [session EXCEPT
       ![s].status = "rotated",
       ![n] = [session[s] EXCEPT !.status = "active"]]
  /\ Finish(w)
  /\ UNCHANGED <<accounts, token, device>>

\* It was past expires_at.
Expire(w) ==
  /\ Is(w, "refreshing")
  /\ session' = [session EXCEPT ![job[w].session].status = "ended"]
  /\ Finish(w)
  /\ UNCHANGED <<accounts, token, device>>

\* Deviation: the family is looked up by the id of the session that came back.
OwnFamily(s) == ActiveOf(FamilyOf(s))

\* What the sweep of a reused session finds: the active ones of its family.
SweptBy(s) == ActiveOf(FamilyOf(session[s].family))

\* A rotated session came back (ADR 0039, strict reuse detection).
ReuseFound(w, s) ==
  /\ session[s].status = "rotated" /\ RowFree(s)
  /\ Begin(w, [Idle EXCEPT !.step = "sweeping", !.session = s, !.seen = SweptBy(s)])
  /\ UNCHANGED <<accounts, session, token, device>>

SweepEnds(w) ==
  /\ Is(w, "sweeping")
  /\ \A s \in job[w].seen : RowFree(s)
  /\ EndAll(job[w].seen)
  /\ Finish(w)
  /\ UNCHANGED <<accounts, token, device>>

-----------------------------------------------------------------------------
(* Password reset (password-reset.service.ts).                             *)

\* requestReset: the transaction deletes the unused tokens it finds, ...
RequestBegins(w, u) ==
  /\ u \in accounts
  /\ Begin(w, [Idle EXCEPT !.step = "requesting", !.user = u, !.seen = Unspent(u)])
  /\ UNCHANGED <<accounts, session, token, device>>

\* ... unless a reset spent them first, and creates a new one.
RequestEnds(w, n) ==
  /\ Is(w, "requesting") /\ token[n].status = "none"
  /\ \A v \in Workers : Is(v, "revoking") => job[v].token \notin job[w].seen
  /\ token' = [t \in Tokens |->
       IF t = n THEN [status |-> "unused", user |-> job[w].user]
       ELSE IF t \in job[w].seen \cap Unspent(job[w].user)
            THEN [token[t] EXCEPT !.status = "void"]
       ELSE token[t]]
  /\ Finish(w)
  /\ UNCHANGED <<accounts, session, device>>

\* resetPassword reads the token; one that is used or past its time is refused.
ResetReads(w, t) ==
  /\ token[t].status = "unused"
  /\ Begin(w, [Idle EXCEPT !.step = "resetting", !.token = t, !.user = token[t].user])
  /\ UNCHANGED <<accounts, session, token, device>>

\* Deviation: what was read before the transaction is relied on.
ClaimRead(t) == TRUE

Claimed(t) == token[t].status = "unused"

\* The claim in the transaction, the account's row and the sessions found.
ResetClaims(w) ==
  LET u == job[w].user IN
  /\ Is(w, "resetting") /\ ~Resetting(u)
  /\ IF Claimed(job[w].token)
     THEN job' = [job EXCEPT ![w].step = "revoking", ![w].seen = ActiveOf(SessionsOf(u))]
     ELSE Finish(w)
  /\ UNCHANGED <<accounts, session, token, device>>

\* The commit: the token is used, the password new and the sessions revoked.
ResetEnds(w) ==
  /\ Is(w, "revoking")
  /\ \A s \in job[w].seen : RowFree(s)
  /\ token' = [token EXCEPT ![job[w].token].status = "used"]
  /\ EndAll(job[w].seen)
  /\ Finish(w)
  /\ UNCHANGED <<accounts, device>>

\* An unused token gets past its expiry; a claim already made stands.
TokenExpires(t) ==
  /\ token[t].status = "unused"
  /\ \A v \in Workers : Is(v, "revoking") => job[v].token # t
  /\ token' = [token EXCEPT ![t].status = "void"]
  /\ UNCHANGED <<accounts, session, device, job>>

\* The process stops: what was not committed is rolled back.
Stop(w) ==
  /\ ~Is(w, "idle")
  /\ Finish(w)
  /\ UNCHANGED <<accounts, session, token, device>>

-----------------------------------------------------------------------------
(* Devices (notifications.service.ts).                                     *)

\* The handset's push token leaves whatever row had it, and the row moves to u.
RegisterDevice(u, d, k) ==
  /\ u \in accounts
  /\ device' = [e \in Devices |->
       IF e = d THEN [status |-> "active", owner |-> u, push |-> k]
       ELSE IF k # None /\ device[e].push = k
            THEN [device[e] EXCEPT !.status = "inactive", !.push = None]
       ELSE device[e]]
  /\ UNCHANGED <<accounts, session, token, job>>

RemoveDevice(u, d) ==
  /\ u \in accounts /\ OwnedBy(d, u)
  /\ device' = [device EXCEPT ![d] = NoDevice]
  /\ UNCHANGED <<accounts, session, token, job>>

-----------------------------------------------------------------------------

Init ==
  /\ accounts = {}
  /\ session = [s \in Sids |-> NoSession]
  /\ token = [t \in Tokens |-> NoToken]
  /\ device = [d \in Devices |-> NoDevice]
  /\ job = [w \in Workers |-> Idle]

Opening(u) ==
  \E s \in Sids : Register(u, s) \/ \E d \in Devices \cup {None} : Login(u, d, s)

Refreshing(w) ==
  \/ \E s \in Sids : RefreshLocks(w, s) \/ Rotate(w, s) \/ ReuseFound(w, s)
  \/ Expire(w)
  \/ SweepEnds(w)

LoggingOut(w) ==
  \/ \E s \in Sids, d \in Devices \cup {None} : LogoutReads(w, s, d)
  \/ LogoutRevokes(w)
  \/ LogoutSilences(w)

ResettingPassword(w) ==
  \/ \E u \in Users : RequestBegins(w, u)
  \/ \E t \in Tokens : RequestEnds(w, t) \/ ResetReads(w, t)
  \/ ResetClaims(w)
  \/ ResetEnds(w)

UsingDevice(u, d) ==
  RemoveDevice(u, d) \/ \E k \in Phones \cup {None} : RegisterDevice(u, d, k)

Next ==
  \/ \E u \in Users : Opening(u) \/ \E d \in Devices : UsingDevice(u, d)
  \/ \E w \in Workers : Refreshing(w) \/ LoggingOut(w) \/ ResettingPassword(w) \/ Stop(w)
  \/ \E t \in Tokens : TokenExpires(t)

Spec == Init /\ [][Next]_vars

-----------------------------------------------------------------------------
(* Properties.                                                             *)

\* Revoked, compromised and expired sessions have ended; deleted and expired
\* tokens are void.
Statuses == {"none", "active", "rotated", "ended"}
Steps == {"idle", "leaving", "silencing", "refreshing", "sweeping", "requesting",
          "resetting", "revoking"}

\* The values the variables take.
TypeOK ==
  /\ accounts \subseteq Users
  /\ session \in [Sids -> [status : Statuses, user : Users \cup {None},
                           device : Devices \cup {None}, family : Sids \cup {None}]]
  /\ token \in [Tokens -> [status : {"none", "unused", "used", "void"},
                           user : Users \cup {None}]]
  /\ device \in [Devices -> [status : {"none", "active", "inactive"},
                             owner : Users \cup {None}, push : Phones \cup {None}]]
  /\ job \in [Workers -> [step : Steps, session : Sids \cup {None}, token : Tokens \cup {None},
                          user : Users \cup {None}, device : Devices \cup {None},
                          seen : SUBSET (Sids \cup Tokens)]]

\* Of a family at most one session is active, however refreshes with one token,
\* sweeps, logouts and resets overlap (auth.service.ts:157 onwards).
OneActivePerFamily ==
  \A s, r \in Sids :
    Active(s) /\ Active(r) /\ session[s].family = session[r].family => s = r

\* A token is spent by one reset: while a reset that claimed it is under way it
\* is not used yet, and no other reset of the account is (single-use claim).
TokenSpentOnce ==
  \A w \in Workers : Is(w, "revoking") =>
    /\ token[job[w].token].status = "unused"
    /\ \A v \in Workers \ {w} : ~(Is(v, "revoking") /\ job[v].user = job[w].user)

\* The sessions a sweep or a reset is about to end.
Scope(w) ==
  IF Is(w, "sweeping") THEN FamilyOf(session[job[w].session].family)
  ELSE SessionsOf(job[w].user)

\* When a family is swept or a password reset, no session of the family or the
\* account stays active, except in a family whose active session another
\* request replaced after the sweep or reset had looked for the active ones.
\* In particular the loser of two refreshes with one token ends the winner's.
RevocationIsComplete ==
  [][\A w \in Workers :
       (job[w].step = "sweeping" /\ SweepEnds(w)) \/ (job[w].step = "revoking" /\ ResetEnds(w)) =>
         \A s \in Scope(w) : Active(s)' =>
           \E r \in job[w].seen : session[r].family = session[s].family /\ ~Active(r)]_vars

\* A device stops getting pushes because its owner logs out or because its push
\* token was registered for another device, never because somebody logs out of
\* a device that meanwhile belongs to another account.
SilencedByOwnerOnly ==
  [][\A d \in Devices :
       device[d].status = "active" /\ device'[d].status = "inactive" =>
         \/ device[d].push # None /\ device'[d].push = None
         \/ \E w \in Workers : Is(w, "silencing")
              /\ session[job[w].session].user = device[d].owner]_vars

=============================================================================
