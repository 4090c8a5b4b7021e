---------------------------- MODULE SessionsProofs ----------------------------
(***************************************************************************)
(* Theorems about Sessions, for any accounts, session ids, reset tokens,   *)
(* devices and any number of requests at a time.                           *)
(***************************************************************************)
EXTENDS Sessions, TLAPS

\* What a request between two steps relies on.
JobOK ==
  \A w \in Workers :
    /\ job[w].step \in {"leaving", "silencing", "refreshing", "sweeping"} =>
         job[w].session \in Sids /\ Exists(job[w].session)
    /\ Is(w, "refreshing") => Active(job[w].session)
    /\ job[w].step \in {"resetting", "revoking"} =>
         /\ job[w].token \in Tokens /\ token[job[w].token].status # "none"
         /\ token[job[w].token].user = job[w].user
    /\ job[w].step \in {"requesting", "resetting", "revoking"} => job[w].user \in accounts

\* A row is locked by one transaction at a time.
HeldOnce ==
  \A v, w \in Workers, s \in Sids : HeldBy(v, s) /\ HeldBy(w, s) => v = w

\* A family is named after a session that exists.
Rooted == \A s \in Sids : Exists(s) => session[s].family \in Sids /\ Exists(session[s].family)

\* A reset token belongs to an account.
Owned == \A t \in Tokens : token[t].status # "none" => token[t].user \in accounts

\* What an active session that a sweep or reset did not find came from: one it
\* did find, which was rotated meanwhile.
Traced ==
  \A w \in Workers, s \in Sids :
    job[w].step \in {"sweeping", "revoking"} /\ s \in Scope(w) /\ Active(s) =>
      \/ s \in job[w].seen
      \/ \E r \in job[w].seen : /\ r \in Sids /\ Exists(r)
                                /\ session[r].family = session[s].family /\ ~Active(r)

\* The inductive invariant.
IInv ==
  /\ TypeOK /\ JobOK /\ HeldOnce /\ Rooted /\ Owned
  /\ OneActivePerFamily /\ TokenSpentOnce /\ Traced

-----------------------------------------------------------------------------
(* Types.                                                                  *)

SessionRow == [status : Statuses, user : Users \cup {None}, device : Devices \cup {None},
               family : Sids \cup {None}]
TokenRow == [status : {"none", "unused", "used", "void"}, user : Users \cup {None}]
DeviceRow == [status : {"none", "active", "inactive"}, owner : Users \cup {None},
              push : Phones \cup {None}]
JobRow == [step : Steps, session : Sids \cup {None}, token : Tokens \cup {None},
           user : Users \cup {None}, device : Devices \cup {None},
           seen : SUBSET (Sids \cup Tokens)]

LEMMA TypeParts ==
  TypeOK <=> /\ accounts \subseteq Users /\ session \in [Sids -> SessionRow]
             /\ token \in [Tokens -> TokenRow] /\ device \in [Devices -> DeviceRow]
             /\ job \in [Workers -> JobRow]
BY DEF TypeOK, SessionRow, TokenRow, DeviceRow, JobRow

LEMMA TypePartsNext ==
  TypeOK' <=> /\ accounts' \subseteq Users /\ session' \in [Sids -> SessionRow]
              /\ token' \in [Tokens -> TokenRow] /\ device' \in [Devices -> DeviceRow]
              /\ job' \in [Workers -> JobRow]
BY DEF TypeOK, SessionRow, TokenRow, DeviceRow, JobRow

\* What the operators that write one variable leave it as.
LEMMA WriterTypes ==
  ASSUME TypeOK
  PROVE  /\ \A S : EndAll(S) => session' \in [Sids -> SessionRow]
         /\ \A s, f \in Sids, u \in Users, d \in Devices \cup {None} :
              OpenSession(s, u, d, f) => session' \in [Sids -> SessionRow]
         /\ \A w \in Workers, fields \in JobRow :
              Begin(w, fields) => job' \in [Workers -> JobRow]
         /\ \A w \in Workers : Finish(w) => job' \in [Workers -> JobRow]
<1>0. session \in [Sids -> SessionRow] /\ job \in [Workers -> JobRow]
  BY TypeParts
<1>1. ASSUME NEW S, EndAll(S) PROVE session' \in [Sids -> SessionRow]
  <2>1. \A s \in Sids : [session[s] EXCEPT !.status = "ended"] \in SessionRow
    BY <1>0 DEF SessionRow, Statuses
  <2> QED BY <1>0, <1>1, <2>1 DEF EndAll
<1>2. ASSUME NEW s \in Sids, NEW f \in Sids, NEW u \in Users, NEW d \in Devices \cup {None},
             OpenSession(s, u, d, f)
      PROVE  session' \in [Sids -> SessionRow]
  <2>1. [status |-> "active", user |-> u, device |-> d, family |-> f] \in SessionRow
    BY DEF SessionRow, Statuses
  <2> QED BY <1>0, <1>2, <2>1 DEF OpenSession
<1>3. Idle \in JobRow
  BY DEF Idle, JobRow, Steps
<1> QED BY <1>0, <1>1, <1>2, <1>3 DEF Begin, Finish

LEMMA TypePreserved == ASSUME TypeOK, JobOK, [Next]_vars PROVE TypeOK'
<1>0. /\ accounts \subseteq Users /\ session \in [Sids -> SessionRow]
      /\ token \in [Tokens -> TokenRow] /\ device \in [Devices -> DeviceRow]
      /\ job \in [Workers -> JobRow]
  BY TypeParts
<1>i. Idle \in JobRow
  BY DEF Idle, JobRow, Steps
<1>d. \A u \in Users, d \in Devices \cup {None} :
        UpsertDevice(d, u) => device' \in [Devices -> DeviceRow]
  <2> SUFFICES ASSUME NEW u \in Users, NEW d \in Devices, UpsertDevice(d, u), d # None
               PROVE  device' \in [Devices -> DeviceRow]
    BY <1>0 DEF UpsertDevice
  <2>1. [device[d] EXCEPT !.owner = u, !.status = "active"] \in DeviceRow
    BY <1>0 DEF DeviceRow
  <2>2. device' = [device EXCEPT ![d] = [device[d] EXCEPT !.owner = u, !.status = "active"]]
    BY <1>0 DEF UpsertDevice
  <2> QED BY <1>0, <2>1, <2>2
<1>1. ASSUME NEW u \in Users, Opening(u) PROVE TypeOK'
  <2>1. ASSUME NEW s \in Sids, Register(u, s) PROVE TypeOK'
    BY <1>0, <2>1, WriterTypes, TypePartsNext DEF Register
  <2>2. ASSUME NEW s \in Sids, NEW d \in Devices \cup {None}, Login(u, d, s) PROVE TypeOK'
    BY <1>0, <1>d, <2>2, WriterTypes, TypePartsNext DEF Login
  <2> QED BY <1>1, <2>1, <2>2 DEF Opening
<1>2. ASSUME NEW u \in Users, NEW d \in Devices, UsingDevice(u, d) PROVE TypeOK'
  <2>1. ASSUME RemoveDevice(u, d) PROVE device' \in [Devices -> DeviceRow]
    BY <1>0, <2>1 DEF RemoveDevice, NoDevice, DeviceRow
  <2>2. ASSUME NEW k \in Phones \cup {None}, RegisterDevice(u, d, k)
        PROVE  device' \in [Devices -> DeviceRow]
    BY <1>0, <2>2 DEF RegisterDevice, DeviceRow
  <2> QED
    BY <1>0, <1>2, <2>1, <2>2, TypePartsNext DEF UsingDevice, RemoveDevice, RegisterDevice
<1>3. ASSUME NEW w \in Workers, Refreshing(w) PROVE TypeOK'
  <2>1. ASSUME NEW s \in Sids, RefreshLocks(w, s) \/ ReuseFound(w, s) PROVE TypeOK'
    <3>1. /\ [Idle EXCEPT !.step = "refreshing", !.session = s] \in JobRow
          /\ [Idle EXCEPT !.step = "sweeping", !.session = s, !.seen = SweptBy(s)] \in JobRow
      BY <1>i DEF JobRow, Steps, SweptBy, ActiveOf, FamilyOf
    <3> QED
      BY <1>0, <2>1, <3>1, WriterTypes, TypePartsNext DEF RefreshLocks, ReuseFound
  <2>2. ASSUME NEW n \in Sids, Rotate(w, n) PROVE TypeOK'
    <3>1. job[w].session \in Sids
      BY <2>2 DEF Rotate, JobOK, Is
    <3>2. /\ [session[job[w].session] EXCEPT !.status = "rotated"] \in SessionRow
          /\ [session[job[w].session] EXCEPT !.status = "active"] \in SessionRow
      BY <1>0, <3>1 DEF SessionRow, Statuses
    <3>3. session' = [[session EXCEPT ![job[w].session] =
                        [session[job[w].session] EXCEPT !.status = "rotated"]] EXCEPT
                        ![n] = [session[job[w].session] EXCEPT !.status = "active"]]
      BY <1>0, <2>2, <3>1 DEF Rotate
    <3>4. session' \in [Sids -> SessionRow]
      BY <1>0, <3>1, <3>2, <3>3
    <3> QED BY <1>0, <2>2, <3>4, WriterTypes, TypePartsNext DEF Rotate
  <2>3. ASSUME Expire(w) PROVE TypeOK'
    <3>1. session' \in [Sids -> SessionRow]
      BY <1>0, <2>3 DEF Expire, SessionRow, Statuses
    <3> QED BY <1>0, <2>3, <3>1, WriterTypes, TypePartsNext DEF Expire
  <2>4. ASSUME SweepEnds(w) PROVE TypeOK'
    BY <1>0, <2>4, WriterTypes, TypePartsNext DEF SweepEnds
  <2> QED BY <1>3, <2>1, <2>2, <2>3, <2>4 DEF Refreshing
<1>4. ASSUME NEW w \in Workers, LoggingOut(w) PROVE TypeOK'
  <2>1. ASSUME NEW s \in Sids, NEW d \in Devices \cup {None}, LogoutReads(w, s, d) PROVE TypeOK'
    <3>1. [Idle EXCEPT !.step = "leaving", !.session = s, !.device = d] \in JobRow
      BY <1>i DEF JobRow, Steps
    <3> QED BY <1>0, <2>1, <3>1, WriterTypes, TypePartsNext DEF LogoutReads
  <2>2. ASSUME LogoutRevokes(w) PROVE TypeOK'
    <3>1. job' \in [Workers -> JobRow]
      BY <1>0, <2>2 DEF LogoutRevokes, JobRow, Steps
    <3> QED BY <1>0, <2>2, <3>1, WriterTypes, TypePartsNext DEF LogoutRevokes
  <2>3. ASSUME LogoutSilences(w) PROVE TypeOK'
    <3>1. device' \in [Devices -> DeviceRow]
      BY <1>0, <2>3 DEF LogoutSilences, DeviceRow
    <3> QED BY <1>0, <2>3, <3>1, WriterTypes, TypePartsNext DEF LogoutSilences
  <2> QED BY <1>4, <2>1, <2>2, <2>3 DEF LoggingOut
<1>5. ASSUME NEW w \in Workers, ResettingPassword(w) PROVE TypeOK'
  <2>1. ASSUME NEW u \in Users, RequestBegins(w, u) PROVE TypeOK'
    <3>1. [Idle EXCEPT !.step = "requesting", !.user = u, !.seen = Unspent(u)] \in JobRow
      BY <1>i DEF JobRow, Steps, Unspent
    <3> QED BY <1>0, <2>1, <3>1, WriterTypes, TypePartsNext DEF RequestBegins
  <2>2. ASSUME NEW n \in Tokens, RequestEnds(w, n) PROVE TypeOK'
    <3>1. token' \in [Tokens -> TokenRow]
      BY <1>0, <2>2 DEF RequestEnds, TokenRow, JobRow
    <3> QED BY <1>0, <2>2, <3>1, WriterTypes, TypePartsNext DEF RequestEnds
  <2>3. ASSUME NEW t \in Tokens, ResetReads(w, t) PROVE TypeOK'
    <3>1. [Idle EXCEPT !.step = "resetting", !.token = t, !.user = token[t].user] \in JobRow
      BY <1>0, <1>i DEF JobRow, Steps, TokenRow
    <3> QED BY <1>0, <2>3, <3>1, WriterTypes, TypePartsNext DEF ResetReads
  <2>4. ASSUME ResetClaims(w) PROVE TypeOK'
    <3>1. job' \in [Workers -> JobRow]
      BY <1>0, <1>i, <2>4 DEF ResetClaims, Finish, JobRow, Steps, ActiveOf, SessionsOf
    <3> QED BY <1>0, <2>4, <3>1, TypePartsNext DEF ResetClaims
  <2>5. ASSUME ResetEnds(w) PROVE TypeOK'
    <3>1. token' \in [Tokens -> TokenRow]
      BY <1>0, <2>5 DEF ResetEnds, TokenRow
    <3> QED BY <1>0, <2>5, <3>1, WriterTypes, TypePartsNext DEF ResetEnds
  <2> QED BY <1>5, <2>1, <2>2, <2>3, <2>4, <2>5 DEF ResettingPassword
<1>6. ASSUME NEW w \in Workers, Stop(w) PROVE TypeOK'
  BY <1>0, <1>6, WriterTypes, TypePartsNext DEF Stop
<1>7. ASSUME NEW t \in Tokens, TokenExpires(t) PROVE TypeOK'
  <2>1. token' \in [Tokens -> TokenRow]
    BY <1>0, <1>7 DEF TokenExpires, TokenRow
  <2> QED BY <1>0, <1>7, <2>1, TypePartsNext DEF TokenExpires
<1>8. ASSUME UNCHANGED vars PROVE TypeOK'
  BY <1>0, <1>8, TypePartsNext DEF vars
<1> QED BY <1>1, <1>2, <1>3, <1>4, <1>5, <1>6, <1>7, <1>8 DEF Next

-----------------------------------------------------------------------------
(* What steps do to sessions, tokens and requests.                         *)

\* A root session opens; no request goes on with it, and no reset of the account
\* is between its claim and its commit.
Opened(s, u) ==
  /\ ~Exists(s) /\ UNCHANGED <<token, job>> /\ accounts \subseteq accounts'
  /\ u \notin accounts \/ ~Resetting(u)
  /\ \E d : OpenSession(s, u, d, s)

\* Sessions that nobody holds end.
Ended(w) ==
  /\ \E S : EndAll(S) /\ \A s \in S : RowFree(s)
  /\ \A v \in Workers : v # w => job'[v] = job[v]

LEMMA SessionKinds ==
  ASSUME TypeOK, [Next]_vars
  PROVE  \/ UNCHANGED session
         \/ \E s \in Sids, u \in Users : Opened(s, u)
         \/ \E w \in Workers : (\E n \in Sids : Rotate(w, n)) \/ Expire(w) \/ Ended(w)
<1>0. job \in [Workers -> JobRow]
  BY TypeParts
<1>1. ASSUME NEW u \in Users, NEW s \in Sids, NEW d \in Devices \cup {None},
             Register(u, s) \/ Login(u, d, s)
      PROVE  Opened(s, u)
  BY <1>1 DEF Register, Login, Opened
<1>2. ASSUME NEW w \in Workers, LogoutRevokes(w) \/ SweepEnds(w) \/ ResetEnds(w) PROVE Ended(w)
  BY <1>0, <1>2 DEF LogoutRevokes, SweepEnds, ResetEnds, Ended, Finish, RowFree
<1> QED
  BY <1>1, <1>2 DEF Next, Opening, UsingDevice, RemoveDevice, RegisterDevice, Refreshing,
     RefreshLocks, ReuseFound, LoggingOut, LogoutReads, LogoutSilences, ResettingPassword,
     RequestBegins, RequestEnds, ResetReads, ResetClaims, Stop, TokenExpires, vars

\* The request w claims its token and finds the sessions of the account.
Claims(w) ==
  /\ ResetClaims(w) /\ Claimed(job[w].token)
  /\ job' = [job EXCEPT ![w].step = "revoking", ![w].seen = ActiveOf(SessionsOf(job[w].user))]

Begins(w) ==
  \/ \E s \in Sids : \/ RefreshLocks(w, s) \/ ReuseFound(w, s)
                     \/ \E d \in Devices \cup {None} : LogoutReads(w, s, d)
  \/ \E u \in Users : RequestBegins(w, u)
  \/ \E t \in Tokens : ResetReads(w, t)
  \/ LogoutRevokes(w)
  \/ Claims(w)

\* A request stays as it is, is done, or goes on alone.
LEMMA JobKinds ==
  ASSUME TypeOK, [Next]_vars, NEW w \in Workers
  PROVE  \/ job'[w] = job[w]
         \/ job'[w] = Idle
         \/ Begins(w) /\ \A v \in Workers : v # w => job'[v] = job[v]
<1> DEFINE Goal == \/ job'[w] = job[w]
                   \/ job'[w] = Idle
                   \/ Begins(w) /\ \A v \in Workers : v # w => job'[v] = job[v]
<1> SUFFICES Goal OBVIOUS
<1> HIDE DEF Goal
<1>0. job \in [Workers -> JobRow]
  BY TypeParts
<1>1. ASSUME UNCHANGED job PROVE Goal
  BY <1>1 DEF Goal
<1>2. ASSUME NEW v \in Workers, Finish(v) PROVE Goal
  BY <1>0, <1>2 DEF Goal, Finish
<1>3. ASSUME NEW v \in Workers, Begins(v) PROVE Goal
  BY <1>0, <1>3 DEF Goal, Begins, Begin, RefreshLocks, ReuseFound, LogoutReads, RequestBegins,
                    ResetReads, LogoutRevokes, Claims
<1>4. ASSUME NEW v \in Workers, ResetClaims(v) PROVE Finish(v) \/ Claims(v)
  BY <1>4 DEF ResetClaims, Claims
<1> QED
  BY <1>1, <1>2, <1>3, <1>4 DEF Next, Opening, Register, Login, UsingDevice, RemoveDevice,
     RegisterDevice, Refreshing, Rotate, Expire, SweepEnds, LoggingOut, LogoutSilences,
     ResettingPassword, RequestEnds, ResetEnds, Stop, TokenExpires, vars, Begins

LEMMA TokenKinds ==
  ASSUME [Next]_vars
  PROVE  \/ token' = token
         \/ \E w \in Workers : ResetEnds(w) \/ \E n \in Tokens : RequestEnds(w, n)
         \/ \E t \in Tokens : TokenExpires(t)
<1>1. ASSUME NEW w \in Workers, Refreshing(w) \/ LoggingOut(w) \/ Stop(w)
      PROVE  token' = token
  BY <1>1 DEF Refreshing, RefreshLocks, Rotate, Expire, ReuseFound, SweepEnds, LoggingOut,
     LogoutReads, LogoutRevokes, LogoutSilences, Stop
<1>2. ASSUME NEW w \in Workers, ResettingPassword(w)
      PROVE  token' = token \/ ResetEnds(w) \/ \E n \in Tokens : RequestEnds(w, n)
  BY <1>2 DEF ResettingPassword, RequestBegins, ResetReads, ResetClaims
<1>3. ASSUME NEW u \in Users, Opening(u) \/ \E d \in Devices : UsingDevice(u, d)
      PROVE  token' = token
  BY <1>3 DEF Opening, Register, Login, UsingDevice, RemoveDevice, RegisterDevice
<1> QED BY <1>1, <1>2, <1>3 DEF Next, vars

\* What never changes about a session or token that exists; an account stays,
\* and a session never becomes active again.
LEMMA Lasting ==
  ASSUME TypeOK, JobOK, [Next]_vars
  PROVE  /\ accounts \subseteq accounts'
         /\ \A s \in Sids : Exists(s) =>
              /\ Exists(s)' /\ (Active(s)' => Active(s))
              /\ session'[s].user = session[s].user /\ session'[s].family = session[s].family
         /\ \A t \in Tokens : token[t].status # "none" =>
              token'[t].status # "none" /\ token'[t].user = token[t].user
<1>0. session \in [Sids -> SessionRow] /\ token \in [Tokens -> TokenRow]
  BY TypeParts
<1>1. accounts \subseteq accounts'
  <2>1. ASSUME NEW u \in Users, NEW s \in Sids, Register(u, s) PROVE accounts \subseteq accounts'
    BY <2>1 DEF Register
  <2>2. ASSUME NEW w \in Workers, Refreshing(w) \/ LoggingOut(w) \/ ResettingPassword(w) \/ Stop(w)
        PROVE  accounts' = accounts
    BY <2>2 DEF Refreshing, RefreshLocks, Rotate, Expire, ReuseFound, SweepEnds, LoggingOut,
       LogoutReads, LogoutRevokes, LogoutSilences, ResettingPassword, RequestBegins, RequestEnds,
       ResetReads, ResetClaims, ResetEnds, Stop
  <2> QED
    BY <2>1, <2>2 DEF Next, Opening, Login, UsingDevice, RemoveDevice, RegisterDevice,
       TokenExpires, vars
<1>2. ASSUME NEW s \in Sids, Exists(s)
      PROVE  /\ Exists(s)' /\ (Active(s)' => Active(s))
             /\ session'[s].user = session[s].user /\ session'[s].family = session[s].family
  <2>1. CASE UNCHANGED session
    BY <1>2, <2>1 DEF Exists, Active
  <2>2. ASSUME NEW r \in Sids, NEW u \in Users, Opened(r, u)
        PROVE  session'[s] = session[s]
    BY <1>0, <1>2, <2>2 DEF Opened, OpenSession
  <2>3. ASSUME NEW w \in Workers, NEW n \in Sids, Rotate(w, n)
        PROVE  session'[s] = session[s] \/ session'[s] = [session[s] EXCEPT !.status = "rotated"]
    BY <1>0, <1>2, <2>3 DEF Rotate
  <2>4. ASSUME NEW w \in Workers, Expire(w) \/ Ended(w)
        PROVE  session'[s] = session[s] \/ session'[s] = [session[s] EXCEPT !.status = "ended"]
    BY <1>0, <2>4 DEF Expire, Ended, EndAll
  <2> QED
    BY <1>0, <1>2, <2>1, <2>2, <2>3, <2>4, SessionKinds DEF Exists, Active, SessionRow
<1>3. ASSUME NEW t \in Tokens, token[t].status # "none"
      PROVE  token'[t].status # "none" /\ token'[t].user = token[t].user
  <2>1. ASSUME NEW w \in Workers, NEW n \in Tokens, RequestEnds(w, n)
        PROVE  token'[t].status # "none" /\ token'[t].user = token[t].user
    BY <1>0, <1>3, <2>1 DEF RequestEnds, TokenRow
  <2>2. ASSUME NEW w \in Workers, ResetEnds(w)
        PROVE  token'[t].status # "none" /\ token'[t].user = token[t].user
    BY <1>0, <1>3, <2>2 DEF ResetEnds, TokenRow
  <2>3. ASSUME NEW n \in Tokens, TokenExpires(n)
        PROVE  token'[t].status # "none" /\ token'[t].user = token[t].user
    BY <1>0, <1>3, <2>3 DEF TokenExpires, TokenRow
  <2> QED BY <1>3, <2>1, <2>2, <2>3, TokenKinds
<1> QED BY <1>1, <1>2, <1>3

-----------------------------------------------------------------------------
(* Locks and claims.                                                       *)

\* Nobody ends or replaces a session while another request refreshes it.
LEMMA HeldStays ==
  ASSUME TypeOK, JobOK, HeldOnce, [Next]_vars,
         NEW w \in Workers, Is(w, "refreshing"), job'[w] = job[w]
  PROVE  Active(job[w].session)'
<1> DEFINE s == job[w].session
<1>0. session \in [Sids -> SessionRow] /\ job \in [Workers -> JobRow]
  BY TypeParts
<1>1. s \in Sids /\ Active(s) /\ Exists(s) /\ HeldBy(w, s)
  BY DEF JobOK, Is, HeldBy
<1>2. s' = s
  OBVIOUS
<1>3. CASE UNCHANGED session
  BY <1>1, <1>3 DEF Active
<1>4. ASSUME NEW r \in Sids, NEW u \in Users, Opened(r, u) PROVE Active(s)'
  BY <1>0, <1>1, <1>4 DEF Opened, OpenSession, Active
<1>5. ASSUME NEW v \in Workers, Expire(v) \/ \E n \in Sids : Rotate(v, n) PROVE Active(s)'
  <2>1. v # w /\ job[v].session \in Sids /\ Is(v, "refreshing")
    BY <1>0, <1>5 DEF Rotate, Expire, Finish, Idle, Is, JobOK
  <2>2. job[v].session # s
    BY <1>1, <2>1 DEF HeldOnce, HeldBy, Is
  <2> QED BY <1>0, <1>1, <1>5, <2>1, <2>2 DEF Rotate, Expire, Active
<1>6. ASSUME NEW v \in Workers, Ended(v) PROVE Active(s)'
  BY <1>0, <1>1, <1>6 DEF Ended, EndAll, RowFree, Held, Active
<1> QED BY <1>3, <1>4, <1>5, <1>6, SessionKinds

LEMMA HeldOncePreserved == ASSUME TypeOK, HeldOnce, [Next]_vars PROVE HeldOnce'
<1>0. job \in [Workers -> JobRow]
  BY TypeParts
<1>1. ASSUME NEW w \in Workers, NEW s \in Sids, HeldBy(w, s)'
      PROVE  \/ HeldBy(w, s) /\ job'[w] = job[w]
             \/ RowFree(s) /\ \A v \in Workers : v # w => job'[v] = job[v]
  <2>1. CASE job'[w] = job[w]
    BY <1>1, <2>1 DEF HeldBy
  <2>2. CASE job'[w] = Idle
    BY <1>1, <2>2 DEF HeldBy, Idle
  <2>3. ASSUME Begins(w) PROVE RowFree(s)
    <3>1. ASSUME NEW r \in Sids, RefreshLocks(w, r) \/ ReuseFound(w, r) PROVE RowFree(s)
      <4>1. RowFree(r) /\ job'[w].session = r
        BY <1>0, <3>1 DEF RefreshLocks, ReuseFound, Begin, Idle
      <4> QED BY <1>1, <4>1 DEF HeldBy
    <3>2. ASSUME NEW r \in Sids, NEW d \in Devices \cup {None}, LogoutReads(w, r, d)
          PROVE  job'[w].step = "leaving"
      BY <1>0, <3>2 DEF LogoutReads, Begin, Idle
    <3>3. ASSUME NEW u \in Users, RequestBegins(w, u) PROVE job'[w].step = "requesting"
      BY <1>0, <3>3 DEF RequestBegins, Begin, Idle
    <3>4. ASSUME NEW t \in Tokens, ResetReads(w, t) PROVE job'[w].step = "resetting"
      BY <1>0, <3>4 DEF ResetReads, Begin, Idle
    <3>5. LogoutRevokes(w) => job'[w].step = "silencing"
      BY <1>0 DEF LogoutRevokes, JobRow
    <3>6. Claims(w) => job'[w].step = "revoking"
      BY <1>0 DEF Claims, JobRow
    <3>7. job'[w].step \in {"refreshing", "sweeping"}
      BY <1>1 DEF HeldBy
    <3> QED BY <2>3, <3>1, <3>2, <3>3, <3>4, <3>5, <3>6, <3>7 DEF Begins
  <2> QED BY <2>1, <2>2, <2>3, JobKinds
<1> SUFFICES ASSUME NEW v \in Workers, NEW w \in Workers, NEW s \in Sids,
                    HeldBy(v, s)', HeldBy(w, s)', v # w
             PROVE  FALSE
  BY DEF HeldOnce
<1>2. HeldBy(v, s) \/ HeldBy(w, s) \/ (RowFree(s) /\ job'[v] = job[v] /\ job'[w] = job[w])
  BY <1>1
<1>3. CASE RowFree(s) /\ job'[v] = job[v] /\ job'[w] = job[w]
  BY <1>3 DEF RowFree, Held, HeldBy
<1>4. ~RowFree(s) => HeldBy(v, s) /\ HeldBy(w, s)
  BY <1>1
<1>5. RowFree(s) => ~HeldBy(v, s) /\ ~HeldBy(w, s)
  BY DEF RowFree, Held
<1> QED BY <1>2, <1>3, <1>4, <1>5 DEF HeldOnce

LEMMA JobOKPreserved ==
  ASSUME TypeOK, JobOK, HeldOnce, Owned, [Next]_vars
  PROVE  JobOK'
<1> SUFFICES ASSUME NEW w \in Workers
             PROVE  /\ job'[w].step \in {"leaving", "silencing", "refreshing", "sweeping"} =>
                         job'[w].session \in Sids /\ session'[job'[w].session].status # "none"
                    /\ job'[w].step = "refreshing" => session'[job'[w].session].status = "active"
                    /\ job'[w].step \in {"resetting", "revoking"} =>
                         /\ job'[w].token \in Tokens /\ token'[job'[w].token].status # "none"
                         /\ token'[job'[w].token].user = job'[w].user
                    /\ job'[w].step \in {"requesting", "resetting", "revoking"} =>
                         job'[w].user \in accounts'
  BY DEF JobOK, Is, Active, Exists
<1>0. job \in [Workers -> JobRow] /\ session \in [Sids -> SessionRow]
  BY TypeParts
<1>1. /\ job[w].step \in {"leaving", "silencing", "refreshing", "sweeping"} =>
           job[w].session \in Sids /\ Exists(job[w].session)
      /\ job[w].step \in {"resetting", "revoking"} =>
           /\ job[w].token \in Tokens /\ token[job[w].token].status # "none"
           /\ token[job[w].token].user = job[w].user
      /\ job[w].step \in {"requesting", "resetting", "revoking"} => job[w].user \in accounts
  BY DEF JobOK
<1>2. CASE job'[w] = job[w]
  <2>1. job[w].step = "refreshing" => session'[job[w].session].status = "active"
    BY <1>2, HeldStays DEF Is, Active
  <2> QED BY <1>1, <1>2, <2>1, Lasting DEF Exists
<1>3. CASE job'[w] = Idle
  BY <1>3 DEF Idle
<1>4. ASSUME NEW s \in Sids,
             \/ RefreshLocks(w, s) \/ ReuseFound(w, s)
             \/ \E d \in Devices \cup {None} : LogoutReads(w, s, d)
      PROVE  /\ job'[w].step \in {"leaving", "refreshing", "sweeping"} /\ job'[w].session = s
             /\ Exists(s) /\ UNCHANGED session
             /\ job'[w].step = "refreshing" => Active(s)
  BY <1>0, <1>4 DEF RefreshLocks, ReuseFound, LogoutReads, Begin, Idle, Active, Exists
<1>5. ASSUME NEW u \in Users, RequestBegins(w, u)
      PROVE  job'[w].step = "requesting" /\ job'[w].user \in accounts'
  BY <1>0, <1>5 DEF RequestBegins, Begin, Idle
<1>6. ASSUME NEW t \in Tokens, ResetReads(w, t)
      PROVE  /\ job'[w].step = "resetting" /\ job'[w].token = t /\ job'[w].user = token[t].user
             /\ token[t].status # "none" /\ UNCHANGED token /\ job'[w].user \in accounts'
  BY <1>0, <1>6 DEF ResetReads, Begin, Idle, Owned
<1>7. ASSUME LogoutRevokes(w)
      PROVE  /\ job[w].step = "leaving" /\ job'[w].step = "silencing"
             /\ job'[w].session = job[w].session
  BY <1>0, <1>7 DEF LogoutRevokes, Is, JobRow
<1>8. ASSUME Claims(w)
      PROVE  /\ job[w].step = "resetting" /\ job'[w].step = "revoking"
             /\ job'[w].token = job[w].token /\ job'[w].user = job[w].user
             /\ UNCHANGED <<token, accounts>>
  BY <1>0, <1>8 DEF Claims, ResetClaims, Is, JobRow
<1>9. CASE Begins(w)
  BY <1>1, <1>4, <1>5, <1>6, <1>7, <1>8, <1>9, Lasting DEF Begins, Exists, Active
<1> QED BY <1>2, <1>3, <1>9, JobKinds

LEMMA OwnedPreserved == ASSUME TypeOK, JobOK, Owned, [Next]_vars PROVE Owned'
<1> SUFFICES ASSUME NEW t \in Tokens, token'[t].status # "none"
             PROVE  token'[t].user \in accounts'
  BY DEF Owned
<1>0. token \in [Tokens -> TokenRow]
  BY TypeParts
<1>1. CASE token[t].status # "none"
  BY <1>1, Lasting DEF Owned
<1>2. CASE token[t].status = "none"
  <2>1. ASSUME NEW w \in Workers, NEW n \in Tokens, RequestEnds(w, n)
        PROVE  token'[t].user \in accounts'
    <3>1. job[w].user \in accounts /\ accounts' = accounts
      BY <2>1 DEF RequestEnds, JobOK, Is
    <3>2. t = n
      BY <1>0, <1>2, <2>1 DEF RequestEnds, Unspent
    <3> QED BY <1>0, <2>1, <3>1, <3>2 DEF RequestEnds
  <2>2. ASSUME NEW w \in Workers, ResetEnds(w) PROVE token'[t] = token[t]
    BY <1>0, <1>2, <2>2 DEF ResetEnds, JobOK, Is
  <2>3. ASSUME NEW n \in Tokens, TokenExpires(n) PROVE token'[t] = token[t]
    BY <1>0, <1>2, <2>3 DEF TokenExpires
  <2> QED BY <1>2, <2>1, <2>2, <2>3, TokenKinds
<1> QED BY <1>1, <1>2

-----------------------------------------------------------------------------
(* Families.                                                               *)

LEMMA RootedPreserved == ASSUME TypeOK, JobOK, Rooted, [Next]_vars PROVE Rooted'
<1> SUFFICES ASSUME NEW s \in Sids, Exists(s)'
             PROVE  session'[s].family \in Sids /\ session'[session'[s].family].status # "none"
  BY DEF Rooted, Exists
<1>0. session \in [Sids -> SessionRow]
  BY TypeParts
<1>1. \A r \in Sids : Exists(r) =>
        /\ session[r].family \in Sids /\ session'[session[r].family].status # "none"
        /\ session'[r].family = session[r].family
  BY Lasting DEF Rooted, Exists
<1>2. CASE Exists(s)
  BY <1>1, <1>2
<1>3. ASSUME ~Exists(s), NEW r \in Sids, NEW u \in Users, Opened(r, u)
      PROVE  session'[s].family = s
  BY <1>0, <1>3 DEF Opened, OpenSession, Exists
<1>4. ASSUME ~Exists(s), NEW w \in Workers, NEW n \in Sids, Rotate(w, n)
      PROVE  \E r \in Sids : Exists(r) /\ session'[s].family = session[r].family
  <2>1. job[w].session \in Sids /\ Exists(job[w].session)
    BY <1>4 DEF JobOK, Rotate, Is
  <2>2. s = n
    BY <1>0, <1>4, <2>1 DEF Rotate, Exists
  <2>3. session'[n].family = session[job[w].session].family
    BY <1>0, <1>4, <2>1 DEF Rotate, SessionRow
  <2> QED BY <2>1, <2>2, <2>3
<1>5. ASSUME ~Exists(s), NEW w \in Workers, Expire(w) \/ Ended(w) PROVE FALSE
  <2>1. Expire(w) => job[w].session # s
    BY <1>5 DEF Expire, JobOK, Is
  <2> QED BY <1>0, <1>5, <2>1 DEF Expire, Ended, EndAll, Exists, Active
<1>6. CASE UNCHANGED session
  BY <1>1, <1>6 DEF Exists
<1> QED
  <2>1. session'[s].status # "none"
    BY DEF Exists
  <2> QED BY <1>1, <1>2, <1>3, <1>4, <1>5, <1>6, <2>1, SessionKinds

\* The session that becomes active is the first of its family, or it takes the
\* place of the active one of its family.
LEMMA NewActive ==
  ASSUME TypeOK, JobOK, Rooted, [Next]_vars, NEW s \in Sids, ~Active(s), Active(s)'
  PROVE  /\ ~Exists(s)
         /\ \A r \in Sids : r # s /\ Active(r)' => Active(r)
         /\ \/ /\ session'[s].family = s
               /\ \A r \in Sids : Exists(r) => session[r].family # s
               /\ \E u \in Users : Opened(s, u) /\ session'[s].user = u
            \/ \E r \in Sids :
                 /\ Active(r) /\ ~Active(r)'
                 /\ session'[s].family = session[r].family /\ session'[s].user = session[r].user
<1>0. session \in [Sids -> SessionRow]
  BY TypeParts
<1>1. ~Exists(s)
  BY Lasting
<1>2. ASSUME NEW n \in Sids, NEW u \in Users, Opened(n, u)
      PROVE  /\ n = s /\ session'[s].family = s /\ session'[s].user = u
             /\ \A r \in Sids : r # s => session'[r] = session[r]
  BY <1>0, <1>2 DEF Opened, OpenSession, Active
<1>3. ASSUME NEW w \in Workers, NEW n \in Sids, Rotate(w, n)
      PROVE  /\ \A r \in Sids : r # s /\ Active(r)' => Active(r)
             /\ \E r \in Sids :
                  /\ Active(r) /\ ~Active(r)'
                  /\ session'[s].family = session[r].family /\ session'[s].user = session[r].user
  <2> DEFINE r == job[w].session
  <2>1. r \in Sids /\ Active(r) /\ r # n
    BY <1>3 DEF JobOK, Rotate, Is, Active, Exists
  <2>2. /\ session' = [session EXCEPT ![r] = [session[r] EXCEPT !.status = "rotated"],
                                      ![n] = [session[r] EXCEPT !.status = "active"]]
        /\ session[r] \in SessionRow
    BY <1>0, <1>3, <2>1 DEF Rotate
  <2>3. n = s
    BY <1>0, <2>1, <2>2 DEF Active, SessionRow
  <2>4. session'[r].status = "rotated"
    BY <1>0, <2>1, <2>2 DEF SessionRow
  <2>5. session'[s].family = session[r].family /\ session'[s].user = session[r].user
    BY <1>0, <2>1, <2>2, <2>3 DEF SessionRow
  <2>6. \A q \in Sids : q # r /\ q # s => session'[q] = session[q]
    BY <1>0, <2>1, <2>2, <2>3
  <2>7. PICK q \in Sids : q = r /\ session'[q].status = "rotated"
    BY <2>1, <2>4
  <2> QED BY <2>1, <2>4, <2>5, <2>6, <2>7 DEF Active
<1>4. ASSUME NEW w \in Workers, Expire(w) \/ Ended(w) PROVE FALSE
  BY <1>0, <1>4 DEF Expire, Ended, EndAll, Active, SessionRow
<1>5. \A r \in Sids : Exists(r) => session[r].family # s
  BY <1>1 DEF Rooted
<1>6. ASSUME UNCHANGED session PROVE FALSE
  BY <1>6 DEF Active
<1> QED BY <1>1, <1>2, <1>3, <1>4, <1>5, <1>6, SessionKinds DEF Active

LEMMA OneActivePreserved ==
  ASSUME TypeOK, JobOK, Rooted, OneActivePerFamily, [Next]_vars
  PROVE  OneActivePerFamily'
<1> SUFFICES ASSUME NEW s \in Sids, NEW r \in Sids, Active(s)', Active(r)',
                    session'[s].family = session'[r].family, s # r
             PROVE  FALSE
  BY DEF OneActivePerFamily
<1>1. \A q \in Sids : Active(q) => Exists(q) /\ session'[q].family = session[q].family
  BY Lasting DEF Active, Exists
<1>2. ASSUME NEW p \in Sids, NEW q \in Sids, p # q, ~Active(p), Active(p)', Active(q)',
             session'[p].family = session'[q].family
      PROVE  FALSE
  <2>1. Active(q)
    BY <1>2, NewActive
  <2>2. CASE session'[p].family = p /\ \A o \in Sids : Exists(o) => session[o].family # p
    BY <1>1, <1>2, <2>1, <2>2
  <2>3. ASSUME NEW o \in Sids, Active(o), ~Active(o)', session'[p].family = session[o].family
        PROVE  FALSE
    <3>1. session[o].family = session[q].family
      BY <1>1, <1>2, <2>1, <2>3
    <3>2. o = q
      BY <2>1, <2>3, <3>1 DEF OneActivePerFamily
    <3> QED BY <1>2, <2>3, <3>2 DEF Active
  <2> QED BY <1>2, <2>2, <2>3, NewActive
<1>3. CASE Active(s) /\ Active(r)
  BY <1>1, <1>3 DEF OneActivePerFamily
<1> QED BY <1>2, <1>3

LEMMA SpentPreserved ==
  ASSUME TypeOK, JobOK, TokenSpentOnce, [Next]_vars
  PROVE  TokenSpentOnce'
<1>0. token \in [Tokens -> TokenRow] /\ job \in [Workers -> JobRow]
  BY TypeParts
<1>1. ASSUME NEW w \in Workers, Is(w, "revoking")'
      PROVE  \/ Is(w, "revoking") /\ job'[w] = job[w]
             \/ /\ Claims(w) /\ job'[w].user = job[w].user /\ job'[w].token = job[w].token
                /\ \A v \in Workers : v # w => job'[v] = job[v]
  <2>1. ASSUME Begins(w) PROVE Claims(w)
    <3>1. ASSUME NEW s \in Sids, \/ RefreshLocks(w, s) \/ ReuseFound(w, s)
                                 \/ \E d \in Devices \cup {None} : LogoutReads(w, s, d)
          PROVE  job'[w].step # "revoking"
      BY <1>0, <3>1 DEF RefreshLocks, ReuseFound, LogoutReads, Begin, Idle
    <3>2. ASSUME NEW u \in Users, RequestBegins(w, u) PROVE job'[w].step # "revoking"
      BY <1>0, <3>2 DEF RequestBegins, Begin, Idle
    <3>3. ASSUME NEW t \in Tokens, ResetReads(w, t) PROVE job'[w].step # "revoking"
      BY <1>0, <3>3 DEF ResetReads, Begin, Idle
    <3>4. LogoutRevokes(w) => job'[w].step # "revoking"
      BY <1>0 DEF LogoutRevokes, JobRow
    <3> QED BY <1>1, <2>1, <3>1, <3>2, <3>3, <3>4 DEF Begins, Is
  <2>2. Claims(w) => job'[w].user = job[w].user /\ job'[w].token = job[w].token
    BY <1>0 DEF Claims, JobRow
  <2>3. job'[w] # Idle
    BY <1>1 DEF Is, Idle
  <2> QED BY <1>1, <2>1, <2>2, <2>3, JobKinds DEF Is
<1>2. ASSUME NEW w \in Workers, Is(w, "revoking"), job'[w] = job[w]
      PROVE  token'[job[w].token].status = "unused"
  <2>1. /\ job[w].token \in Tokens /\ token[job[w].token].status = "unused"
        /\ token[job[w].token].user = job[w].user
    BY <1>2 DEF JobOK, TokenSpentOnce, Is
  <2>2. ASSUME NEW v \in Workers, NEW n \in Tokens, RequestEnds(v, n)
        PROVE  token'[job[w].token] = token[job[w].token]
    BY <1>0, <1>2, <2>1, <2>2 DEF RequestEnds
  <2>3. ASSUME NEW v \in Workers, ResetEnds(v)
        PROVE  token'[job[w].token] = token[job[w].token]
    <3>1. v # w /\ Is(v, "revoking")
      BY <1>0, <1>2, <2>3 DEF ResetEnds, Finish, Is, Idle
    <3>2. job[v].user # job[w].user
      BY <1>2, <3>1 DEF TokenSpentOnce
    <3>3. token[job[v].token].user = job[v].user
      BY <3>1 DEF JobOK, Is
    <3> QED BY <1>0, <2>1, <2>3, <3>2, <3>3 DEF ResetEnds
  <2>4. ASSUME NEW t \in Tokens, TokenExpires(t)
        PROVE  token'[job[w].token] = token[job[w].token]
    BY <1>0, <1>2, <2>1, <2>4 DEF TokenExpires
  <2> QED BY <2>1, <2>2, <2>3, <2>4, TokenKinds
<1>3. ASSUME NEW w \in Workers, Claims(w)
      PROVE  /\ token'[job[w].token].status = "unused"
             /\ \A v \in Workers : Is(v, "revoking") => job[v].user # job[w].user
  BY <1>3 DEF Claims, ResetClaims, Claimed, Resetting
<1>4. ASSUME NEW w \in Workers, Is(w, "revoking")'
      PROVE  token'[job'[w].token].status = "unused"
  BY <1>1, <1>2, <1>3, <1>4
<1>5. ASSUME NEW v \in Workers, NEW w \in Workers, v # w, Is(v, "revoking")', Is(w, "revoking")'
      PROVE  job'[v].user # job'[w].user
  <2>1. CASE Claims(w)
    <3>1. job'[v] = job[v] /\ job'[w].user = job[w].user
      BY <1>0, <1>5, <2>1 DEF Claims, JobRow
    <3> QED BY <1>3, <1>5, <2>1, <3>1 DEF Is
  <2>2. CASE Claims(v)
    <3>1. job'[w] = job[w] /\ job'[v].user = job[v].user
      BY <1>0, <1>5, <2>2 DEF Claims, JobRow
    <3> QED BY <1>3, <1>5, <2>2, <3>1 DEF Is
  <2>3. CASE ~Claims(v) /\ ~Claims(w)
    <3>1. Is(v, "revoking") /\ Is(w, "revoking") /\ job'[v] = job[v] /\ job'[w] = job[w]
      BY <1>1, <1>5, <2>3
    <3> QED BY <1>5, <3>1 DEF TokenSpentOnce
  <2> QED BY <2>1, <2>2, <2>3
<1> QED BY <1>4, <1>5 DEF TokenSpentOnce, Is

\* A sweep or reset finds every active session it is about.
LEMMA FoundAll ==
  ASSUME TypeOK, NEW w \in Workers, NEW s \in Sids,
         Begins(w), job'[w].step \in {"sweeping", "revoking"}, s \in Scope(w)', Active(s)'
  PROVE  s \in job'[w].seen
<1>0. job \in [Workers -> JobRow]
  BY TypeParts
<1>1. ASSUME NEW r \in Sids, ReuseFound(w, r) PROVE s \in job'[w].seen
  <2>1. /\ job'[w].step = "sweeping" /\ job'[w].session = r /\ job'[w].seen = SweptBy(r)
        /\ session' = session
    BY <1>0, <1>1 DEF ReuseFound, Begin, Idle
  <2>2. s \in FamilyOf(session[r].family) /\ Active(s)
    BY <2>1 DEF Scope, Is, FamilyOf, Exists, Active
  <2> QED BY <2>1, <2>2 DEF SweptBy, ActiveOf
<1>2. ASSUME Claims(w) PROVE s \in job'[w].seen
  <2>1. /\ job'[w].step = "revoking" /\ job'[w].user = job[w].user
        /\ job'[w].seen = ActiveOf(SessionsOf(job[w].user)) /\ session' = session
    BY <1>0, <1>2 DEF Claims, ResetClaims, JobRow
  <2>2. s \in SessionsOf(job[w].user) /\ Active(s)
    BY <2>1 DEF Scope, Is, SessionsOf, Active
  <2> QED BY <2>1, <2>2 DEF ActiveOf
<1>3. ASSUME NEW r \in Sids,
             RefreshLocks(w, r) \/ \E d \in Devices \cup {None} : LogoutReads(w, r, d)
      PROVE  job'[w].step \in {"refreshing", "leaving"}
  BY <1>0, <1>3 DEF RefreshLocks, LogoutReads, Begin, Idle
<1>4. ASSUME NEW u \in Users, RequestBegins(w, u) PROVE job'[w].step = "requesting"
  BY <1>0, <1>4 DEF RequestBegins, Begin, Idle
<1>5. ASSUME NEW t \in Tokens, ResetReads(w, t) PROVE job'[w].step = "resetting"
  BY <1>0, <1>5 DEF ResetReads, Begin, Idle
<1>6. LogoutRevokes(w) => job'[w].step = "silencing"
  BY <1>0 DEF LogoutRevokes, JobRow
<1> QED BY <1>1, <1>2, <1>3, <1>4, <1>5, <1>6 DEF Begins

LEMMA TracedPreserved ==
  ASSUME TypeOK, JobOK, Rooted, Traced, [Next]_vars
  PROVE  Traced'
<1> SUFFICES ASSUME NEW w \in Workers, NEW s \in Sids,
                    job'[w].step \in {"sweeping", "revoking"}, s \in Scope(w)', Active(s)'
             PROVE  \/ s \in job'[w].seen
                    \/ \E r \in job'[w].seen :
                         /\ r \in Sids /\ session'[r].status # "none"
                         /\ session'[r].family = session'[s].family
                         /\ session'[r].status # "active"
  BY DEF Traced, Exists, Active
<1> DEFINE Found(q) == \/ q \in job[w].seen
                       \/ \E r \in job[w].seen :
                            /\ r \in Sids /\ Exists(r)
                            /\ session[r].family = session[q].family /\ ~Active(r)
<1>1. \A q \in Sids : Exists(q) =>
        /\ session'[q].status # "none" /\ (session'[q].status = "active" => Active(q))
        /\ session'[q].user = session[q].user /\ session'[q].family = session[q].family
  BY Lasting DEF Exists, Active
<1>2. CASE Begins(w)
  BY <1>2, FoundAll
<1>3. CASE job'[w] = Idle
  BY <1>3 DEF Idle
<1>4. CASE job'[w] = job[w]
  <2>1. ASSUME NEW q \in Sids, Active(q), q \in Scope(w) PROVE Found(q)
    BY <1>4, <2>1 DEF Traced
  <2>2. /\ Is(w, "sweeping") =>
             /\ job[w].session \in Sids /\ Exists(job[w].session)
             /\ session'[s].family = session[job[w].session].family
        /\ ~Is(w, "sweeping") => Is(w, "revoking") /\ session'[s].user = job[w].user
    <3>1. Is(w, "sweeping") => job[w].session \in Sids /\ Exists(job[w].session)
      BY DEF JobOK, Is
    <3> QED BY <1>1, <1>4, <3>1 DEF Scope, Is, FamilyOf, SessionsOf
  <2>3. ASSUME NEW q \in Sids, Active(q), session'[s].family = session[q].family,
               session'[s].user = session[q].user
        PROVE  q \in Scope(w)
    BY <2>2, <2>3 DEF Scope, FamilyOf, SessionsOf, Exists, Active
  <2>4. CASE Active(s)
    <3>1. Exists(s)
      BY <2>4 DEF Exists, Active
    <3>2. Found(s)
      BY <1>1, <2>1, <2>3, <2>4, <3>1
    <3> QED BY <1>1, <1>4, <3>1, <3>2
  <2>5. CASE ~Active(s)
    <3>1. ASSUME NEW u \in Users, Opened(s, u), session'[s].user = u, session'[s].family = s,
                 \A r \in Sids : Exists(r) => session[r].family # s
          PROVE  FALSE
      <4>1. ~Is(w, "sweeping")
        BY <2>2, <3>1
      <4>2. Is(w, "revoking") /\ u = job[w].user /\ u \in accounts
        BY <2>2, <3>1, <4>1 DEF JobOK, Is
      <4> QED BY <3>1, <4>2 DEF Opened, Resetting
    <3>2. PICK r \in Sids :
            /\ Active(r) /\ session'[r].status # "active"
            /\ session'[s].family = session[r].family /\ session'[s].user = session[r].user
      BY <2>5, <3>1, NewActive DEF Active
    <3>3. Found(r) /\ Exists(r)
      BY <2>1, <2>3, <3>2 DEF Active, Exists
    <3> QED BY <1>1, <1>4, <3>2, <3>3
  <2> QED BY <2>4, <2>5
<1> QED BY <1>2, <1>3, <1>4, JobKinds

-----------------------------------------------------------------------------
(* The theorems.                                                           *)

LEMMA InitIInv == ASSUME Init PROVE IInv
<1>1. TypeOK
  <2>1. /\ NoSession \in SessionRow /\ NoToken \in TokenRow /\ NoDevice \in DeviceRow
        /\ Idle \in JobRow
    BY DEF NoSession, NoToken, NoDevice, Idle, SessionRow, TokenRow, DeviceRow, JobRow, Steps,
           Statuses
  <2> QED BY <2>1, TypeParts DEF Init
<1>2. (\A s \in Sids : ~Exists(s) /\ ~Active(s)) /\ \A w \in Workers : job[w].step = "idle"
  BY DEF Init, NoSession, Idle, Exists, Active
<1>3. JobOK /\ HeldOnce /\ Rooted /\ OneActivePerFamily /\ TokenSpentOnce /\ Traced
  BY <1>2 DEF JobOK, HeldOnce, HeldBy, Rooted, OneActivePerFamily, TokenSpentOnce, Traced, Is
<1>4. Owned
  BY DEF Init, NoToken, Owned
<1> QED BY <1>1, <1>3, <1>4 DEF IInv

THEOREM Invariance == Spec => []IInv
<1>1. Init => IInv
  BY InitIInv
<1>2. IInv /\ [Next]_vars => IInv'
  BY TypePreserved, JobOKPreserved, HeldOncePreserved, RootedPreserved, OwnedPreserved,
     OneActivePreserved, SpentPreserved, TracedPreserved DEF IInv
<1> QED BY <1>1, <1>2, PTL DEF Spec

\* The tables and the requests in progress keep their types.
THEOREM TypeCorrect == Spec => []TypeOK
<1>1. IInv => TypeOK
  BY DEF IInv
<1> QED BY <1>1, Invariance, PTL

\* A family never has two active sessions, however refreshes, sweeps, logouts
\* and resets of any number of requests overlap.
THEOREM OneActive == Spec => []OneActivePerFamily
<1>1. IInv => OneActivePerFamily
  BY DEF IInv
<1> QED BY <1>1, Invariance, PTL

\* A reset token is never spent twice.
THEOREM SpentOnce == Spec => []TokenSpentOnce
<1>1. IInv => TokenSpentOnce
  BY DEF IInv
<1> QED BY <1>1, Invariance, PTL

\* A sweep or a reset leaves no session of its family or account active, except
\* one that took the place of a session it had found.
THEOREM Revoked == Spec => RevocationIsComplete
<1>1. ASSUME IInv, NEW w \in Workers, NEW s \in Sids,
             (job[w].step = "sweeping" /\ SweepEnds(w)) \/ (job[w].step = "revoking" /\ ResetEnds(w)),
             s \in Scope(w), Active(s)'
      PROVE  \E r \in job[w].seen : session[r].family = session[s].family /\ ~Active(r)
  <2>0. session \in [Sids -> SessionRow]
    BY <1>1, TypeParts DEF IInv
  <2>1. EndAll(job[w].seen)
    BY <1>1 DEF SweepEnds, ResetEnds
  <2>2. Active(s) /\ s \notin job[w].seen
    BY <1>1, <2>0, <2>1 DEF EndAll, Active, SessionRow
  <2> QED BY <1>1, <2>2 DEF IInv, Traced
<1>2. IInv /\ [Next]_vars =>
        [\A w \in Workers :
           (job[w].step = "sweeping" /\ SweepEnds(w)) \/ (job[w].step = "revoking" /\ ResetEnds(w)) =>
             \A s \in Scope(w) : Active(s)' =>
               \E r \in job[w].seen : session[r].family = session[s].family /\ ~Active(r)]_vars
  <2>1. ASSUME IInv, NEW w \in Workers, job[w].step \in {"sweeping", "revoking"}
        PROVE  Scope(w) \subseteq Sids
    BY DEF Scope, FamilyOf, SessionsOf
  <2> QED BY <1>1, <2>1
<1> QED BY <1>2, Invariance, PTL DEF Spec, RevocationIsComplete

\* Only its owner's logout, or its push token moving to another row, silences a
\* device.
THEOREM Silenced == Spec => SilencedByOwnerOnly
<1>1. ASSUME TypeOK, [Next]_vars, NEW d \in Devices,
             device[d].status = "active", device'[d].status = "inactive"
      PROVE  \/ device[d].push # None /\ device'[d].push = None
             \/ \E w \in Workers : Is(w, "silencing")
                  /\ session[job[w].session].user = device[d].owner
  <2>0. device \in [Devices -> DeviceRow]
    BY <1>1, TypeParts
  <2>1. ASSUME NEW w \in Workers, LogoutSilences(w)
        PROVE  Is(w, "silencing") /\ session[job[w].session].user = device[d].owner
    BY <1>1, <2>0, <2>1 DEF LogoutSilences, OwnedBy
  <2>2. ASSUME NEW u \in Users, NEW e \in Devices, NEW k \in Phones \cup {None},
               RegisterDevice(u, e, k)
        PROVE  device[d].push # None /\ device'[d].push = None
    BY <1>1, <2>0, <2>2 DEF RegisterDevice, DeviceRow
  <2>3. ASSUME NEW u \in Users, NEW e \in Devices, RemoveDevice(u, e) PROVE FALSE
    BY <1>1, <2>0, <2>3 DEF RemoveDevice, NoDevice
  <2>4. ASSUME NEW u \in Users, NEW e \in Devices \cup {None}, NEW s \in Sids, Login(u, e, s)
        PROVE  FALSE
    BY <1>1, <2>0, <2>4 DEF Login, UpsertDevice, DeviceRow
  <2>5. ASSUME device' = device PROVE FALSE
    BY <1>1, <2>5
  <2>6. ASSUME NEW w \in Workers, Refreshing(w) \/ ResettingPassword(w) \/ Stop(w)
        PROVE  device' = device
    BY <2>6 DEF Refreshing, RefreshLocks, Rotate, Expire, ReuseFound, SweepEnds,
       ResettingPassword, RequestBegins, RequestEnds, ResetReads, ResetClaims, ResetEnds, Stop
  <2> QED
    BY <1>1, <2>1, <2>2, <2>3, <2>4, <2>5, <2>6 DEF Next, Opening, Register, UsingDevice,
       LoggingOut, LogoutReads, LogoutRevokes, TokenExpires, vars
<1>2. TypeOK /\ [Next]_vars =>
        [\A d \in Devices :
           device[d].status = "active" /\ device'[d].status = "inactive" =>
             \/ device[d].push # None /\ device'[d].push = None
             \/ \E w \in Workers : Is(w, "silencing")
                  /\ session[job[w].session].user = device[d].owner]_vars
  BY <1>1
<1> QED BY <1>2, TypeCorrect, PTL DEF Spec, SilencedByOwnerOnly

===============================================================================
