--------------------------- MODULE DirectoryProofs ---------------------------
(***************************************************************************)
(* Theorems about Directory, for any businesses, users, services,          *)
(* invitations and any number of requests at a time.                       *)
(***************************************************************************)
EXTENDS Directory, FiniteSetTheorems, WellFoundedInduction, TLAPS

MemberRow == [role : {"none", "owner", "staff"}, status : {"none", "active", "inactive"},
              manage : BOOLEAN]
ServiceRow == [business : Businesses \cup {None}, status : {"none", "active", "inactive"}]
InvitationRow == [status : {"none", "pending", "overdue", "accepted"},
                  business : Businesses \cup {None}, user : Users \cup {None},
                  manage : BOOLEAN, services : SUBSET Services]

\* The values the variables take, as far as the proofs need them.
TypeOK ==
  /\ DOMAIN business = Businesses /\ DOMAIN job = Workers
  /\ \A b \in Businesses : business[b].owner \in Users \cup {None}
  /\ member \in [Seats -> MemberRow]
  /\ profile \in [Seats -> {"none", "active", "inactive"}]
  /\ service \in [Services -> ServiceRow]
  /\ \A s \in Services : service[s].status = "none" => service[s].business = None
  /\ links \subseteq Seats \X Services
  /\ invitation \in [Invitations -> InvitationRow]

\* A user who is, or will be, invited to a business that exists and that is not
\* his own, for services of that business.
MayJoin(b, u, S) ==
  /\ b \in Existing /\ u \in Users /\ business[b].owner # u
  /\ S \subseteq ServicesOf(b)

\* What a request between two steps relies on.
JobOK ==
  \A w \in Workers :
    /\ Is(w, "creating") => job[w].user \in Users
    /\ Is(w, "admitted") => job[w].business \in Existing
    /\ Is(w, "inviting") =>
         MayJoin(job[w].business, job[w].user, job[w].services) /\ job[w].manage \in BOOLEAN
    /\ Is(w, "accepting") =>
         /\ job[w].invitation \in Invitations /\ invitation[job[w].invitation].status # "none"
         /\ job[w].business = invitation[job[w].invitation].business
         /\ job[w].user = invitation[job[w].invitation].user

Invited ==
  \A i \in Invitations : invitation[i].status # "none" =>
    MayJoin(invitation[i].business, invitation[i].user, invitation[i].services)

\* Nobody has a seat in a business before it exists.
NoSeats == \A b \in Businesses \ Existing, u \in Users : member[<<b, u>>] = NoMember

\* The inductive invariant.
IInv ==
  /\ TypeOK /\ JobOK /\ Invited /\ NoSeats
  /\ OwnerStays /\ StaffConsistent /\ LinksStayInBusiness

-----------------------------------------------------------------------------
(* What steps do to the tables.                                            *)

Quiet == UNCHANGED <<business, member, profile, service, links, invitation>>

\* A business comes to be, owned by u, who owns no other.
Created(b, u) ==
  /\ b \in Businesses \ Existing /\ u \in Users
  /\ \A c \in Existing : business[c].owner # u
  /\ DOMAIN business' = Businesses /\ business'[b].owner = u
  /\ \A c \in Businesses : c # b => business'[c] = business[c]
  /\ member' = [member EXCEPT ![<<b, u>>] = [role |-> "owner", status |-> "active", manage |-> TRUE]]
  /\ UNCHANGED <<profile, service, links, invitation>>

\* An invitation is made or gets past its expiry.
InvitationChanged(i) ==
  /\ UNCHANGED <<business, member, profile, service, links>>
  /\ \E row \in InvitationRow :
       /\ invitation' = [invitation EXCEPT ![i] = row]
       /\ row.status \notin {"none", "accepted"}
       /\ MayJoin(row.business, row.user, row.services)
       /\ invitation[i].status # "none" =>
            /\ row.business = invitation[i].business /\ row.user = invitation[i].user
            /\ row.services = invitation[i].services /\ invitation[i].status # "accepted"

\* A staff member's seat is written: by an acceptance, an edit or a deactivation.
Seated(b, u) ==
  /\ b \in Existing /\ u \in Users /\ business[b].owner # u
  /\ \E row \in MemberRow :
       /\ row.role = "staff" /\ row.status # "none"
       /\ member' = [member EXCEPT ![<<b, u>>] = row]
       /\ profile' = [profile EXCEPT ![<<b, u>>] = row.status]
  /\ UNCHANGED links \/ \E S \in SUBSET ServicesOf(b) : Relink(b, u, S)
  /\ \/ UNCHANGED invitation
     \/ \E i \in Invitations :
          /\ invitation[i].status # "none"
          /\ invitation[i].business = b /\ invitation[i].user = u
          /\ invitation' = [invitation EXCEPT ![i].status = "accepted"]
  /\ UNCHANGED <<business, service>>

\* A service is written, with links to staff of its business.
Offered ==
  /\ UNCHANGED <<business, member, profile, invitation>>
  /\ service' \in [Services -> ServiceRow]
  /\ \A s \in Services :
       /\ service'[s].status = "none" => service'[s].business = None
       /\ service[s].business # None => service'[s].business = service[s].business
  /\ \A l \in links' :
       \/ l \in links
       \/ /\ l \in Seats \X Services /\ profile[l[1]] # "none"
          /\ service'[l[2]].business = l[1][1]

LEMMA EffectKinds ==
  ASSUME IInv, [Next]_vars
  PROVE  \/ Quiet
         \/ \E b \in Businesses, u \in Users : Created(b, u) \/ Seated(b, u)
         \/ \E i \in Invitations : InvitationChanged(i)
         \/ Offered
<1>0. TypeOK /\ JobOK /\ Invited /\ OwnerStays /\ StaffConsistent
  BY DEF IInv
<1>1. ASSUME NEW w \in Workers, NEW b \in Businesses, CreateInserts(w, b)
      PROVE  Quiet \/ \E u \in Users : Created(b, u)
  <2>1. job[w].user \in Users
    BY <1>0, <1>1 DEF CreateInserts, JobOK
  <2>2. CASE ~Conflicts(w)
    BY <1>0, <1>1, <2>1, <2>2 DEF CreateInserts, Conflicts, Created, TypeOK
  <2>3. CASE Conflicts(w)
    BY <1>1, <2>3 DEF CreateInserts, Quiet
  <2> QED BY <2>1, <2>2, <2>3
<1>2. ASSUME NEW w \in Workers, NEW i \in Invitations, InviteInserts(w, i)
      PROVE  Quiet \/ InvitationChanged(i)
  <2> DEFINE row == [status |-> "pending", business |-> job[w].business, user |-> job[w].user,
                     manage |-> job[w].manage, services |-> job[w].services]
  <2>1. MayJoin(job[w].business, job[w].user, job[w].services) /\ job[w].manage \in BOOLEAN
    BY <1>0, <1>2 DEF InviteInserts, JobOK
  <2>2. row \in InvitationRow
    BY <2>1 DEF InvitationRow, MayJoin, Existing, ServicesOf
  <2> QED BY <1>2, <2>1, <2>2 DEF InviteInserts, InvitationChanged, Quiet
<1>3. ASSUME NEW i \in Invitations, InvitationExpires(i) PROVE InvitationChanged(i)
  <2> DEFINE row == [invitation[i] EXCEPT !.status = "overdue"]
  <2>1. row \in InvitationRow /\ invitation' = [invitation EXCEPT ![i] = row]
    BY <1>0, <1>3 DEF InvitationExpires, TypeOK, InvitationRow
  <2>2. /\ row.status = "overdue" /\ row.business = invitation[i].business
        /\ row.user = invitation[i].user /\ row.services = invitation[i].services
    BY <1>0 DEF TypeOK, InvitationRow
  <2>3. MayJoin(row.business, row.user, row.services)
    BY <1>0, <1>3, <2>2 DEF InvitationExpires, Invited
  <2> QED BY <1>3, <2>1, <2>2, <2>3 DEF InvitationExpires, InvitationChanged
<1>4. ASSUME NEW w \in Workers, Accepts(w)
      PROVE  Quiet \/ \E b \in Businesses, u \in Users : Seated(b, u)
  <2> DEFINE i == job[w].invitation
             b == job[w].business
             u == job[w].user
             row == [role |-> "staff", status |-> "active", manage |-> invitation[i].manage]
  <2>1. /\ i \in Invitations /\ invitation[i].status # "none"
        /\ b = invitation[i].business /\ u = invitation[i].user
    BY <1>0, <1>4 DEF Accepts, JobOK
  <2>2. MayJoin(b, u, invitation[i].services)
    BY <1>0, <2>1 DEF Invited
  <2>3. row \in MemberRow
    BY <1>0, <2>1 DEF TypeOK, InvitationRow, MemberRow
  <2>4. b \in Businesses /\ u \in Users
    BY <2>2 DEF MayJoin, Existing
  <2>5. CASE job[w].seen = {} /\ member[<<b, u>>].status # "none"
    BY <1>4, <2>5 DEF Accepts, Quiet
  <2>6. CASE ~(job[w].seen = {} /\ member[<<b, u>>].status # "none")
    <3>1. /\ member' = [member EXCEPT ![<<b, u>>] = row]
          /\ profile' = [profile EXCEPT ![<<b, u>>] = row.status]
          /\ Relink(b, u, invitation[i].services)
          /\ invitation' = [invitation EXCEPT ![i].status = "accepted"]
          /\ UNCHANGED <<business, service>>
      BY <1>4, <2>6 DEF Accepts
    <3>2. Seated(b, u)
      BY <2>1, <2>2, <2>3, <3>1 DEF Seated, MayJoin
    <3> QED BY <2>4, <3>2
  <2> QED BY <2>5, <2>6
<1>5. ASSUME NEW w \in Workers, NEW u \in Users, NEW status \in {"active", "inactive"},
             NEW manage \in BOOLEAN, Is(w, "admitted"), Managed(job[w].business, u),
             SetSeat(job[w].business, u, status, manage), UNCHANGED <<business, service, invitation>>,
             \/ UNCHANGED links
             \/ \E S \in SUBSET ServicesOf(job[w].business) : Relink(job[w].business, u, S)
      PROVE  \E b \in Businesses : Seated(b, u)
  <2> DEFINE b == job[w].business
             row == [member[<<b, u>>] EXCEPT !.status = status, !.manage = manage]
  <2>1. b \in Existing /\ b \in Businesses /\ <<b, u>> \in Seats
    BY <1>0, <1>5 DEF JobOK, Existing, Seats
  <2>2. member[<<b, u>>].role = "staff" /\ business[b].owner # u
    BY <1>0, <1>5, <2>1 DEF Managed, StaffOf, StaffConsistent, OwnerStays
  <2>3. row \in MemberRow /\ row.role = "staff" /\ row.status = status
    BY <1>0, <2>1, <2>2 DEF TypeOK, MemberRow
  <2>4. /\ member' = [member EXCEPT ![<<b, u>>] = row]
        /\ profile' = [profile EXCEPT ![<<b, u>>] = row.status]
    BY <1>0, <1>5, <2>1, <2>3 DEF SetSeat, TypeOK
  <2>5. Seated(b, u)
    BY <1>5, <2>1, <2>2, <2>3, <2>4 DEF Seated
  <2> QED BY <2>1, <2>5
<1>6. ASSUME NEW w \in Workers, ManagingStaff(w)
      PROVE  \E b \in Businesses, u \in Users : Seated(b, u)
  <2>1. ASSUME NEW u \in Users, DeactivateStaff(w, u) PROVE \E b \in Businesses : Seated(b, u)
    <3>1. member[<<job[w].business, u>>].manage \in BOOLEAN
      BY <1>0, <2>1 DEF DeactivateStaff, JobOK, Existing, Seats, TypeOK, MemberRow
    <3> QED BY <1>5, <2>1, <3>1 DEF DeactivateStaff
  <2>2. ASSUME NEW u \in Users, NEW status \in {"active", "inactive"}, NEW manage \in BOOLEAN,
               NEW S \in SUBSET Services, UpdateStaff(w, u, status, manage, S)
        PROVE  \E b \in Businesses : Seated(b, u)
    BY <1>5, <2>2 DEF UpdateStaff
  <2> QED BY <1>6, <2>1, <2>2 DEF ManagingStaff
<1>7. ASSUME NEW w \in Workers, NEW s \in Services, NEW T \in SUBSET Seats,
             NEW status \in {"active", "inactive"},
             CreateService(w, s, status, T) \/ UpdateService(w, s, status, T)
      PROVE  Offered
  <2> DEFINE b == job[w].business
  <2>1. b \in Businesses /\ b # None /\ StaffInBusiness(b, T)
    BY <1>0, <1>7, DirectoryAssumption DEF CreateService, UpdateService, JobOK, Existing
  <2>2. /\ service' \in [Services -> ServiceRow] /\ service'[s].business = b
        /\ service'[s].status = status /\ service[s].business \in {None, b}
        /\ \A t \in Services : t # s => service'[t] = service[t]
    <3>1. CASE CreateService(w, s, status, T)
      BY <1>0, <2>1, <3>1 DEF CreateService, TypeOK, ServiceRow
    <3>2. CASE UpdateService(w, s, status, T)
      BY <1>0, <2>1, <3>2 DEF UpdateService, TypeOK, ServiceRow, ServicesOf
    <3> QED BY <1>7, <3>1, <3>2
  <2>3. \A l \in links' : l \in links \/ l \in T \X {s}
    BY <1>7 DEF CreateService, UpdateService
  <2>4. \A t \in T : t \in Seats /\ t[1] = b /\ profile[t] # "none"
    <3> SUFFICES ASSUME NEW t \in T
                 PROVE  t \in Seats /\ t[1] = b /\ profile[t] # "none"
      OBVIOUS
    <3>1. PICK u \in StaffOf(b) : t = <<b, u>>
      BY <2>1 DEF StaffInBusiness
    <3> QED BY <3>1 DEF StaffOf
  <2>5. UNCHANGED <<business, member, profile, invitation>>
    BY <1>7 DEF CreateService, UpdateService
  <2>6. \A l \in T \X {s} : /\ l \in Seats \X Services /\ profile[l[1]] # "none"
                            /\ service'[l[2]].business = l[1][1]
    BY <2>2, <2>4
  <2> QED BY <1>0, <2>2, <2>3, <2>5, <2>6 DEF Offered, TypeOK
<1>8. ASSUME NEW w \in Workers, NEW s \in Services, DeactivateService(w, s) PROVE Offered
  <2>1. service[s].business # None
    BY <1>0, <1>8, DirectoryAssumption DEF DeactivateService, JobOK, Existing, ServicesOf
  <2> QED BY <1>0, <1>8, <2>1 DEF DeactivateService, Offered, TypeOK, ServiceRow
<1>9. ASSUME NEW w \in Workers,
             \/ \E u \in Users, n \in Names : CreateChecks(w, u, n)
             \/ \E b \in Businesses, a \in Users : Admit(w, b, a)
             \/ \E u \in Users, manage \in BOOLEAN, S \in SUBSET Services :
                  InviteReads(w, u, manage, S)
             \/ \E i \in Invitations : AcceptReads(w, i)
             \/ Stop(w)
      PROVE  Quiet
  BY <1>9 DEF CreateChecks, Admit, InviteReads, AcceptReads, Stop, Quiet
<1> QED
  BY <1>1, <1>2, <1>3, <1>4, <1>6, <1>7, <1>8, <1>9 DEF Next, Creating, Inviting,
     ManagingServices, vars, Quiet

\* What never changes about a business, service, staff profile or invitation
\* that exists.
LEMMA Lasting ==
  ASSUME IInv, [Next]_vars
  PROVE  /\ \A b \in Existing : b \in Existing' /\ business'[b].owner = business[b].owner
         /\ \A b \in Businesses : ServicesOf(b) \subseteq ServicesOf(b)'
         /\ \A t \in Seats : profile[t] # "none" => profile'[t] # "none"
         /\ \A i \in Invitations : invitation[i].status # "none" =>
              /\ invitation'[i].status # "none"
              /\ invitation'[i].business = invitation[i].business
              /\ invitation'[i].user = invitation[i].user
              /\ invitation'[i].services = invitation[i].services
<1>0. TypeOK /\ None \notin Businesses /\ None \notin Users
  BY DirectoryAssumption DEF IInv
<1>1. CASE Quiet
  BY <1>1 DEF Quiet, Existing, ServicesOf
<1>2. ASSUME NEW b \in Businesses, NEW u \in Users, Created(b, u)
      PROVE  /\ \A c \in Existing : c \in Existing' /\ business'[c].owner = business[c].owner
             /\ UNCHANGED <<profile, service, invitation>>
  BY <1>2 DEF Created, Existing
<1>3. ASSUME NEW b \in Businesses, NEW u \in Users, Seated(b, u)
      PROVE  /\ UNCHANGED <<business, service>>
             /\ \A t \in Seats : profile[t] # "none" => profile'[t] # "none"
             /\ \A i \in Invitations : invitation[i].status # "none" =>
                  /\ invitation'[i].status # "none"
                  /\ invitation'[i].business = invitation[i].business
                  /\ invitation'[i].user = invitation[i].user
                  /\ invitation'[i].services = invitation[i].services
  BY <1>0, <1>3 DEF Seated, TypeOK, InvitationRow
<1>4. ASSUME NEW i \in Invitations, InvitationChanged(i)
      PROVE  /\ UNCHANGED <<business, profile, service>>
             /\ \A j \in Invitations : invitation[j].status # "none" =>
                  /\ invitation'[j].status # "none"
                  /\ invitation'[j].business = invitation[j].business
                  /\ invitation'[j].user = invitation[j].user
                  /\ invitation'[j].services = invitation[j].services
  BY <1>0, <1>4 DEF InvitationChanged, TypeOK
<1>5. ASSUME Offered
      PROVE  /\ UNCHANGED <<business, profile, invitation>>
             /\ \A b \in Businesses : ServicesOf(b) \subseteq ServicesOf(b)'
  BY <1>0, <1>5 DEF Offered, ServicesOf
<1> QED
  BY <1>1, <1>2, <1>3, <1>4, <1>5, EffectKinds DEF Existing, ServicesOf

LEMMA JoinLasts ==
  ASSUME IInv, [Next]_vars, NEW b, NEW u, NEW S, MayJoin(b, u, S)
  PROVE  MayJoin(b, u, S)'
<1>1. b \in Businesses
  BY DEF MayJoin, Existing
<1> QED BY <1>1, Lasting DEF MayJoin

LEMMA TypePreserved == ASSUME IInv, [Next]_vars PROVE TypeOK'
<1>0. TypeOK
  BY DEF IInv
<1>j. DOMAIN job' = Workers
  <2>1. ASSUME NEW w \in Workers, NEW row, job' = [job EXCEPT ![w] = row] PROVE DOMAIN job' = Workers
    BY <1>0, <2>1 DEF TypeOK
  <2>2. ASSUME NEW w \in Workers, Finish(w) \/ \E fields : Begin(w, fields)
        PROVE  DOMAIN job' = Workers
    BY <2>1, <2>2 DEF Finish, Begin
  <2>3. ASSUME NEW w \in Workers, ManagingStaff(w) \/ ManagingServices(w) \/ Stop(w)
        PROVE  Finish(w)
    BY <2>3 DEF ManagingStaff, UpdateStaff, DeactivateStaff, ManagingServices, CreateService,
       UpdateService, DeactivateService, Stop
  <2>4. ASSUME NEW w \in Workers, Creating(w) \/ Inviting(w) PROVE DOMAIN job' = Workers
    BY <2>1, <2>2, <2>4 DEF Creating, CreateChecks, CreateInserts, Inviting, InviteReads,
       InviteInserts, AcceptReads, Accepts
  <2>5. ASSUME NEW w \in Workers, NEW b \in Businesses, NEW u \in Users, Admit(w, b, u)
        PROVE  DOMAIN job' = Workers
    BY <2>2, <2>5 DEF Admit
  <2> QED
    BY <1>0, <2>2, <2>3, <2>4, <2>5 DEF Next, InvitationExpires, vars, TypeOK
<1>1. CASE Quiet
  BY <1>0, <1>j, <1>1 DEF Quiet, TypeOK
<1>2. ASSUME NEW b \in Businesses, NEW u \in Users, Created(b, u) PROVE TypeOK'
  <2>1. [role |-> "owner", status |-> "active", manage |-> TRUE] \in MemberRow
    BY DEF MemberRow
  <2> QED BY <1>0, <1>j, <1>2, <2>1 DEF Created, TypeOK
<1>3. ASSUME NEW b \in Businesses, NEW u \in Users, Seated(b, u) PROVE TypeOK'
  <2>1. member' \in [Seats -> MemberRow] /\ profile' \in [Seats -> {"none", "active", "inactive"}]
    <3>1. PICK row \in MemberRow : /\ row.status # "none"
                                   /\ member' = [member EXCEPT ![<<b, u>>] = row]
                                   /\ profile' = [profile EXCEPT ![<<b, u>>] = row.status]
      BY <1>3 DEF Seated
    <3>2. row.status \in {"active", "inactive"}
      BY <3>1 DEF MemberRow
    <3> QED BY <1>0, <3>1, <3>2 DEF TypeOK
  <2>2. links' \subseteq Seats \X Services
    <3>1. {<<b, u>>} \X ServicesOf(b) \subseteq Seats \X Services
      BY DEF Seats, ServicesOf
    <3> QED BY <1>0, <1>3, <3>1 DEF Seated, Relink, TypeOK
  <2>3. invitation' \in [Invitations -> InvitationRow]
    BY <1>0, <1>3 DEF Seated, TypeOK, InvitationRow
  <2> QED BY <1>0, <1>j, <1>3, <2>1, <2>2, <2>3 DEF Seated, TypeOK
<1>4. ASSUME NEW i \in Invitations, InvitationChanged(i) PROVE TypeOK'
  BY <1>0, <1>j, <1>4 DEF InvitationChanged, TypeOK
<1>5. ASSUME Offered PROVE TypeOK'
  BY <1>0, <1>j, <1>5 DEF Offered, TypeOK
<1> QED BY <1>1, <1>2, <1>3, <1>4, <1>5, EffectKinds

LEMMA InvitedPreserved == ASSUME IInv, [Next]_vars PROVE Invited'
<1> SUFFICES ASSUME NEW i \in Invitations, invitation'[i].status # "none"
             PROVE  MayJoin(invitation[i].business, invitation[i].user, invitation[i].services)'
  BY DEF Invited
<1>0. TypeOK /\ Invited
  BY DEF IInv
<1>1. CASE invitation[i].status # "none"
  <2>1. MayJoin(invitation[i].business, invitation[i].user, invitation[i].services)
    BY <1>0, <1>1 DEF Invited
  <2>2. PICK b, u, S : /\ b = invitation[i].business /\ u = invitation[i].user
                       /\ S = invitation[i].services
    OBVIOUS
  <2>3. MayJoin(b, u, S)'
    BY <2>1, <2>2, JoinLasts
  <2>4. /\ b = invitation'[i].business /\ u = invitation'[i].user
        /\ S = invitation'[i].services
    BY <1>1, <2>2, Lasting
  <2> QED BY <2>3, <2>4
<1>2. CASE invitation[i].status = "none"
  <2>1. ASSUME NEW j \in Invitations, InvitationChanged(j)
        PROVE  MayJoin(invitation[i].business, invitation[i].user, invitation[i].services)'
    BY <1>0, <1>2, <2>1 DEF InvitationChanged, TypeOK, MayJoin, Existing, ServicesOf
  <2>2. ASSUME NEW b \in Businesses, NEW u \in Users, Created(b, u) \/ Seated(b, u)
        PROVE  invitation'[i] = invitation[i]
    <3>1. CASE Created(b, u)
      BY <3>1 DEF Created
    <3>2. CASE Seated(b, u)
      <4>1. PICK j \in Invitations : \/ UNCHANGED invitation
                                     \/ /\ invitation[j].status # "none"
                                        /\ invitation' = [invitation EXCEPT ![j].status = "accepted"]
        BY <3>2 DEF Seated
      <4> QED BY <1>0, <1>2, <4>1 DEF TypeOK
    <3> QED BY <2>2, <3>1, <3>2
  <2>3. Quiet \/ Offered => invitation'[i] = invitation[i]
    BY DEF Quiet, Offered
  <2> QED BY <1>2, <2>1, <2>2, <2>3, EffectKinds
<1> QED BY <1>1, <1>2

\* A request stays as it is, is done, or goes on.
LEMMA JobKinds ==
  ASSUME TypeOK, [Next]_vars, NEW w \in Workers
  PROVE  \/ job'[w] = job[w]
         \/ job'[w] = Idle
         \/ \E u \in Users, n \in Names : CreateChecks(w, u, n)
         \/ \E b \in Businesses, a \in Users : Admit(w, b, a)
         \/ \E u \in Users, manage \in BOOLEAN, S \in SUBSET Services : InviteReads(w, u, manage, S)
         \/ \E i \in Invitations : AcceptReads(w, i)
<1> DEFINE Goal ==
      \/ job'[w] = job[w]
      \/ job'[w] = Idle
      \/ \E u \in Users, n \in Names : CreateChecks(w, u, n)
      \/ \E b \in Businesses, a \in Users : Admit(w, b, a)
      \/ \E u \in Users, manage \in BOOLEAN, S \in SUBSET Services : InviteReads(w, u, manage, S)
      \/ \E i \in Invitations : AcceptReads(w, i)
<1> SUFFICES Goal OBVIOUS
<1>0. DOMAIN job = Workers
  BY DEF TypeOK
<1>1. ASSUME NEW v \in Workers, Finish(v) PROVE Goal
  BY <1>0, <1>1 DEF Finish
<1>2. ASSUME NEW v \in Workers, ManagingStaff(v) \/ ManagingServices(v) \/ Stop(v)
      PROVE  Finish(v)
  BY <1>2 DEF ManagingStaff, UpdateStaff, DeactivateStaff, ManagingServices, CreateService,
     UpdateService, DeactivateService, Stop
<1>3. ASSUME NEW v \in Workers, NEW b \in Businesses, NEW u \in Users, Admit(v, b, u) PROVE Goal
  BY <1>0, <1>3 DEF Admit, Begin
<1>4. ASSUME NEW v \in Workers, Creating(v) PROVE Goal
  <2>1. ASSUME NEW u \in Users, NEW n \in Names, CreateChecks(v, u, n) PROVE Goal
    BY <1>0, <2>1 DEF CreateChecks, Begin
  <2>2. ASSUME NEW b \in Businesses, CreateInserts(v, b) PROVE Goal
    BY <1>1, <2>2 DEF CreateInserts
  <2> QED BY <1>4, <2>1, <2>2 DEF Creating
<1>5. ASSUME NEW v \in Workers, Inviting(v) PROVE Goal
  <2>1. ASSUME NEW u \in Users, NEW manage \in BOOLEAN, NEW S \in SUBSET Services,
               InviteReads(v, u, manage, S)
        PROVE  Goal
    BY <1>0, <2>1 DEF InviteReads
  <2>2. ASSUME NEW i \in Invitations, InviteInserts(v, i) PROVE Goal
    BY <1>1, <2>2 DEF InviteInserts
  <2>3. ASSUME NEW i \in Invitations, AcceptReads(v, i) PROVE Goal
    BY <1>0, <2>3 DEF AcceptReads, Begin
  <2>4. ASSUME Accepts(v) PROVE Goal
    BY <1>1, <2>4 DEF Accepts
  <2> QED BY <1>5, <2>1, <2>2, <2>3, <2>4 DEF Inviting
<1> HIDE DEF Goal
<1>6. ASSUME UNCHANGED job PROVE Goal
  BY <1>6 DEF Goal
<1> QED
  BY <1>1, <1>2, <1>3, <1>4, <1>5, <1>6 DEF Next, InvitationExpires, vars

\* A member of a business that may manage it is there after the business.
LEMMA JobOKPreserved == ASSUME IInv, [Next]_vars PROVE JobOK'
<1>0. TypeOK /\ JobOK /\ Invited /\ NoSeats /\ OwnerStays /\ DOMAIN job = Workers
  BY DEF IInv, TypeOK
<1> SUFFICES ASSUME NEW w \in Workers
             PROVE  /\ job'[w].step = "creating" => job'[w].user \in Users
                    /\ job'[w].step = "admitted" => job'[w].business \in Existing'
                    /\ job'[w].step = "inviting" =>
                         /\ MayJoin(job[w].business, job[w].user, job[w].services)'
                         /\ job'[w].manage \in BOOLEAN
                    /\ job'[w].step = "accepting" =>
                         /\ job'[w].invitation \in Invitations
                         /\ invitation'[job'[w].invitation].status # "none"
                         /\ job'[w].business = invitation'[job'[w].invitation].business
                         /\ job'[w].user = invitation'[job'[w].invitation].user
  BY DEF JobOK, Is
<1>1. CASE job'[w] = job[w]
  <2>1. job'[w].step = "inviting" =>
          MayJoin(job[w].business, job[w].user, job[w].services)' /\ job'[w].manage \in BOOLEAN
    <3> SUFFICES ASSUME job'[w].step = "inviting"
                 PROVE  /\ MayJoin(job[w].business, job[w].user, job[w].services)'
                        /\ job'[w].manage \in BOOLEAN
      OBVIOUS
    <3>1. PICK b, u, S : b = job[w].business /\ u = job[w].user /\ S = job[w].services
      OBVIOUS
    <3>2. MayJoin(b, u, S) /\ job[w].manage \in BOOLEAN
      BY <1>0, <1>1, <3>1 DEF JobOK, Is
    <3>3. MayJoin(b, u, S)'
      BY <3>2, JoinLasts
    <3> QED BY <1>1, <3>1, <3>2, <3>3
  <2>2. /\ job[w].step = "creating" => job[w].user \in Users
        /\ job[w].step = "admitted" => job[w].business \in Existing
        /\ job[w].step = "accepting" =>
             /\ job[w].invitation \in Invitations /\ invitation[job[w].invitation].status # "none"
             /\ job[w].business = invitation[job[w].invitation].business
             /\ job[w].user = invitation[job[w].invitation].user
    BY <1>0 DEF JobOK, Is
  <2> QED BY <1>1, <2>1, <2>2, Lasting
<1>2. CASE job'[w] = Idle
  BY <1>2 DEF Idle
<1>3. ASSUME NEW u \in Users, NEW n \in Names, CreateChecks(w, u, n)
      PROVE  job'[w].step = "creating" /\ job'[w].user \in Users
  BY <1>0, <1>3 DEF CreateChecks, Begin, Idle
<1>4. ASSUME NEW b \in Businesses, NEW a \in Users, Admit(w, b, a)
      PROVE  job'[w].step = "admitted" /\ job'[w].business \in Existing'
  <2>1. b \in Existing
    BY <1>0, <1>4 DEF Admit, NoSeats, NoMember
  <2>2. job'[w].step = "admitted" /\ job'[w].business = b
    BY <1>0, <1>4 DEF Admit, Begin, Idle
  <2> QED BY <2>1, <2>2, Lasting
<1>5. ASSUME NEW u \in Users, NEW manage \in BOOLEAN, NEW S \in SUBSET Services,
             InviteReads(w, u, manage, S)
      PROVE  /\ job'[w].step = "inviting"
             /\ MayJoin(job[w].business, job[w].user, job[w].services)' /\ job'[w].manage \in BOOLEAN
  <2>1. PICK b : b = job[w].business
    OBVIOUS
  <2>2. b \in Existing /\ S \subseteq ServicesOf(b) /\ Joinable(b, u)
    BY <1>0, <1>5, <2>1 DEF InviteReads, JobOK
  <2>3. business[b].owner # u
    BY <1>0, <2>2 DEF OwnerStays, Joinable
  <2>4. MayJoin(b, u, S)'
    BY <2>2, <2>3, JoinLasts DEF MayJoin
  <2>5. /\ job'[w].step = "inviting" /\ job'[w].business = b /\ job'[w].user = u
        /\ job'[w].services = S /\ job'[w].manage = manage
    BY <1>0, <1>5, <2>1 DEF InviteReads, Idle
  <2> QED BY <2>4, <2>5
<1>6. ASSUME NEW i \in Invitations, AcceptReads(w, i)
      PROVE  /\ job'[w].step = "accepting" /\ job'[w].invitation = i
             /\ invitation'[i].status # "none"
             /\ job'[w].business = invitation'[i].business /\ job'[w].user = invitation'[i].user
  BY <1>0, <1>6 DEF AcceptReads, Begin, Idle
<1> QED BY <1>0, <1>1, <1>2, <1>3, <1>4, <1>5, <1>6, JobKinds

LEMMA NoSeatsPreserved == ASSUME IInv, [Next]_vars PROVE NoSeats'
<1> SUFFICES ASSUME NEW c \in Businesses, c \notin Existing', NEW v \in Users
             PROVE  member'[<<c, v>>] = NoMember
  BY DEF NoSeats
<1>0. TypeOK /\ NoSeats /\ <<c, v>> \in Seats /\ None \notin Users
  BY DirectoryAssumption DEF IInv, Seats
<1>1. c \notin Existing /\ member[<<c, v>>] = NoMember
  BY <1>0, Lasting DEF NoSeats
<1>2. ASSUME NEW b \in Businesses, NEW u \in Users, Created(b, u) PROVE b # c
  BY <1>0, <1>2 DEF Created, Existing
<1>3. ASSUME NEW b \in Businesses, NEW u \in Users, Seated(b, u) PROVE b # c
  BY <1>1, <1>3 DEF Seated
<1>4. ASSUME NEW b \in Businesses, NEW u \in Users, Created(b, u) \/ Seated(b, u)
      PROVE  member'[<<c, v>>] = member[<<c, v>>]
  BY <1>0, <1>2, <1>3, <1>4 DEF Created, Seated, TypeOK
<1> QED
  BY <1>1, <1>4, EffectKinds DEF Quiet, InvitationChanged, Offered

LEMMA OwnerPreserved == ASSUME IInv, [Next]_vars PROVE OwnerStays'
<1>0. TypeOK /\ OwnerStays /\ NoSeats /\ StaffConsistent /\ None \notin Users
  BY DirectoryAssumption DEF IInv
<1>1. ASSUME UNCHANGED <<business, member, profile>> PROVE OwnerStays'
  BY <1>0, <1>1 DEF OwnerStays, Existing
<1>2. ASSUME NEW b \in Businesses, NEW u \in Users, Created(b, u) PROVE OwnerStays'
  <2> DEFINE row == [role |-> "owner", status |-> "active", manage |-> TRUE]
  <2>1. /\ Existing' = Existing \cup {b} /\ b \notin Existing
        /\ business'[b].owner = u /\ \A c \in Existing : business'[c].owner = business[c].owner
        /\ \A c \in Existing : business[c].owner # u
    BY <1>0, <1>2 DEF Created, Existing
  <2>2. /\ member'[<<b, u>>] = row /\ profile' = profile
        /\ \A t \in Seats : t # <<b, u>> => member'[t] = member[t]
    BY <1>0, <1>2 DEF Created, TypeOK, Seats
  <2>3. \A v \in Users : member[<<b, v>>].role = "none" /\ profile[<<b, v>>] = "none"
    <3>1. \A v \in Users : member[<<b, v>>].role = "none"
      BY <1>0, <2>1 DEF NoSeats, NoMember
    <3> QED BY <1>0, <3>1 DEF StaffConsistent, Seats
  <2> SUFFICES ASSUME NEW c \in Existing', NEW v \in Users
               PROVE  /\ member'[<<c, v>>].role = "owner" <=> v = business'[c].owner
                      /\ v = business'[c].owner =>
                           /\ member'[<<c, v>>] = row /\ profile'[<<c, v>>] = "none"
                           /\ \A d \in Existing' : business'[d].owner = v => d = c
    BY DEF OwnerStays
  <2>4. <<c, v>> \in Seats
    BY DEF Existing, Seats
  <2>5. CASE c = b
    BY <2>1, <2>2, <2>3, <2>4, <2>5
  <2>6. CASE c # b
    BY <1>0, <2>1, <2>2, <2>4, <2>6 DEF OwnerStays
  <2> QED BY <2>5, <2>6
<1>3. ASSUME NEW b \in Businesses, NEW u \in Users, Seated(b, u) PROVE OwnerStays'
  <2>1. /\ UNCHANGED business /\ business[b].owner # u
        /\ member'[<<b, u>>].role = "staff"
        /\ \A t \in Seats : t # <<b, u>> => member'[t] = member[t] /\ profile'[t] = profile[t]
    BY <1>0, <1>3 DEF Seated, TypeOK, Seats
  <2>2. Existing' = Existing /\ business' = business
    BY <2>1 DEF Existing
  <2> SUFFICES ASSUME NEW c \in Existing', NEW v \in Users
               PROVE  /\ member'[<<c, v>>].role = "owner" <=> v = business'[c].owner
                      /\ v = business'[c].owner =>
                           /\ member'[<<c, v>>] = [role |-> "owner", status |-> "active", manage |-> TRUE]
                           /\ profile'[<<c, v>>] = "none"
                           /\ \A d \in Existing' : business'[d].owner = v => d = c
    BY DEF OwnerStays
  <2>3. c \in Existing /\ <<c, v>> \in Seats
    BY <2>2 DEF Existing, Seats
  <2>4. CASE c = b /\ v = u
    BY <2>1, <2>2, <2>4
  <2>5. CASE ~(c = b /\ v = u)
    <3>1. member'[<<c, v>>] = member[<<c, v>>] /\ profile'[<<c, v>>] = profile[<<c, v>>]
      BY <2>1, <2>3, <2>5
    <3> QED BY <1>0, <2>2, <2>3, <3>1 DEF OwnerStays
  <2> QED BY <2>4, <2>5
<1> QED
  BY <1>1, <1>2, <1>3, EffectKinds DEF Quiet, InvitationChanged, Offered

LEMMA ConsistentPreserved == ASSUME IInv, [Next]_vars PROVE StaffConsistent'
<1>0. TypeOK /\ StaffConsistent /\ NoSeats /\ Invited
  BY DEF IInv
<1>p. \A i \in Invitations : invitation[i].status # "none" =>
        <<invitation[i].business, invitation[i].user>> \in Seats
  BY <1>0 DEF Invited, MayJoin, Existing, Seats
<1>1. ASSUME UNCHANGED <<member, profile, invitation>> PROVE StaffConsistent'
  BY <1>0, <1>1 DEF StaffConsistent
<1>2. ASSUME NEW b \in Businesses, NEW u \in Users, Created(b, u) PROVE StaffConsistent'
  <2>1. <<b, u>> \in Seats /\ member[<<b, u>>].role = "none"
    BY <1>0, <1>2 DEF Created, NoSeats, NoMember, Seats
  <2>2. /\ member'[<<b, u>>].role = "owner" /\ profile[<<b, u>>] = "none"
        /\ \A t \in Seats : t # <<b, u>> => member'[t] = member[t]
        /\ UNCHANGED <<profile, invitation>>
    BY <1>0, <1>2, <2>1 DEF Created, TypeOK, StaffConsistent
  <2> QED BY <1>0, <2>2 DEF StaffConsistent
<1>3. ASSUME NEW b \in Businesses, NEW u \in Users, Seated(b, u) PROVE StaffConsistent'
  <2>0. <<b, u>> \in Seats
    BY DEF Seats
  <2>1. PICK row \in MemberRow :
          /\ row.role = "staff" /\ row.status # "none"
          /\ member' = [member EXCEPT ![<<b, u>>] = row]
          /\ profile' = [profile EXCEPT ![<<b, u>>] = row.status]
    BY <1>3 DEF Seated
  <2>2. /\ member'[<<b, u>>] = row /\ profile'[<<b, u>>] = row.status
        /\ \A t \in Seats : t # <<b, u>> => member'[t] = member[t] /\ profile'[t] = profile[t]
    BY <1>0, <2>0, <2>1 DEF TypeOK
  <2>3. \A t \in Seats : /\ member'[t].role = "staff" <=> profile'[t] # "none"
                         /\ profile'[t] # "none" => profile'[t] = member'[t].status
    <3> SUFFICES ASSUME NEW t \in Seats
                 PROVE  /\ member'[t].role = "staff" <=> profile'[t] # "none"
                        /\ profile'[t] # "none" => profile'[t] = member'[t].status
      OBVIOUS
    <3>1. CASE t = <<b, u>>
      BY <2>1, <2>2, <3>1
    <3>2. CASE t # <<b, u>>
      BY <1>0, <2>2, <3>2 DEF StaffConsistent
    <3> QED BY <3>1, <3>2
  <2>4. ASSUME NEW i \in Invitations, invitation'[i].status = "accepted"
        PROVE  profile'[<<invitation'[i].business, invitation'[i].user>>] # "none"
    <3>1. CASE invitation[i].status = "accepted"
      <4>1. /\ invitation'[i].business = invitation[i].business
            /\ invitation'[i].user = invitation[i].user
        BY <3>1, Lasting
      <4>2. profile[<<invitation[i].business, invitation[i].user>>] # "none"
        BY <1>0, <3>1 DEF StaffConsistent
      <4> QED BY <1>p, <3>1, <4>1, <4>2, Lasting
    <3>2. CASE invitation[i].status # "accepted"
      <4>1. PICK j \in Invitations :
              /\ invitation[j].status # "none"
              /\ invitation[j].business = b /\ invitation[j].user = u
              /\ invitation' = [invitation EXCEPT ![j].status = "accepted"]
        BY <1>3, <2>4, <3>2 DEF Seated
      <4>2. j = i
        BY <1>0, <2>4, <3>2, <4>1 DEF TypeOK
      <4>3. invitation'[i].business = b /\ invitation'[i].user = u
        BY <4>1, <4>2, Lasting
      <4> QED BY <2>1, <2>2, <4>3
    <3> QED BY <3>1, <3>2
  <2> QED BY <2>3, <2>4 DEF StaffConsistent
<1>4. ASSUME NEW i \in Invitations, InvitationChanged(i) PROVE StaffConsistent'
  <2>1. \A j \in Invitations : invitation'[j].status = "accepted" => invitation'[j] = invitation[j]
    BY <1>0, <1>4 DEF InvitationChanged, TypeOK
  <2>2. UNCHANGED <<member, profile>>
    BY <1>4 DEF InvitationChanged
  <2> QED BY <1>0, <2>1, <2>2 DEF StaffConsistent
<1> QED
  BY <1>1, <1>2, <1>3, <1>4, EffectKinds DEF Quiet, Offered

LEMMA LinksPreserved == ASSUME IInv, [Next]_vars PROVE LinksStayInBusiness'
<1> SUFFICES ASSUME NEW l \in links'
             PROVE  profile'[l[1]] # "none" /\ service'[l[2]].business = l[1][1]
  BY DEF LinksStayInBusiness
<1>0. TypeOK /\ LinksStayInBusiness /\ None \notin Businesses
  BY DirectoryAssumption DEF IInv
<1>1. CASE l \in links
  <2>1. /\ l[1] \in Seats /\ l[2] \in Services
        /\ profile[l[1]] # "none" /\ service[l[2]].business = l[1][1] /\ l[1][1] \in Businesses
    BY <1>0, <1>1 DEF LinksStayInBusiness, TypeOK, Seats
  <2>2. l[2] \in ServicesOf(l[1][1])'
    BY <2>1, Lasting DEF ServicesOf
  <2> QED BY <2>1, <2>2, Lasting DEF ServicesOf
<1>2. CASE l \notin links
  <2>1. ASSUME NEW b \in Businesses, NEW u \in Users, Seated(b, u)
        PROVE  profile'[l[1]] # "none" /\ service'[l[2]].business = l[1][1]
    <3>1. PICK S \in SUBSET ServicesOf(b) : Relink(b, u, S)
      BY <1>2, <2>1 DEF Seated
    <3>2. l \in {<<b, u>>} \X S
      BY <1>2, <3>1 DEF Relink
    <3>3. /\ l[1] = <<b, u>> /\ l[2] \in S
      BY <3>2
    <3>4. service[l[2]].business = b /\ UNCHANGED service
      BY <2>1, <3>3 DEF ServicesOf, Seated
    <3>5. profile'[<<b, u>>] # "none"
      BY <1>0, <2>1 DEF Seated, TypeOK, Seats
    <3> QED BY <3>3, <3>4, <3>5
  <2>2. ASSUME Offered PROVE profile'[l[1]] # "none" /\ service'[l[2]].business = l[1][1]
    BY <1>2, <2>2 DEF Offered
  <2> QED
    BY <1>2, <2>1, <2>2, EffectKinds DEF Quiet, Created, InvitationChanged
<1> QED BY <1>1, <1>2

-----------------------------------------------------------------------------
(* The slugs, and what a creation that is refused has met.                 *)

\* A set of numbers up to n has a first.
LEMMA FirstNumber ==
  ASSUME NEW n \in Nat, NEW S \in SUBSET (0..n), S # {}
  PROVE  \E k \in S : \A j \in S : k <= j
<1> DEFINE R == StrictSubsetOrdering(0..n)
           F == FiniteSubsetsOf(0..n)
           Segments == {0..k : k \in S}
<1>1. IsFiniteSet(0..n)
  BY FS_Interval
<1>2. IsWellFoundedOn(R, F)
  BY <1>1, FS_StrictSubsetOrderingWellFounded
<1>3. Segments \subseteq F /\ Segments # {}
  <2>1. Segments \subseteq SUBSET (0..n)
    OBVIOUS
  <2>2. Segments # {}
    <3>1. PICK k \in S : TRUE
      OBVIOUS
    <3>2. 0..k \in Segments
      OBVIOUS
    <3> QED BY <3>2
  <2>3. F = SUBSET (0..n)
    BY <1>1, FS_FiniteSubsetsOfFinite
  <2> HIDE DEF Segments, F
  <2>4. QED
    BY <2>1, <2>2, <2>3
<1> HIDE DEF R, F, Segments
<1>4. PICK T \in Segments : \A U \in Segments : ~(<<U, T>> \in R)
  BY <1>2, <1>3, WFMin
<1>5. PICK k \in S : T = 0..k
  BY <1>4 DEF Segments
<1>6. ASSUME NEW j \in S, j < k PROVE FALSE
  <2>1. 0..j \in Segments
    BY DEF Segments
  <2>2. 0..j \subseteq 0..k /\ 0..k \subseteq 0..n /\ 0..j # 0..k
    <3>1. j \in Nat /\ k \in Nat /\ k <= n
      OBVIOUS
    <3>2. k \in 0..k /\ k \notin 0..j
      BY <1>6, <3>1
    <3>3. QED
      BY <1>6, <3>1, <3>2
  <2>3. QED
    BY <1>4, <1>5, <2>1, <2>2 DEF R, StrictSubsetOrdering
<1>7. QED
  BY <1>6

\* There are more suffixes than businesses: the slug a creation is given is free.
LEMMA FreeSlugIsFree ==
  ASSUME NEW n
  PROVE  ~Taken(FreeSlug(n))
<1> DEFINE m == Cardinality(Businesses)
           free == {k \in 0..m : ~Taken(<<n, k>>)}
           holder == [k \in 0..m |-> CHOOSE b \in Existing : business[b].slug = <<n, k>>]
<1>1. IsFiniteSet(Businesses) /\ m \in Nat
  BY DirectoryAssumption, FS_CardinalityType
<1>2. free # {}
  <2> SUFFICES ASSUME free = {} PROVE FALSE
    OBVIOUS
  <2>1. \A k \in 0..m : Taken(<<n, k>>)
    OBVIOUS
  <2>2. \A k \in 0..m : holder[k] \in Businesses /\ business[holder[k]].slug = <<n, k>>
    BY <2>1 DEF Taken, Existing
  <2>3. holder \in [0..m -> Businesses]
    BY <2>2
  <2>4. IsFiniteSet(0..m) /\ Cardinality(0..m) = m + 1
    <3> HIDE DEF m
    <3>1. IsFiniteSet(0..m) /\ Cardinality(0..m) = IF 0 > m THEN 0 ELSE m - 0 + 1
      BY <1>1, FS_Interval
    <3>2. QED
      BY <1>1, <3>1
  <2> HIDE DEF holder, m
  <2>5. Cardinality(Businesses) < Cardinality(0..m)
    BY <1>1, <2>4 DEF m
  <2>6. PICK j, k \in 0..m : j # k /\ holder[j] = holder[k]
    BY <1>1, <2>3, <2>4, <2>5, FS_PigeonHole
  <2>7. QED
    BY <2>2, <2>6
<1>3. \E k \in free : \A j \in free : k <= j
  <2> HIDE DEF m
  <2>1. free \in SUBSET (0..m)
    OBVIOUS
  <2> HIDE DEF free
  <2>2. QED
    BY <1>1, <1>2, <2>1, FirstNumber
<1>4. PICK k \in free : FreeSlug(n) = <<n, k>>
  BY <1>3 DEF FreeSlug
<1>5. QED
  BY <1>4

\* A business keeps its owner and its slug.
LEMMA RowsLast ==
  ASSUME IInv, [Next]_vars, NEW b \in Existing
  PROVE  b \in Existing' /\ business'[b] = business[b]
<1>1. ASSUME NEW c \in Businesses, NEW u \in Users, Created(c, u)
      PROVE  business'[b] = business[b]
  BY <1>1 DEF Created, Existing
<1>2. QED
  BY <1>1, EffectKinds, Lasting DEF Quiet, Seated, InvitationChanged, Offered

\* What a creation looked at still is as it was.
SeenHolds ==
  \A w \in Workers : Is(w, "creating") =>
    /\ job[w].seen \subseteq Existing
    /\ \A b \in job[w].seen :
         business[b].owner # job[w].user /\ business[b].slug # job[w].slug

LEMMA SeenPreserved == ASSUME IInv, SeenHolds, [Next]_vars PROVE SeenHolds'
<1> SUFFICES ASSUME NEW w \in Workers, job'[w].step = "creating"
             PROVE  /\ job'[w].seen \subseteq Existing'
                    /\ \A b \in job'[w].seen : /\ business'[b].owner # job'[w].user
                                               /\ business'[b].slug # job'[w].slug
  BY DEF SeenHolds, Is
<1>0. TypeOK
  BY DEF IInv
<1>1. CASE job'[w] = job[w]
  BY <1>1, RowsLast DEF SeenHolds, Is
<1>2. ASSUME NEW u \in Users, NEW n \in Names, CreateChecks(w, u, n)
      PROVE  /\ job'[w].seen = Existing /\ job'[w].user = u /\ job'[w].slug = FreeSlug(n)
             /\ \A b \in Existing : business[b].owner # u /\ business[b].slug # FreeSlug(n)
  <2>1. ~Taken(FreeSlug(n))
    BY FreeSlugIsFree
  <2>2. PICK slug : slug = FreeSlug(n)
    OBVIOUS
  <2>3. job'[w].seen = Existing /\ job'[w].user = u /\ job'[w].slug = slug
    BY <1>0, <1>2, <2>2 DEF CreateChecks, Begin, Idle, TypeOK
  <2>4. QED
    BY <1>2, <2>1, <2>2, <2>3 DEF CreateChecks, Taken
<1>3. CASE \E u \in Users, n \in Names : CreateChecks(w, u, n)
  BY <1>2, <1>3, RowsLast
<1>4. CASE job'[w] = Idle
  BY <1>4 DEF Idle
<1>5. ASSUME NEW b \in Businesses, NEW a \in Users, Admit(w, b, a) PROVE FALSE
  BY <1>0, <1>5 DEF Admit, Begin, Idle, TypeOK
<1>6. ASSUME NEW u \in Users, NEW manage \in BOOLEAN, NEW S \in SUBSET Services,
             InviteReads(w, u, manage, S)
      PROVE  FALSE
  BY <1>0, <1>6 DEF InviteReads, Idle, TypeOK
<1>7. ASSUME NEW i \in Invitations, AcceptReads(w, i) PROVE FALSE
  BY <1>0, <1>7 DEF AcceptReads, Begin, Idle, TypeOK
<1>8. QED
  BY <1>0, <1>1, <1>3, <1>4, <1>5, <1>6, <1>7, JobKinds

\* A creation is refused for what it saw, and that was not there.
LEMMA RefusedHasMissed ==
  ASSUME IInv, SeenHolds, NEW w \in Workers, job[w].step = "creating",
         NEW b \in Businesses, CreateInserts(w, b), business' = business
  PROVE  Existing # job[w].seen
<1>1. TypeOK /\ job[w].user \in Users /\ None \notin Users
  BY DirectoryAssumption DEF IInv, JobOK, Is
<1>2. CASE Conflicts(w)
  BY <1>2 DEF Conflicts, SeenHolds, Is
<1>3. CASE ~Conflicts(w)
  <2>1. business'[b].owner = job[w].user
    <3>1. business' = [business EXCEPT ![b] = [owner |-> job[w].user, slug |-> job[w].slug]]
      BY <1>3 DEF CreateInserts
    <3>2. QED
      BY <1>1, <3>1 DEF TypeOK
  <2>2. QED
    BY <1>1, <2>1 DEF CreateInserts, Existing
<1>4. QED
  BY <1>2, <1>3

-----------------------------------------------------------------------------
(* The theorems.                                                           *)

LEMMA InitIInv == ASSUME Init PROVE IInv
<1>0. Existing = {} /\ None \notin Businesses \cup Users
  BY DirectoryAssumption DEF Init, Existing, NoBusiness
<1>1. TypeOK
  <2>1. NoMember \in MemberRow /\ NoService \in ServiceRow /\ NoInvitation \in InvitationRow
    BY DEF NoMember, MemberRow, NoService, ServiceRow, NoInvitation, InvitationRow
  <2> QED BY <2>1 DEF Init, TypeOK, NoBusiness, NoService
<1>2. JobOK
  BY DEF Init, JobOK, Is, Idle
<1>3. Invited /\ NoSeats /\ StaffConsistent
  BY DEF Init, Invited, NoSeats, StaffConsistent, NoInvitation, NoMember, Seats
<1>4. OwnerStays /\ LinksStayInBusiness
  BY <1>0 DEF Init, OwnerStays, LinksStayInBusiness
<1> QED BY <1>1, <1>2, <1>3, <1>4 DEF IInv

THEOREM Invariance == Spec => []IInv
<1>1. Init => IInv
  BY InitIInv
<1>2. IInv /\ [Next]_vars => IInv'
  BY TypePreserved, JobOKPreserved, InvitedPreserved, NoSeatsPreserved, OwnerPreserved,
     ConsistentPreserved, LinksPreserved DEF IInv
<1> QED BY <1>1, <1>2, PTL DEF Spec

\* The tables keep their types.
THEOREM TypeCorrect == Spec => []TypeOK
<1>1. IInv => TypeOK
  BY DEF IInv
<1> QED BY <1>1, Invariance, PTL

\* No invitation, acceptance or edit takes a business from its owner.
THEOREM OwnerKept == Spec => []OwnerStays
<1>1. IInv => OwnerStays
  BY DEF IInv
<1> QED BY <1>1, Invariance, PTL

\* Profiles and memberships agree, whatever acceptances and edits overlap.
THEOREM Consistent == Spec => []StaffConsistent
<1>1. IInv => StaffConsistent
  BY DEF IInv
<1> QED BY <1>1, Invariance, PTL

\* Staff are only ever linked to services of their own business.
THEOREM LinksKept == Spec => []LinksStayInBusiness
<1>1. IInv => LinksStayInBusiness
  BY DEF IInv
<1> QED BY <1>1, Invariance, PTL

\* What a creation looked at still is as it was, whoever else creates.
THEOREM SeenInvariance == Spec => [](IInv /\ SeenHolds)
<1>1. Init => SeenHolds
  BY DEF Init, SeenHolds, Is, Idle
<1>2. IInv /\ SeenHolds /\ [Next]_vars => SeenHolds'
  BY SeenPreserved
<1> QED BY <1>1, <1>2, Invariance, PTL DEF Spec

\* Who is told he already has a business, or that the slug is taken, met a
\* creation that committed after his request had looked.
THEOREM RefusalsAreRaces == Spec => RefusedMeansOverlap
<1>1. ASSUME IInv, SeenHolds, [Next]_vars
      PROVE  \A w \in Workers :
               job[w].step = "creating" /\ (\E b \in Businesses : CreateInserts(w, b))
                 /\ business' = business => Existing # job[w].seen
  BY <1>1, RefusedHasMissed
<1> QED BY <1>1, SeenInvariance, PTL DEF Spec, RefusedMeansOverlap

==============================================================================
