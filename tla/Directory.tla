----------------------------- MODULE Directory -----------------------------
(***************************************************************************)
(* The businesses, their owners and staff, the invitations staff join by,  *)
(* and the services they offer (modules businesses, memberships, staff and *)
(* services).                                                              *)
(*                                                                         *)
(* A request of a member passes the guard first, which reads his           *)
(* membership, and a handler that reads before its transaction is two      *)
(* steps more.  A staff profile is known by its business and user, as its  *)
(* membership is unique by them.  The permissions of a member are one: he  *)
(* may manage the business, its staff and its services, or not.            *)
(***************************************************************************)
EXTENDS Integers, FiniteSets

CONSTANTS
  Businesses, Users, Services, Invitations, \* the ids there may be
  Names,     \* the slugs the names of businesses give
  Workers,   \* the requests in progress
  None

ASSUME DirectoryAssumption ==
  /\ None \notin Businesses \cup Users \cup Services \cup Names
  /\ IsFiniteSet(Businesses)

VARIABLES
  business,   \* businesses, with their outlet and policy
  member,     \* business_memberships, by business and user
  profile,    \* staff_profiles: their status
  service,    \* services
  links,      \* staff_services
  invitation, \* staff_invitations
  job         \* what each request does

vars == <<business, member, profile, service, links, invitation, job>>

-----------------------------------------------------------------------------
(* Helpers.                                                                *)

Seats == Businesses \X Users

NoBusiness == [owner |-> None, slug |-> <<None, 0>>]
NoMember == [role |-> "none", status |-> "none", manage |-> FALSE]
NoService == [business |-> None, status |-> "none"]
NoInvitation ==
  [status |-> "none", business |-> None, user |-> None, manage |-> FALSE, services |-> {}]

\* A request between two steps, and what it read.
Idle == [step |-> "idle", business |-> None, user |-> None, slug |-> <<None, 0>>,
         invitation |-> None, manage |-> FALSE, services |-> {}, seen |-> {}]

Is(w, step) == job[w].step = step
Begin(w, fields) == Is(w, "idle") /\ job' = [job EXCEPT ![w] = fields]
Finish(w) == job' = [job EXCEPT ![w] = Idle]

Existing == {b \in Businesses : business[b].owner # None}
ServicesOf(b) == {s \in Services : service[s].business = b}
StaffOf(b) == {u \in Users : profile[<<b, u>>] # "none"}

\* The slug and its suffixes that no business has, the first of them.
Taken(slug) == \E b \in Existing : business[b].slug = slug

\* Deviation: the name's slug, whether taken or not.
BareSlug(n) == <<n, 0>>

FreeSlug(n) ==
  LET free == {k \in 0..Cardinality(Businesses) : ~Taken(<<n, k>>)}
  IN <<n, CHOOSE k \in free : \A j \in free : k <= j>>

-----------------------------------------------------------------------------
(* businesses.service.ts: create.                                          *)

\* One owned business per user, and a slug nobody has: both read before.
CreateChecks(w, u, n) ==
  /\ \A b \in Existing : business[b].owner # u
  /\ Begin(w, [Idle EXCEPT !.step = "creating", !.user = u, !.slug = FreeSlug(n),
                           !.seen = Existing])
  /\ UNCHANGED <<business, member, profile, service, links, invitation>>

\* The unique indexes on the owner and on the slug.
Conflicts(w) ==
  \E b \in Existing : business[b].owner = job[w].user \/ business[b].slug = job[w].slug

\* The business with its owner's membership; any conflict is answered
\* BUSINESS_LIMIT_REACHED.
CreateInserts(w, b) ==
  /\ Is(w, "creating") /\ b \notin Existing
  /\ IF Conflicts(w) THEN UNCHANGED <<business, member>>
     ELSE /\ business' = [business EXCEPT ![b] = [owner |-> job[w].user, slug |-> job[w].slug]]
          /\ member' = [member EXCEPT ![<<b, job[w].user>>] =
                          [role |-> "owner", status |-> "active", manage |-> TRUE]]
  /\ Finish(w)
  /\ UNCHANGED <<profile, service, links, invitation>>

-----------------------------------------------------------------------------
(* The guard (requirePermission): who is an active member with the         *)
(* permission is let through, whatever becomes of it afterwards.           *)

Admit(w, b, a) ==
  /\ member[<<b, a>>].status = "active" /\ member[<<b, a>>].manage
  /\ Begin(w, [Idle EXCEPT !.step = "admitted", !.business = b])
  /\ UNCHANGED <<business, member, profile, service, links, invitation>>

-----------------------------------------------------------------------------
(* invitations.service.ts.                                                 *)

\* Deviation: members may be invited like others.
Anyone(b, u) == TRUE

\* Not a member, or one who was deactivated.
Joinable(b, u) == member[<<b, u>>].status \in {"none", "inactive"}

InviteReads(w, u, manage, S) ==
  LET b == job[w].business IN
  /\ Is(w, "admitted")
  /\ S \subseteq ServicesOf(b) /\ Joinable(b, u)
  /\ job' = [job EXCEPT ![w] = [Idle EXCEPT !.step = "inviting", !.business = b, !.user = u,
                                            !.manage = manage, !.services = S]]
  /\ UNCHANGED <<business, member, profile, service, links, invitation>>

\* The partial unique index: an invitation past its expiry still is pending.
Pending(b, u) ==
  \E i \in Invitations : /\ invitation[i].status \in {"pending", "overdue"}
                         /\ invitation[i].business = b /\ invitation[i].user = u

InviteInserts(w, i) ==
  /\ Is(w, "inviting") /\ invitation[i].status = "none"
  /\ IF Pending(job[w].business, job[w].user) THEN UNCHANGED invitation
     ELSE invitation' = [invitation EXCEPT ![i] =
            [status |-> "pending", business |-> job[w].business, user |-> job[w].user,
             manage |-> job[w].manage, services |-> job[w].services]]
  /\ Finish(w)
  /\ UNCHANGED <<business, member, profile, service, links>>

InvitationExpires(i) ==
  /\ invitation[i].status = "pending"
  /\ invitation' = [invitation EXCEPT ![i].status = "overdue"]
  /\ UNCHANGED <<business, member, profile, service, links, job>>

\* The links of a seat become those to S.
Relink(b, u, S) ==
  links' = {l \in links : l[1] # <<b, u>>} \cup {<<b, u>>} \X S

\* accept: the invitation and the invitee's membership are read, ...
AcceptReads(w, i) ==
  LET b == invitation[i].business
      u == invitation[i].user
  IN /\ invitation[i].status = "pending" /\ Joinable(b, u)
     /\ Begin(w, [Idle EXCEPT !.step = "accepting", !.invitation = i, !.business = b, !.user = u,
                              !.seen = IF member[<<b, u>>].status = "none" THEN {} ELSE {b}])
     /\ UNCHANGED <<business, member, profile, service, links, invitation>>

\* ... and one transaction writes membership, profile, links and invitation.
\* A membership that came to be in between makes the insert fail.
Accepts(w) ==
  LET b == job[w].business
      u == job[w].user
      i == invitation[job[w].invitation]
  IN /\ Is(w, "accepting")
     /\ IF job[w].seen = {} /\ member[<<b, u>>].status # "none"
        THEN UNCHANGED <<member, profile, links, invitation>>
        ELSE /\ member' = [member EXCEPT ![<<b, u>>] =
                             [role |-> "staff", status |-> "active", manage |-> i.manage]]
             /\ profile' = [profile EXCEPT ![<<b, u>>] = "active"]
             /\ Relink(b, u, i.services)
             /\ invitation' = [invitation EXCEPT ![job[w].invitation].status = "accepted"]
     /\ Finish(w)
     /\ UNCHANGED <<business, service>>

-----------------------------------------------------------------------------
(* staff.service.ts: the owner has no profile and is not managed.          *)

\* Deviation: the membership keeps its status.
ProfileOnly(b, u, status, manage) ==
  /\ profile' = [profile EXCEPT ![<<b, u>>] = status]
  /\ member' = [member EXCEPT ![<<b, u>>].manage = manage]

SetSeat(b, u, status, manage) ==
  /\ profile' = [profile EXCEPT ![<<b, u>>] = status]
  /\ member' = [member EXCEPT ![<<b, u>>].status = status, ![<<b, u>>].manage = manage]

Managed(b, u) == u \in StaffOf(b) /\ member[<<b, u>>].role # "owner"

\* The status, the permissions and the services; what the request does not name
\* stays as it is.
UpdateStaff(w, u, status, manage, S) ==
  LET b == job[w].business IN
  /\ Is(w, "admitted") /\ Managed(b, u) /\ S \subseteq ServicesOf(b)
  /\ SetSeat(b, u, status, manage)
  /\ Relink(b, u, S)
  /\ Finish(w)
  /\ UNCHANGED <<business, service, invitation>>

DeactivateStaff(w, u) ==
  LET b == job[w].business IN
  /\ Is(w, "admitted") /\ Managed(b, u)
  /\ SetSeat(b, u, "inactive", member[<<b, u>>].manage)
  /\ Finish(w)
  /\ UNCHANGED <<business, service, links, invitation>>

-----------------------------------------------------------------------------
(* services.service.ts.                                                    *)

\* Deviation: profiles of any business will do.
AnyStaff(b, T) == T \subseteq {t \in Seats : profile[t] # "none"}

\* assertStaffInBusiness
StaffInBusiness(b, T) == T \subseteq {b} \X StaffOf(b)

CreateService(w, s, status, T) ==
  /\ Is(w, "admitted") /\ service[s].status = "none"
  /\ StaffInBusiness(job[w].business, T)
  /\ service' = [service EXCEPT ![s] = [business |-> job[w].business, status |-> status]]
  /\ links' = links \cup (T \X {s})
  /\ Finish(w)
  /\ UNCHANGED <<business, member, profile, invitation>>

\* Whether it is offered, and by whom.
UpdateService(w, s, status, T) ==
  /\ Is(w, "admitted") /\ s \in ServicesOf(job[w].business)
  /\ StaffInBusiness(job[w].business, T)
  /\ service' = [service EXCEPT ![s].status = status]
  /\ links' = {l \in links : l[2] # s} \cup (T \X {s})
  /\ Finish(w)
  /\ UNCHANGED <<business, member, profile, invitation>>

DeactivateService(w, s) ==
  /\ Is(w, "admitted") /\ s \in ServicesOf(job[w].business)
  /\ service' = [service EXCEPT ![s].status = "inactive"]
  /\ Finish(w)
  /\ UNCHANGED <<business, member, profile, links, invitation>>

\* The process stops: what was not committed is rolled back.
Stop(w) ==
  /\ ~Is(w, "idle")
  /\ Finish(w)
  /\ UNCHANGED <<business, member, profile, service, links, invitation>>

-----------------------------------------------------------------------------

Init ==
  /\ business = [b \in Businesses |-> NoBusiness]
  /\ member = [t \in Seats |-> NoMember]
  /\ profile = [t \in Seats |-> "none"]
  /\ service = [s \in Services |-> NoService]
  /\ links = {}
  /\ invitation = [i \in Invitations |-> NoInvitation]
  /\ job = [w \in Workers |-> Idle]

Creating(w) ==
  \/ \E u \in Users, n \in Names : CreateChecks(w, u, n)
  \/ \E b \in Businesses : CreateInserts(w, b)

Inviting(w) ==
  \/ \E u \in Users, manage \in BOOLEAN, S \in SUBSET Services : InviteReads(w, u, manage, S)
  \/ \E i \in Invitations : InviteInserts(w, i) \/ AcceptReads(w, i)
  \/ Accepts(w)

ManagingStaff(w) ==
  \E u \in Users :
    \/ DeactivateStaff(w, u)
    \/ \E status \in {"active", "inactive"}, manage \in BOOLEAN, S \in SUBSET Services :
         UpdateStaff(w, u, status, manage, S)

ManagingServices(w) ==
  \E s \in Services :
    \/ DeactivateService(w, s)
    \/ \E T \in SUBSET Seats, status \in {"active", "inactive"} :
         CreateService(w, s, status, T) \/ UpdateService(w, s, status, T)

Next ==
  \/ \E w \in Workers :
       \/ Creating(w) \/ Inviting(w) \/ ManagingStaff(w) \/ ManagingServices(w) \/ Stop(w)
       \/ \E b \in Businesses, a \in Users : Admit(w, b, a)
  \/ \E i \in Invitations : InvitationExpires(i)

Spec == Init /\ [][Next]_vars

-----------------------------------------------------------------------------
(* Properties.                                                             *)

\* Every business keeps the one owner it was created with, as an active member
\* with his permissions and without a staff profile, whatever invitations are
\* sent and accepted and whoever manages the staff (one owned business each).
OwnerStays ==
  \A b \in Existing, u \in Users :
    /\ member[<<b, u>>].role = "owner" <=> u = business[b].owner
    /\ u = business[b].owner =>
         /\ member[<<b, u>>] = [role |-> "owner", status |-> "active", manage |-> TRUE]
         /\ profile[<<b, u>>] = "none"
         /\ \A c \in Existing : business[c].owner = u => c = b

\* A staff member's profile, which bookings look at, has the status of his
\* membership, which the guard looks at; and who accepted an invitation has a
\* profile, which the answer to a repeated acceptance relies on.
StaffConsistent ==
  /\ \A t \in Seats : member[t].role = "staff" <=> profile[t] # "none"
  /\ \A t \in Seats : profile[t] # "none" => profile[t] = member[t].status
  /\ \A i \in Invitations : invitation[i].status = "accepted" =>
       profile[<<invitation[i].business, invitation[i].user>>] # "none"

\* Staff only do services of their own business, though the ids an invitation
\* or an edit names are checked long before the links are written.
LinksStayInBusiness ==
  \A l \in links : profile[l[1]] # "none" /\ service[l[2]].business = l[1][1]

\* An owner who passed the checks and is refused met another creation: some
\* business was created after he looked.
RefusedMeansOverlap ==
  [][\A w \in Workers :
       job[w].step = "creating" /\ (\E b \in Businesses : CreateInserts(w, b)) /\ business' = business
         => Existing # job[w].seen]_vars

=============================================================================
