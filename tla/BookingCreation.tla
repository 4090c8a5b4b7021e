--------------------------- MODULE BookingCreation ---------------------------
(***************************************************************************)
(* The creation of bookings of one business (createBookingRun), with the   *)
(* schedules, closed dates, staff and service it is checked against, and   *)
(* the staff who edit those while customers book.                          *)
(*                                                                         *)
(* Every read the code awaits on its own is a step of its own: the         *)
(* resources and rules, the closed date and opening hours, the pending     *)
(* booking to resume, and the transaction, which takes an advisory lock    *)
(* keyed by the customer, counts, inserts and commits.  A booking is known *)
(* by the request that made it.  The instants are minutes, of which a day  *)
(* has DayLength; the outlet's week is as long as the dates modelled.      *)
(***************************************************************************)
EXTENDS Schedules

CONSTANTS
  Requests,    \* the requests to create a booking
  Customers, Staff,
  None,        \* no request
  DayLength,   \* minutes of a day
  Dates,       \* the dates modelled, 0..k
  MaxNow,      \* bound: the clock stops here
  Duration,    \* the service's duration
  Lead, Advance, \* the policy's minimum lead minutes and maximum advance days
  PayWindow,   \* PAYMENT_EXPIRATION_MINUTES
  MaxActive,   \* MAX_ACTIVE_BOOKINGS
  Asks,        \* what a request may ask for
  HoursInputs, \* the opening hours an edit may send, per date
  StaffInputs, \* the schedules an edit may send, per date
  MaxEdits     \* bound: how many edits staff make

\* An outlet closes before midnight (TIME_RE in slots.ts), a schedule has finitely
\* many breaks, and the dates asked for are among those modelled.
ASSUME CreationAssumption ==
  /\ IsFiniteSet(Requests) /\ None \notin Requests
  /\ DayLength \in Nat \ {0} /\ Duration \in Nat \ {0}
  /\ Dates \subseteq Nat /\ MaxNow \in Nat
  /\ Lead \in Nat /\ Advance \in Nat /\ PayWindow \in Nat
  /\ MaxActive \in Nat /\ MaxEdits \in Nat
  /\ Asks # {}
  /\ Asks \subseteq [customer : Customers, staff : Staff, start : Nat, online : BOOLEAN]
  /\ \A h \in HoursInputs : h \in [Dates -> SUBSET [start : Nat, end : Nat]]
  /\ \A w \in StaffInputs :
       w \in [Dates -> [periods : SUBSET [start : Nat, end : Nat],
                        breaks : SUBSET [start : Nat, end : Nat]]]
  /\ \A h \in HoursInputs, d \in Dates : \A p \in h[d] : p.end <= DayLength
  /\ \A w \in StaffInputs, d \in Dates : IsFiniteSet(w[d].breaks)
  /\ \A a \in Asks : a.start \div DayLength \in Dates

VARIABLES
  now,
  hours,      \* outlet_operating_hours, per date
  closed,     \* closed_dates
  staff,      \* staff_profiles with their assignment and schedule
  service,    \* the service's status and staff_services
  edits,      \* how many edits were made
  pc, ask, seen, \* each request: its step, what it asks for and what it read
  lock,       \* the advisory lock of each customer: its holder
  booking,    \* the booking each request made
  reserved    \* booking_reservations, by booking

tables == <<hours, closed, staff, service, edits>>
vars == <<now, tables, pc, ask, seen, lock, booking, reserved>>

-----------------------------------------------------------------------------
(* Types and helpers.                                                      *)

\* The statuses of bookings as far as creation tells them apart: the blocking
\* ones, and those that hold no slot any more.
Blocking == {"pending_payment", "confirmed"}

Date(t) == t \div DayLength
Minute(t) == t % DayLength
Today == Date(now)

\* The slot a request asks for, in minutes of its day.
SlotAt(t) == Period(Minute(t), Minute(t) + Duration)

\* When a booking begins and ends.
Interval(r) == Period(ask[r].start, ask[r].start + Duration)

IsBlocking(r) == booking[r].status \in Blocking
ActiveOf(c) == {r \in Requests : IsBlocking(r) /\ ask[r].customer = c}

\* A staff member as he joins: assigned, and without a schedule of his own.
Row0 == [active |-> TRUE, here |-> TRUE, configured |-> FALSE, days |-> [d \in Dates |-> DayOff]]

Availability(row, d, periods) ==
  StaffAvailability(row.here, row.configured, row.days[d], periods)

At(r, step) == pc[r] = step
Goto(r, step) == pc' = [pc EXCEPT ![r] = step]

\* What a request has read before it reads anything, and what it asks for.
Unread == [row |-> Row0, edits |-> 0, at |-> 0]
Unasked == CHOOSE a \in Asks : TRUE

\* The steps between the first read of a request and its commit.
Underway == {"admitted", "checked", "ready", "counted"}

Forget(r) ==
  /\ ask' = [ask EXCEPT ![r] = Unasked]
  /\ seen' = [seen EXCEPT ![r] = Unread]

\* A request that is refused, or answered with an earlier booking, leaves
\* nothing behind.
Leave(r) == Goto(r, "answered") /\ Forget(r)

-----------------------------------------------------------------------------
(* Availability (getAvailability): the slots marked available for a date.  *)
(* Bookings and reservations are not among its inputs.                     *)

Eligible(s) == service.eligible = {} \/ s \in service.eligible

\* What the tables offer on date d when the clock shows t.
OfferedAt(t, d, s) ==
  IF /\ d \in Date(t)..(Date(t) + Advance) /\ d \notin closed
     /\ service.active /\ staff[s].active /\ Eligible(s)
  THEN BuildSlots(hours[d], Duration, Availability(staff[s], d, hours[d]),
                  IF d = Date(t) THEN Minute(t) + Lead ELSE 0)
  ELSE {}

OfferedOn(d, s) == OfferedAt(now, d, s)

-----------------------------------------------------------------------------
(* createBookingRun.                                                       *)

\* The resources are active, the staff member s may do it, and the start t
\* keeps the lead time and the horizon.
Admissible(s, t) ==
  /\ service.active /\ staff[s].active /\ Eligible(s)
  /\ t > now /\ t >= now + Lead
  /\ Date(t) <= Today + Advance

\* Deviation: the staff member's own schedule is not looked at.
FitsOutlet(row, t) == Date(t) \notin closed /\ Covers(hours[Date(t)], SlotAt(t))

\* assertSlotWithinSchedules: row is the staff member as read before.
Fits(row, t) ==
  /\ Date(t) \notin closed
  /\ Covers(hours[Date(t)], SlotAt(t))
  /\ Covers(Availability(row, Date(t), hours[Date(t)]), SlotAt(t))

\* The request reads business, outlet, service and staff member and checks them.
Admit(r, a) ==
  /\ At(r, "new")
  /\ IF Admissible(a.staff, a.start)
     THEN /\ Goto(r, "admitted")
          /\ ask' = [ask EXCEPT ![r] = a]
          /\ seen' = [seen EXCEPT ![r] = [row |-> staff[a.staff], edits |-> edits, at |-> now]]
     ELSE Leave(r)
  /\ UNCHANGED <<now, tables, lock, booking, reserved>>

\* The closed date and the opening hours, read after the staff member.
CheckSlot(r) ==
  /\ At(r, "admitted")
  /\ IF Fits(seen[r].row, ask[r].start)
     THEN Goto(r, "checked") /\ UNCHANGED <<ask, seen>>
     ELSE Leave(r)
  /\ UNCHANGED <<now, tables, lock, booking, reserved>>

\* A pending booking of the same customer for the same slot, still payable.
Resumable(r) ==
  {q \in Requests : booking[q].status = "pending_payment" /\ ask[q] = ask[r]
                    /\ booking[q].expires > now}

\* resumeRecoverableOnlineBooking: what an earlier attempt left is taken up.
LookForPending(r) ==
  /\ At(r, "checked")
  /\ IF ask[r].online /\ Resumable(r) # {}
     THEN Leave(r)
     ELSE Goto(r, "ready") /\ UNCHANGED <<ask, seen>>
  /\ UNCHANGED <<now, tables, lock, booking, reserved>>

\* Deviation: nothing serializes the requests of a customer.
LockAnyway(r) == TRUE

LockFree(r) == lock[ask[r].customer] = None

Unlock(r) == lock' = [lock EXCEPT ![ask[r].customer] = None]

\* The transaction takes the customer's lock and counts the active bookings.
LockAndCount(r) ==
  /\ At(r, "ready") /\ LockFree(r)
  /\ IF Cardinality(ActiveOf(ask[r].customer)) >= MaxActive
     THEN Leave(r) /\ UNCHANGED lock
     ELSE /\ Goto(r, "counted") /\ UNCHANGED <<ask, seen>>
          /\ lock' = [lock EXCEPT ![ask[r].customer] = r]
  /\ UNCHANGED <<now, tables, booking, reserved>>

\* Deviation: only a reservation of the very same slot conflicts.
SameStart(r, q) == ask[q].staff = ask[r].staff /\ ask[q].start = ask[r].start

\* The exclusion constraint: one staff member, overlapping ranges.
Excludes(r, q) == ask[q].staff = ask[r].staff /\ Overlap(Interval(r), Interval(q))

\* The inserts and the commit; a conflicting reservation rolls it all back.
InsertAndCommit(r) ==
  /\ At(r, "counted")
  /\ Unlock(r)
  /\ IF \E q \in reserved : Excludes(r, q)
     THEN Leave(r) /\ UNCHANGED <<booking, reserved>>
     ELSE /\ Goto(r, "created") /\ UNCHANGED ask
          /\ seen' = [seen EXCEPT ![r] = Unread]
          /\ booking' = [booking EXCEPT ![r] =
               [status |-> IF ask[r].online THEN "pending_payment" ELSE "confirmed",
                expires |-> IF ask[r].online THEN seen[r].at + PayWindow ELSE 0]]
          /\ reserved' = reserved \cup {r}
  /\ UNCHANGED <<now, tables>>

\* The process stops: a transaction that was open is rolled back.
Stop(r) ==
  /\ pc[r] \in Underway
  /\ Goto(r, "stopped") /\ Forget(r)
  /\ IF At(r, "counted") THEN Unlock(r) ELSE UNCHANGED lock
  /\ UNCHANGED <<now, tables, booking, reserved>>

-----------------------------------------------------------------------------
(* What ends or confirms a booking: one transaction each.                  *)

\* A cancellation, an expiration, a completion or a no-show.
EndBooking(r) ==
  /\ IsBlocking(r)
  /\ booking' = [booking EXCEPT ![r] = [status |-> "ended", expires |-> 0]]
  /\ reserved' = reserved \ {r}
  /\ UNCHANGED <<now, tables, pc, ask, seen, lock>>

\* A payment that succeeded.
ConfirmPaid(r) ==
  /\ booking[r].status = "pending_payment"
  /\ booking' = [booking EXCEPT ![r] = [status |-> "confirmed", expires |-> 0]]
  /\ UNCHANGED <<now, tables, pc, ask, seen, lock, reserved>>

-----------------------------------------------------------------------------
(* The edits.                                                              *)

Edit == edits < MaxEdits /\ edits' = edits + 1

Untouched == UNCHANGED <<now, pc, ask, seen, lock, booking, reserved>>

\* The whole week is replaced, when every day of it is valid.
ReplaceOperatingHours(week) ==
  /\ Edit
  /\ \A d \in Dates : ValidPeriods(week[d])
  /\ hours' = week
  /\ UNCHANGED <<closed, staff, service>> /\ Untouched

\* Two replacements at once: the one that deletes first does not see the rows
\* of the other, and the unique index refuses only a day both of them opened.
MergeOperatingHours(week) ==
  /\ Edit
  /\ \A d \in Dates : ValidPeriods(week[d]) /\ (hours[d] = {} \/ week[d] = {})
  /\ hours' = [d \in Dates |-> hours[d] \cup week[d]]
  /\ UNCHANGED <<closed, staff, service>> /\ Untouched

\* Whatever is booked on it; there is no way to reopen a date.
CreateClosedDate(d) ==
  /\ Edit
  /\ d >= Today /\ d \notin closed
  /\ closed' = closed \cup {d}
  /\ UNCHANGED <<hours, staff, service>> /\ Untouched

\* Every day of the week gets its rows, so from here on it counts as configured.
ReplaceStaffSchedule(s, week) ==
  /\ Edit
  /\ \A d \in Dates : ValidStaffDay(week[d])
  /\ staff' = [staff EXCEPT ![s].configured = TRUE, ![s].days = week]
  /\ UNCHANGED <<hours, closed, service>> /\ Untouched

\* A staff member is deactivated, reactivated or assigned to other outlets.
UpdateStaff(s, active, here) ==
  /\ Edit
  /\ staff' = [staff EXCEPT ![s].active = active, ![s].here = here]
  /\ UNCHANGED <<hours, closed, service>> /\ Untouched

UpdateService(active, eligible) ==
  /\ Edit
  /\ service' = [active |-> active, eligible |-> eligible]
  /\ UNCHANGED <<hours, closed, staff>> /\ Untouched

Tick ==
  /\ now < MaxNow
  /\ now' = now + 1
  /\ UNCHANGED <<tables, pc, ask, seen, lock, booking, reserved>>

-----------------------------------------------------------------------------

Init ==
  /\ now = 0
  /\ hours \in {h \in HoursInputs : \A d \in Dates : ValidPeriods(h[d])}
  /\ closed = {}
  /\ staff = [s \in Staff |-> Row0]
  /\ service = [active |-> TRUE, eligible |-> {}]
  /\ edits = 0
  /\ pc = [r \in Requests |-> "new"]
  /\ ask = [r \in Requests |-> Unasked]
  /\ seen = [r \in Requests |-> Unread]
  /\ lock = [c \in Customers |-> None]
  /\ booking = [r \in Requests |-> [status |-> "none", expires |-> 0]]
  /\ reserved = {}

Step(r) ==
  CheckSlot(r) \/ LookForPending(r) \/ LockAndCount(r) \/ InsertAndCommit(r)

Request(r) == \E a \in Asks : Admit(r, a)

Editing ==
  \/ \E week \in HoursInputs : ReplaceOperatingHours(week) \/ MergeOperatingHours(week)
  \/ \E d \in Dates : CreateClosedDate(d)
  \/ \E s \in Staff, week \in StaffInputs : ReplaceStaffSchedule(s, week)
  \/ \E s \in Staff, active, here \in BOOLEAN : UpdateStaff(s, active, here)
  \/ \E active \in BOOLEAN, eligible \in SUBSET Staff : UpdateService(active, eligible)

Next ==
  \/ \E r \in Requests :
       Request(r) \/ Step(r) \/ Stop(r) \/ EndBooking(r) \/ ConfirmPaid(r)
  \/ Editing
  \/ Tick

Spec == Init /\ [][Next]_vars

-----------------------------------------------------------------------------
(* Properties.                                                             *)

StaffRow == [active : BOOLEAN, here : BOOLEAN, configured : BOOLEAN,
             days : [Dates -> [periods : SUBSET [start : Nat, end : Nat],
                               breaks : SUBSET [start : Nat, end : Nat]]]]

\* The values the variables take; a lock is held by a request in its transaction.
TypeOK ==
  /\ now \in 0..MaxNow
  /\ hours \in [Dates -> SUBSET [start : Nat, end : Nat]]
  /\ closed \subseteq Dates
  /\ staff \in [Staff -> StaffRow]
  /\ service \in [active : BOOLEAN, eligible : SUBSET Staff]
  /\ edits \in 0..MaxEdits
  /\ pc \in [Requests -> Underway \cup {"new", "created", "answered", "stopped"}]
  /\ ask \in [Requests -> Asks]
  /\ seen \in [Requests -> [row : StaffRow, edits : 0..MaxEdits, at : 0..MaxNow]]
  /\ lock \in [Customers -> Requests \cup {None}]
  /\ \A c \in Customers, r \in Requests :
       lock[c] = r <=> pc[r] = "counted" /\ ask[r].customer = c
  /\ booking \in [Requests -> [status : {"none", "ended"} \cup Blocking, expires : Nat]]
  /\ reserved \subseteq Requests

\* No staff member is booked twice for the same time, whatever requests,
\* cancellations and edits overlap (ADR 0027): two bookings that still hold
\* their slots and share the staff member do not overlap.
NoDoubleBooking ==
  \A r, q \in Requests :
    r # q /\ IsBlocking(r) /\ IsBlocking(q) /\ ask[r].staff = ask[q].staff
      => ~Overlap(Interval(r), Interval(q))

\* A customer never holds more active bookings at the business than the limit,
\* though the count is read before the insert (bookings.service.ts:240).
ActiveLimit == \A c \in Customers : Cardinality(ActiveOf(c)) <= MaxActive

\* When s may work on date d during the slot, said without the functions of
\* slots.ts: the outlet is open throughout, and a staff member with a schedule
\* of his own has one period around it and no break inside it.
CanWork(s, d, slot) ==
  LET row == staff[s]
      Around(p) == p.start <= slot.start /\ slot.end <= p.end
  IN /\ d \notin closed /\ row.here
     /\ \E p \in hours[d] : Around(p)
     /\ row.configured =>
          /\ \E p \in row.days[d].periods : Around(p)
          /\ \A b \in row.days[d].breaks : ~Overlap(b, slot)

\* The slots that availability offers are those of the grid that the opening
\* hours, closed dates, staff schedules and breaks leave and, today, those that
\* keep the lead time (getAvailability against the tables).  This is about the
\* schedules only: a slot that a booking holds is offered all the same, for bookings
\* are no input of getAvailability, though the documents list the active ones among
\* its inputs (00-product-brief.md:698, backend-brief.md:1026).
OffersMatchSchedules ==
  \A d \in Dates, s \in Staff :
    OfferedOn(d, s) =
      IF service.active /\ staff[s].active /\ Eligible(s) /\ d \in Today..(Today + Advance)
      THEN {slot \in SlotGrid(hours[d], Duration) :
              CanWork(s, d, slot) /\ (d = Today => slot.start >= Minute(now) + Lead)}
      ELSE {}

\* What a asks for was offered when the clock showed t, by the tables as they are.
Offered(a, t) == SlotAt(a.start) \in OfferedAt(t, Date(a.start), a.staff)

\* Why a request for an offered slot is answered without a booking of its own: it
\* takes up a pending one, the customer has as many as he may, or the staff member
\* is booked.
TurnedAway(r) ==
  \/ At(r, "checked") /\ ask[r].online /\ Resumable(r) # {}
  \/ At(r, "ready") /\ Cardinality(ActiveOf(ask[r].customer)) >= MaxActive
  \/ At(r, "counted") /\ \E q \in reserved : Excludes(r, q)

\* The schedules never refuse a slot that they offer, though offer and checks are
\* computed by different code.  A request for an offered slot that is still to come
\* is admitted; on a later date it must keep the lead time besides, which the
\* offer applies to the current date only.  Once admitted, and with no edit since,
\* it is answered without a booking of its own only for a reason of TurnedAway.
OfferedIsAccepted ==
  [][\A r \in Requests :
       /\ \A a \in Asks :
            /\ Admit(r, a) /\ Offered(a, now) /\ a.start > now
            /\ Date(a.start) # Today => a.start >= now + Lead
            => pc'[r] = "admitted"
       /\ /\ pc[r] \in Underway /\ pc'[r] = "answered"
          /\ seen[r].edits = edits /\ Offered(ask[r], seen[r].at)
          => TurnedAway(r)]_vars

\* A booking is made on checks read before its transaction.  When nobody edited
\* the tables meanwhile, it lies within them at the moment it is made.
BookedWithinSchedule ==
  [][\A r \in Requests :
       booking[r].status = "none" /\ IsBlocking(r)' /\ seen[r].edits = edits
         => /\ CanWork(ask[r].staff, Date(ask[r].start), SlotAt(ask[r].start))
            /\ staff[ask[r].staff].active /\ service.active /\ Eligible(ask[r].staff)]_vars

=============================================================================
