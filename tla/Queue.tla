-------------------------------- MODULE Queue --------------------------------
(***************************************************************************)
(* The queue of one outlet on one business date: its counter row, its      *)
(* entries, and the bookings and reservations behind them.                 *)
(*                                                                         *)
(* A staff command names an entry and the version its client was shown.    *)
(* The entry is read first; the transaction of the command then trusts     *)
(* that read for everything but the version, which its update compares.    *)
(* work[a] is the command agent a has in flight, with what it has read.    *)
(***************************************************************************)
EXTENDS Integers, FiniteSets, FiniteSetsExt, SequencesExt, StatusPolicy

CONSTANTS
  Bookings,    \* scheduled bookings of the date, and walk-ins to come
  Scheduled,   \* the bookings made in advance
  Staff,       \* the active staff profiles
  NoStaff,
  Agents,      \* staff requests that may run at once
  MaxVersion,  \* bound: the version an entry may reach
  MaxQueueVersion  \* bound: the queue version a reorder may still start from

ASSUME QueueAssumption ==
  /\ IsFiniteSet(Bookings)
  /\ Scheduled \subseteq Bookings
  /\ NoStaff \notin Staff
  /\ MaxVersion \in Nat \ {0} /\ MaxQueueVersion \in Nat

VARIABLES
  booking,       \* bookings.status by booking, "none" before a walk-in comes
  reservation,   \* the bookings with a booking_reservations row
  entry,         \* the queue_entries row of each booking
  lastNumber,    \* queue_counters.last_number
  queueVersion,  \* queue_counters.version
  returned,      \* bookings with a skipped -> waiting row in the history
  work           \* what each agent has left to do

board == <<entry, lastNumber, queueVersion, returned>>
bookings == <<booking, reservation>>
vars == <<board, bookings, work>>

-----------------------------------------------------------------------------
(* Types and the order of the queue.                                       *)

NoEntry == [status |-> "none", sort |-> 0, number |-> 0, version |-> 0,
            staff |-> NoStaff]

Idle == [pc |-> "idle"]

CommandNames == {"call", "recall", "skip", "return", "start", "complete", "no_show"}

Work ==
  {Idle}
  \cup [pc: {"end", "commit"}, op: CommandNames, booking: Bookings,
        from: QueueStatuses, expected: Nat, end: Nat]
  \cup [pc: {"reorder", "rearrange"}, expected: Nat, order: Seq(Bookings)]
  \cup [pc: {"no_show"}, booking: Bookings]

Free(a) == work[a].pc = "idle"

At(a, pc) == work[a].pc = pc

Goto(a, w) == work' = [work EXCEPT ![a] = w]

InStatuses(S) == {b \in Bookings : entry[b].status \in S}

ActiveQueueStatuses == {"waiting", "called", "in_service", "skipped"}

\* sortOrder, checkedInAt, queueNumber.  checkedInAt is read before the transaction
\* that hands out the number; the model takes the two in the same order.
Before(c, b) ==
  \/ entry[c].sort < entry[b].sort
  \/ entry[c].sort = entry[b].sort /\ entry[c].number < entry[b].number

\* The people a customer is told are ahead of him.
Ahead(b) == {c \in InStatuses(AheadStatuses) : Before(c, b)}

-----------------------------------------------------------------------------
(* Entering the queue.                                                     *)

\* A reorder under way holds the counter row.
CounterFree == \A a \in Agents : ~At(a, "rearrange")

\* Both ways in take the next number of the counter, and the place it gives.
Enter(b) ==
  /\ CounterFree
  /\ lastNumber' = lastNumber + 1
  /\ queueVersion' = IF lastNumber = 0 THEN 1 ELSE queueVersion + 1
  /\ entry' = [entry EXCEPT ![b] =
       [status |-> "waiting", sort |-> lastNumber + 1, number |-> lastNumber + 1,
        version |-> 1, staff |-> NoStaff]]
  /\ booking' = [booking EXCEPT ![b] = "waiting"]
  /\ UNCHANGED <<reservation, returned>>

\* checkInRun: the booking's status is read again under its row lock, and a
\* second entry for it is refused.
CheckIn(b) ==
  /\ b \in Scheduled
  /\ booking[b] = "confirmed"
  /\ entry[b] = NoEntry
  /\ Enter(b)
  /\ UNCHANGED work

\* walkInRun creates booking and entry together, without a reservation.
WalkIn(b) ==
  /\ b \notin Scheduled
  /\ booking[b] = "none"
  /\ Enter(b)
  /\ UNCHANGED work

\* cancelTransaction, guarded by the status: a queued booking is out of reach.
Cancel(b) ==
  /\ booking[b] = "confirmed"
  /\ booking' = [booking EXCEPT ![b] = "cancelled"]
  /\ reservation' = reservation \ {b}
  /\ UNCHANGED <<board, work>>

-----------------------------------------------------------------------------
(* Staff commands.                                                         *)

\* The entry statuses a command accepts.
Accepts(op) ==
  CASE op = "call"                -> {"waiting"}
    [] op = "return"              -> {"skipped"}
    [] op = "complete"            -> {"in_service"}
    [] op = "no_show"             -> {"called", "skipped"}
    [] OTHER                      -> {"called"}

\* The entry is read.  A client is never shown a version that is still to come,
\* and an older one than the row's is refused by the update: the version sent
\* is the one read.
BeginCommand(a, b, op) ==
  /\ Free(a)
  /\ entry[b].status \in Accepts(op)
  /\ Goto(a, [pc |-> IF op = "return" THEN "end" ELSE "commit", op |-> op,
              booking |-> b, from |-> entry[b].status,
              expected |-> entry[b].version, end |-> 0])
  /\ UNCHANGED <<board, bookings>>

\* The sortOrders of the active entries, or 0: with none active the update that
\* follows is refused, for the entry has left "skipped".
ActivePlaces == {0} \cup {entry[b].sort : b \in InStatuses(ActiveQueueStatuses)}

\* The aggregate query of returnToWaiting, a statement before its update.
ReadEnd(a) ==
  /\ At(a, "end")
  /\ \E end \in ActivePlaces :
       /\ \A place \in ActivePlaces : place <= end
       /\ Goto(a, [work[a] EXCEPT !.pc = "commit", !.end = end])
  /\ UNCHANGED <<board, bookings>>

\* Deviation: the row is written whatever its version.
Unversioned(w) == TRUE

\* versionedQueueUpdate: the row still has the version the client was shown.
Versioned(w) == entry[w.booking].version = w.expected

Committing(a, op) ==
  /\ At(a, "commit") /\ work[a].op = op
  /\ Versioned(work[a])
  /\ work[a].expected < MaxVersion
  /\ Goto(a, Idle)

\* Deviation: a status change that the other clients cannot tell.
SetStatusQuietly(b, status) == entry' = [entry EXCEPT ![b].status = status]

SetStatus(b, status) ==
  entry' = [entry EXCEPT ![b].status = status, ![b].version = @ + 1]

\* Deviation: a skipped customer's booking stays called.
SyncBookingUnlessSkipped(w, to) ==
  booking' = IF to = "skipped" THEN booking
             ELSE [booking EXCEPT ![w.booking] = BookingStatusForQueue(to)]

\* The booking follows its entry, by id and unconditionally.
SyncBooking(w, to) ==
  booking' = IF BookingStatusForQueue(w.from) = BookingStatusForQueue(to)
             THEN booking
             ELSE [booking EXCEPT ![w.booking] = BookingStatusForQueue(to)]

\* One called entry per outlet and date.
Call(a) ==
  /\ Committing(a, "call")
  /\ InStatuses({"called"}) \ {work[a].booking} = {}
  /\ SetStatus(work[a].booking, "called")
  /\ SyncBooking(work[a], "called")
  /\ UNCHANGED <<reservation, lastNumber, queueVersion, returned>>

Recall(a) ==
  /\ Committing(a, "recall")
  /\ entry' = [entry EXCEPT ![work[a].booking].version = @ + 1]
  /\ UNCHANGED <<bookings, lastNumber, queueVersion, returned>>

Skip(a) ==
  /\ Committing(a, "skip")
  /\ SetStatus(work[a].booking, "skipped")
  /\ SyncBooking(work[a], "skipped")
  /\ UNCHANGED <<reservation, lastNumber, queueVersion, returned>>

\* Deviation: the place of the last one.
PlaceOfLast(end) == end

PlaceAfter(end) == end + 1

ReturnToWaiting(a) ==
  /\ Committing(a, "return")
  /\ entry' = [entry EXCEPT ![work[a].booking].status = "waiting",
                            ![work[a].booking].version = @ + 1,
                            ![work[a].booking].sort = PlaceAfter(work[a].end)]
  /\ returned' = returned \cup {work[a].booking}
  /\ UNCHANGED <<bookings, lastNumber, queueVersion>>

\* One entry in service per staff profile.
StartService(a, s) ==
  /\ Committing(a, "start")
  /\ \A b \in InStatuses({"in_service"}) \ {work[a].booking} : entry[b].staff # s
  /\ entry' = [entry EXCEPT ![work[a].booking].status = "in_service",
                            ![work[a].booking].version = @ + 1,
                            ![work[a].booking].staff = s]
  /\ SyncBooking(work[a], "in_service")
  /\ UNCHANGED <<reservation, lastNumber, queueVersion, returned>>

\* Deviation: the slot is kept after the visit.
KeepReservation(b) == UNCHANGED reservation

ReleaseReservation(b) == reservation' = reservation \ {b}

Complete(a) ==
  /\ Committing(a, "complete")
  /\ SetStatus(work[a].booking, "completed")
  /\ SyncBooking(work[a], "completed")
  /\ ReleaseReservation(work[a].booking)
  /\ UNCHANGED <<lastNumber, queueVersion, returned>>

MarkNoShowEntry(a) ==
  /\ Committing(a, "no_show")
  /\ SetStatus(work[a].booking, "no_show")
  /\ SyncBooking(work[a], "no_show")
  /\ ReleaseReservation(work[a].booking)
  /\ UNCHANGED <<lastNumber, queueVersion, returned>>

-----------------------------------------------------------------------------
(* The no-show of a booking that never checked in, and reordering.         *)

BeginNoShow(a, b) ==
  /\ Free(a)
  /\ booking[b] = "confirmed"
  /\ Goto(a, [pc |-> "no_show", booking |-> b])
  /\ UNCHANGED <<board, bookings>>

\* Written by id: the booking may have checked in, or been cancelled, since.
MarkNoShowBooking(a) ==
  /\ At(a, "no_show")
  /\ booking' = [booking EXCEPT ![work[a].booking] = "no_show"]
  /\ ReleaseReservation(work[a].booking)
  /\ Goto(a, Idle)
  /\ UNCHANGED board

\* The client arranges the entries it was shown at that queue version.
BeginReorder(a) ==
  /\ Free(a)
  /\ lastNumber > 0
  /\ \E order \in SetToSeqs(InStatuses(ReorderableStatuses)) :
       Goto(a, [pc |-> "reorder", expected |-> queueVersion, order |-> order])
  /\ UNCHANGED <<board, bookings>>

\* reorderRun: the counter still has that version, and is locked by the update;
\* the list is exactly the reorderable entries, which are only read.
CheckReorder(a) ==
  /\ At(a, "reorder") /\ CounterFree
  /\ work[a].expected = queueVersion /\ queueVersion < MaxQueueVersion
  /\ ToSet(work[a].order) = InStatuses(ReorderableStatuses)
  /\ Goto(a, [work[a] EXCEPT !.pc = "rearrange"])
  /\ UNCHANGED <<board, bookings>>

\* The places are written by id, whatever commands did to the entries since.
\* Versions stay: a command in flight is not refused.
Reorder(a) ==
  /\ At(a, "rearrange")
  /\ LET order == work[a].order
         placeOf(b) == CHOOSE i \in 1..Len(order) : order[i] = b
     IN  entry' = [b \in Bookings |->
           IF b \in ToSet(order) THEN [entry[b] EXCEPT !.sort = placeOf(b)]
           ELSE entry[b]]
  /\ queueVersion' = queueVersion + 1
  /\ Goto(a, Idle)
  /\ UNCHANGED <<bookings, lastNumber, returned>>

\* Refused (a conflict, a unique index) or cut short: the transaction is undone.
RollBack(a) ==
  /\ ~Free(a)
  /\ Goto(a, Idle)
  /\ UNCHANGED <<board, bookings>>

-----------------------------------------------------------------------------

Init ==
  /\ booking = [b \in Bookings |-> IF b \in Scheduled THEN "confirmed" ELSE "none"]
  /\ reservation = Scheduled
  /\ entry = [b \in Bookings |-> NoEntry]
  /\ lastNumber = 0 /\ queueVersion = 0
  /\ returned = {}
  /\ work = [a \in Agents |-> Idle]

Commit(a) ==
  \/ Call(a) \/ Recall(a) \/ Skip(a) \/ ReturnToWaiting(a)
  \/ \E s \in Staff : StartService(a, s)
  \/ Complete(a) \/ MarkNoShowEntry(a)

Next ==
  \/ \E b \in Bookings : CheckIn(b) \/ WalkIn(b) \/ Cancel(b)
  \/ \E a \in Agents :
       \/ \E b \in Bookings, op \in CommandNames : BeginCommand(a, b, op)
       \/ ReadEnd(a) \/ Commit(a)
       \/ \E b \in Bookings : BeginNoShow(a, b)
       \/ MarkNoShowBooking(a)
       \/ BeginReorder(a) \/ CheckReorder(a) \/ Reorder(a)
       \/ RollBack(a)

Spec == Init /\ [][Next]_vars

-----------------------------------------------------------------------------
(* Properties.                                                             *)

TypeOK ==
  /\ booking \in [Bookings -> BookingStatuses \cup {"none"}]
  /\ reservation \subseteq Scheduled
  /\ entry \in [Bookings -> [status: QueueStatuses \cup {"none"}, sort: Nat,
                             number: Nat, version: 0..MaxVersion,
                             staff: Staff \cup {NoStaff}]]
  /\ lastNumber \in Nat /\ queueVersion \in Nat
  /\ returned \subseteq Bookings
  /\ work \in [Agents -> Work]

\* A command that still finds its version finds the status it read: no write to
\* an entry's status leaves its version alone, so the check made before the
\* transaction is as good as one made in it.
CommandMemory ==
  \A a \in Agents : work[a].pc \in {"end", "commit"} =>
    LET w == work[a] IN
      /\ w.from \in Accepts(w.op)
      /\ w.expected \in 1..entry[w.booking].version
      /\ Versioned(w) => entry[w.booking].status = w.from

\* The booking of a queued customer says what his entry says, whatever commands
\* raced; the one exception is a no-show written over it by a stale request.
\* "cancelled" is never written over a queued booking.
EntryMatchesBooking ==
  \A b \in Bookings : entry[b] # NoEntry =>
    booking[b] \in {BookingStatusForQueue(entry[b].status), "no_show"}

\* A booking that left the queue, or never came, does not keep its slot.
NoOrphanReservation ==
  \A b \in reservation : booking[b] \in BlockingStatuses

EntriesMove ==
  \A b \in Bookings :
    entry[b] # NoEntry /\ entry'[b].status # entry[b].status =>
      /\ CanTransitionQueue(entry[b].status, entry'[b].status)
      /\ entry'[b].version = entry[b].version + 1

\* Every entry moves along the queue table, one version per command, although a
\* command checks the status it read before its transaction.
QueueLifecycle == [][EntriesMove]_vars

Rearranged ==
  \E b \in Bookings : /\ entry'[b].sort # entry[b].sort
                      /\ entry'[b].version = entry[b].version

\* A customer who kept his place is told a smaller number of people ahead, never
\* a larger one: nobody passes him, except by a reorder, or by a return that
\* looked for the end of the queue before he arrived there.
NobodyPassesWhoWaits ==
  [][\A b \in Bookings \ returned :
       entry[b].status = "waiting" /\ entry'[b].status = "waiting" =>
         \/ Ahead(b)' \subseteq Ahead(b)
         \/ Rearranged
         \/ \E a \in Agents : /\ At(a, "commit") /\ work[a].op = "return"
                              /\ work[a].end < entry[b].sort]_vars

=============================================================================
