----------------------------- MODULE QueueProofs -----------------------------
(***************************************************************************)
(* Theorems about Queue, for every set of bookings, staff and agents.      *)
(***************************************************************************)
EXTENDS Queue, FiniteSetTheorems, TLAPS

Entry == [status: QueueStatuses \cup {"none"}, sort: Nat, number: Nat,
          version: 0..MaxVersion, staff: Staff \cup {NoStaff}]

Command == [pc: {"end", "commit"}, op: CommandNames, booking: Bookings,
            from: QueueStatuses, expected: Nat, end: Nat]

-----------------------------------------------------------------------------
(* Type correctness.                                                       *)

LEMMA WorkAt ==
  ASSUME TypeOK, NEW a \in Agents
  PROVE  /\ work[a].pc \in {"end", "commit"} => work[a] \in Command
         /\ At(a, "reorder") \/ At(a, "rearrange") =>
              /\ work[a].order \in Seq(Bookings)
              /\ work[a] \in [pc: {"reorder", "rearrange"}, expected: Nat,
                              order: Seq(Bookings)]
         /\ At(a, "no_show") => work[a].booking \in Bookings
<1>1. work[a] \in Work
  BY DEF TypeOK
<1>2. QED
  BY <1>1 DEF Work, Idle, At, Command

LEMMA GotoType ==
  ASSUME TypeOK, NEW a \in Agents, NEW w \in Work, Goto(a, w)
  PROVE  work' \in [Agents -> Work]
BY DEF TypeOK, Goto

LEMMA IdleIsWork == Idle \in Work
BY DEF Work

\* A client's arrangement is a sequence of bookings.
LEMMA OrderType ==
  ASSUME NEW S \in SUBSET Bookings, NEW order \in SetToSeqs(S)
  PROVE  order \in Seq(Bookings)
<1>1. IsFiniteSet(S)
  BY QueueAssumption, FS_Subset
<1>2. Cardinality(S) \in Nat
  BY <1>1, FS_CardinalityType
<1>3. PICK n \in Nat : order \in [1..n -> S]
  BY <1>2 DEF SetToSeqs
<1>4. QED
  BY <1>3

LEMMA EntryType ==
  ASSUME TypeOK
  PROVE  entry \in [Bookings -> Entry]
BY DEF TypeOK, Entry

\* What a commit finds: the row at the version the client was shown.
LEMMA CommitAt ==
  ASSUME TypeOK, NEW a \in Agents, NEW op, Committing(a, op)
  PROVE  /\ work[a] \in Command
         /\ work[a].op = op
         /\ entry[work[a].booking].version = work[a].expected
         /\ work[a].expected + 1 \in 0..MaxVersion
         /\ work' \in [Agents -> Work]
<1>1. work[a] \in Command
  BY WorkAt DEF Committing, At
<1>2. work[a].expected + 1 \in 0..MaxVersion
  BY <1>1, QueueAssumption DEF Committing, Command
<1>3. QED
  BY <1>1, <1>2, IdleIsWork, GotoType DEF Committing, Versioned

LEMMA SetStatusType ==
  ASSUME TypeOK, NEW b \in Bookings, NEW status \in QueueStatuses,
         entry[b].version + 1 \in 0..MaxVersion, SetStatus(b, status)
  PROVE  entry' \in [Bookings -> Entry]
BY EntryType DEF SetStatus, Entry

LEMMA SyncBookingType ==
  ASSUME TypeOK, NEW w \in Command, NEW to \in QueueStatuses, SyncBooking(w, to)
  PROVE  booking' \in [Bookings -> BookingStatuses \cup {"none"}]
<1>1. BookingStatusForQueue(to) \in BookingStatuses
  BY DEF BookingStatusForQueue, QueueStatuses, BookingStatuses
<1>2. w.booking \in Bookings
  BY DEF Command
<1>3. QED
  BY <1>1, <1>2 DEF SyncBooking, TypeOK

LEMMA TypePreserved ==
  ASSUME TypeOK, [Next]_vars
  PROVE  TypeOK'
<1> USE IdleIsWork DEF board, bookings
<1>1. ASSUME NEW b \in Bookings, Enter(b), UNCHANGED work PROVE TypeOK'
  <2>1. [status |-> "waiting", sort |-> lastNumber + 1, number |-> lastNumber + 1,
         version |-> 1, staff |-> NoStaff] \in Entry
    BY QueueAssumption DEF TypeOK, Entry, QueueStatuses
  <2>2. entry' \in [Bookings -> Entry]
    BY <1>1, <2>1, EntryType DEF Enter
  <2>3. booking' \in [Bookings -> BookingStatuses \cup {"none"}]
    BY <1>1 DEF Enter, TypeOK, BookingStatuses
  <2>4. QED
    BY <1>1, <2>2, <2>3 DEF Enter, TypeOK, Entry
<1>2. ASSUME NEW b \in Bookings, CheckIn(b) \/ WalkIn(b) PROVE TypeOK'
  BY <1>1, <1>2 DEF CheckIn, WalkIn
<1>3. ASSUME NEW b \in Bookings, Cancel(b) PROVE TypeOK'
  BY <1>3 DEF Cancel, TypeOK, BookingStatuses
<1>4. ASSUME NEW a \in Agents, NEW b \in Bookings, NEW op \in CommandNames,
             BeginCommand(a, b, op)
      PROVE  TypeOK'
  <2>1. entry[b].status \in QueueStatuses /\ entry[b].version \in Nat
    BY <1>4, QueueAssumption DEF BeginCommand, Accepts, QueueStatuses, TypeOK
  <2>2. [pc |-> IF op = "return" THEN "end" ELSE "commit", op |-> op, booking |-> b,
         from |-> entry[b].status, expected |-> entry[b].version, end |-> 0] \in Work
    BY <2>1 DEF Work
  <2>3. work' \in [Agents -> Work]
    BY <1>4, <2>2, GotoType DEF BeginCommand
  <2>4. QED
    BY <1>4, <2>3 DEF BeginCommand, TypeOK
<1>5. ASSUME NEW a \in Agents, ReadEnd(a) PROVE TypeOK'
  <2>1. ActivePlaces \subseteq Nat
    BY EntryType DEF ActivePlaces, InStatuses, Entry
  <2>2. PICK end \in ActivePlaces : Goto(a, [work[a] EXCEPT !.pc = "commit", !.end = end])
    BY <1>5 DEF ReadEnd
  <2>3. work[a] \in Command
    BY <1>5, WorkAt DEF ReadEnd, At
  <2>4. [work[a] EXCEPT !.pc = "commit", !.end = end] \in Command
    BY <2>1, <2>3 DEF Command
  <2>5. work' \in [Agents -> Work]
    BY <2>2, <2>4, GotoType DEF Work, Command
  <2>6. QED
    BY <1>5, <2>5 DEF ReadEnd, TypeOK
<1>6. ASSUME NEW a \in Agents, Commit(a) PROVE TypeOK'
  <2> DEFINE w == work[a]
  <2>1. \A op : Committing(a, op) =>
          /\ w \in Command /\ w.booking \in Bookings
          /\ entry[w.booking].version + 1 \in 0..MaxVersion
          /\ work' \in [Agents -> Work]
    BY CommitAt DEF Command
  <2>2. ASSUME entry' \in [Bookings -> Entry],
               booking' \in [Bookings -> BookingStatuses \cup {"none"}],
               reservation' \subseteq Scheduled, returned' \subseteq Bookings,
               work' \in [Agents -> Work], UNCHANGED <<lastNumber, queueVersion>>
        PROVE  TypeOK'
    BY <2>2 DEF TypeOK, Entry
  <2>3. \A op, to : Committing(a, op) /\ to \in QueueStatuses
                    /\ SetStatus(w.booking, to) => entry' \in [Bookings -> Entry]
    BY <2>1, SetStatusType
  <2>4. \A op, to : Committing(a, op) /\ to \in QueueStatuses /\ SyncBooking(w, to) =>
          booking' \in [Bookings -> BookingStatuses \cup {"none"}]
    BY <2>1, SyncBookingType
  <2>5. {"called", "skipped", "in_service", "completed", "no_show"} \subseteq QueueStatuses
    BY DEF QueueStatuses
  <2>6. CASE Call(a) \/ Skip(a)
    BY <2>1, <2>2, <2>3, <2>4, <2>5, <2>6 DEF Call, Skip, TypeOK
  <2>7. CASE Recall(a)
    <3>1. entry' \in [Bookings -> Entry]
      BY <2>1, <2>7, EntryType DEF Recall, Entry
    <3>2. QED
      BY <2>1, <2>2, <2>7, <3>1 DEF Recall, TypeOK
  <2>8. CASE ReturnToWaiting(a)
    <3>1. PlaceAfter(w.end) \in Nat
      BY <2>1, <2>8 DEF ReturnToWaiting, PlaceAfter, Command
    <3>2. entry' \in [Bookings -> Entry]
      BY <2>1, <2>8, <3>1, EntryType DEF ReturnToWaiting, Entry, QueueStatuses
    <3>3. QED
      BY <2>1, <2>2, <2>8, <3>2 DEF ReturnToWaiting, TypeOK
  <2>9. ASSUME NEW s \in Staff, StartService(a, s) PROVE TypeOK'
    <3>1. entry' \in [Bookings -> Entry]
      BY <2>1, <2>9, EntryType DEF StartService, Entry, QueueStatuses
    <3>2. QED
      BY <2>1, <2>2, <2>4, <2>5, <2>9, <3>1 DEF StartService, TypeOK
  <2>10. CASE Complete(a) \/ MarkNoShowEntry(a)
    BY <2>1, <2>2, <2>3, <2>4, <2>5, <2>10
    DEF Complete, MarkNoShowEntry, ReleaseReservation, TypeOK
  <2>11. QED
    BY <1>6, <2>6, <2>7, <2>8, <2>9, <2>10 DEF Commit
<1>7. ASSUME NEW a \in Agents, NEW b \in Bookings, BeginNoShow(a, b) PROVE TypeOK'
  <2>1. [pc |-> "no_show", booking |-> b] \in Work
    BY DEF Work
  <2>2. work' \in [Agents -> Work]
    BY <1>7, <2>1, GotoType DEF BeginNoShow
  <2>3. QED
    BY <1>7, <2>2 DEF BeginNoShow, TypeOK
<1>8. ASSUME NEW a \in Agents, MarkNoShowBooking(a) PROVE TypeOK'
  <2>1. work' \in [Agents -> Work]
    BY <1>8, GotoType DEF MarkNoShowBooking
  <2>2. QED
    BY <1>8, <2>1 DEF MarkNoShowBooking, ReleaseReservation, TypeOK, BookingStatuses
<1>9. ASSUME NEW a \in Agents, BeginReorder(a) PROVE TypeOK'
  <2>1. PICK order \in SetToSeqs(InStatuses(ReorderableStatuses)) :
          Goto(a, [pc |-> "reorder", expected |-> queueVersion, order |-> order])
    BY <1>9 DEF BeginReorder
  <2>2. order \in Seq(Bookings)
    BY OrderType DEF InStatuses
  <2>3. [pc |-> "reorder", expected |-> queueVersion, order |-> order] \in Work
    BY <2>2 DEF Work, TypeOK
  <2>4. work' \in [Agents -> Work]
    BY <2>1, <2>3, GotoType
  <2>5. QED
    BY <1>9, <2>4 DEF BeginReorder, TypeOK
<1>10. ASSUME NEW a \in Agents, CheckReorder(a) PROVE TypeOK'
  <2>1. [work[a] EXCEPT !.pc = "rearrange"] \in Work
    BY <1>10, WorkAt DEF CheckReorder, Work
  <2>2. work' \in [Agents -> Work]
    BY <1>10, <2>1, GotoType DEF CheckReorder
  <2>3. QED
    BY <1>10, <2>2 DEF CheckReorder, TypeOK
<1>11. ASSUME NEW a \in Agents, Reorder(a) PROVE TypeOK'
  <2> DEFINE order == work[a].order
             placeOf(b) == CHOOSE i \in 1..Len(order) : order[i] = b
  <2>1. order \in Seq(Bookings)
    BY <1>11, WorkAt DEF Reorder
  <2>2. \A b \in ToSet(order) : placeOf(b) \in Nat
    BY <2>1 DEF ToSet
  <2>3. entry' = [b \in Bookings |->
                    IF b \in ToSet(order) THEN [entry[b] EXCEPT !.sort = placeOf(b)]
                    ELSE entry[b]]
    BY <1>11 DEF Reorder
  <2> HIDE DEF placeOf, order
  <2>4. entry' \in [Bookings -> Entry]
    BY <2>2, <2>3, EntryType DEF Entry
  <2>5. work' \in [Agents -> Work]
    BY <1>11, GotoType DEF Reorder
  <2>6. QED
    BY <1>11, <2>4, <2>5 DEF Reorder, TypeOK, Entry
<1>12. ASSUME NEW a \in Agents, RollBack(a) PROVE TypeOK'
  <2>1. work' \in [Agents -> Work]
    BY <1>12, GotoType DEF RollBack
  <2>2. QED
    BY <1>12, <2>1 DEF RollBack, TypeOK
<1>13. CASE UNCHANGED vars
  BY <1>13 DEF vars, TypeOK
<1>14. QED
  BY <1>2, <1>3, <1>4, <1>5, <1>6, <1>7, <1>8, <1>9, <1>10, <1>11, <1>12, <1>13
  DEF Next

-----------------------------------------------------------------------------
(* How an entry moves, and what a command may rely on.                     *)

EntryShape ==
  \A b \in Bookings :
    entry[b] # NoEntry => entry[b].status \in QueueStatuses /\ entry[b].version >= 1

\* The entries a reorder is about to move are there.
ReorderKnows ==
  \A a \in Agents : At(a, "rearrange") =>
    \A b \in ToSet(work[a].order) : b \in Bookings => entry[b] # NoEntry

\* The inductive invariant.  That an entry follows the queue table needs
\* CommandMemory, because no command looks at the status in its transaction;
\* and CommandMemory needs that every write of a status takes a version.
IInv ==
  /\ TypeOK /\ EntryShape
  /\ CommandMemory /\ ReorderKnows
  /\ EntryMatchesBooking /\ NoOrphanReservation

Stays(b) == entry'[b] = entry[b]

Replaced(b) ==
  /\ entry[b] # NoEntry
  /\ entry'[b].status = entry[b].status /\ entry'[b].version = entry[b].version
  /\ entry'[b] # NoEntry

Commanded(b) ==
  /\ entry[b] # NoEntry
  /\ entry'[b].version = entry[b].version + 1
  /\ \/ entry'[b].status = entry[b].status
     \/ CanTransitionQueue(entry[b].status, entry'[b].status)

Enters(b) ==
  /\ entry[b] = NoEntry
  /\ entry'[b].status = "waiting" /\ entry'[b].version = 1

Moves(b) == Stays(b) \/ Replaced(b) \/ Commanded(b) \/ Enters(b)

\* A commit finds the status that was read.
LEMMA CommitFinds ==
  ASSUME IInv, NEW a \in Agents, NEW op, Committing(a, op)
  PROVE  /\ work[a] \in Command /\ work[a].booking \in Bookings
         /\ work[a].op = op
         /\ entry[work[a].booking].status = work[a].from
         /\ work[a].from \in Accepts(op)
         /\ entry[work[a].booking] # NoEntry
         /\ entry[work[a].booking].version = work[a].expected
<1>1. work[a] \in Command /\ work[a].op = op
      /\ entry[work[a].booking].version = work[a].expected
  BY CommitAt DEF IInv
<1>2. /\ work[a].from \in Accepts(op)
      /\ work[a].expected \in 1..entry[work[a].booking].version
      /\ entry[work[a].booking].status = work[a].from
  BY <1>1 DEF IInv, CommandMemory, Committing, At, Versioned
<1>3. work[a].booking \in Bookings
  BY <1>1 DEF Command
<1>4. entry[work[a].booking] # NoEntry
  BY <1>1, <1>2, <1>3 DEF NoEntry
<1>5. QED
  BY <1>1, <1>2, <1>3, <1>4

LEMMA CommitMoves ==
  ASSUME IInv, NEW a \in Agents, Commit(a), NEW b \in Bookings
  PROVE  Moves(b)
<1> DEFINE w == work[a]
<1>1. entry \in [Bookings -> Entry]
  BY EntryType DEF IInv
<1>2. ASSUME NEW op, Committing(a, op), NEW to, SetStatus(w.booking, to),
             \A from \in Accepts(op) : CanTransitionQueue(from, to)
      PROVE  Moves(b)
  BY <1>1, <1>2, CommitFinds DEF SetStatus, Moves, Stays, Commanded, Entry
<1>3. /\ \A from \in Accepts("call") : CanTransitionQueue(from, "called")
      /\ \A from \in Accepts("skip") : CanTransitionQueue(from, "skipped")
      /\ \A from \in Accepts("return") : CanTransitionQueue(from, "waiting")
      /\ \A from \in Accepts("start") : CanTransitionQueue(from, "in_service")
      /\ \A from \in Accepts("complete") : CanTransitionQueue(from, "completed")
      /\ \A from \in Accepts("no_show") : CanTransitionQueue(from, "no_show")
  BY DEF Accepts, CanTransitionQueue, QueueTransitions
<1>4. CASE Call(a)
  BY <1>2, <1>3, <1>4 DEF Call
<1>5. CASE Skip(a)
  BY <1>2, <1>3, <1>5 DEF Skip
<1>6. CASE Complete(a)
  BY <1>2, <1>3, <1>6 DEF Complete
<1>7. CASE MarkNoShowEntry(a)
  BY <1>2, <1>3, <1>7 DEF MarkNoShowEntry
<1>8. CASE Recall(a)
  BY <1>1, <1>8, CommitFinds DEF Recall, Moves, Stays, Commanded, Entry
<1>9. CASE ReturnToWaiting(a)
  BY <1>1, <1>3, <1>9, CommitFinds DEF ReturnToWaiting, Moves, Stays, Commanded, Entry
<1>10. ASSUME NEW s \in Staff, StartService(a, s) PROVE Moves(b)
  BY <1>1, <1>3, <1>10, CommitFinds DEF StartService, Moves, Stays, Commanded, Entry
<1>11. QED
  BY <1>4, <1>5, <1>6, <1>7, <1>8, <1>9, <1>10 DEF Commit

LEMMA EntryMoves ==
  ASSUME IInv, [Next]_vars, NEW b \in Bookings
  PROVE  Moves(b)
<1> USE DEF board
<1>1. entry \in [Bookings -> Entry]
  BY EntryType DEF IInv
<1>2. ASSUME NEW c \in Bookings, CheckIn(c) \/ WalkIn(c) PROVE Moves(b)
  <2>1. entry[c] = NoEntry
    <3>1. CASE CheckIn(c)
      BY <3>1 DEF CheckIn
    <3>2. CASE WalkIn(c)
      BY <3>2
      DEF WalkIn, IInv, EntryMatchesBooking, EntryShape, BookingStatusForQueue,
          QueueStatuses
    <3>3. QED
      BY <1>2, <3>1, <3>2
  <2>2. Enter(c)
    BY <1>2 DEF CheckIn, WalkIn
  <2>3. QED
    BY <1>1, <2>1, <2>2 DEF Enter, Moves, Stays, Enters
<1>3. ASSUME NEW a \in Agents, Reorder(a) PROVE Moves(b)
  <2> DEFINE order == work[a].order
             placeOf(c) == CHOOSE i \in 1..Len(order) : order[i] = c
  <2>1. entry'[b] = IF b \in ToSet(order) THEN [entry[b] EXCEPT !.sort = placeOf(b)]
                    ELSE entry[b]
    BY <1>3 DEF Reorder
  <2>2. CASE b \in ToSet(order)
    <3>1. entry[b] # NoEntry /\ entry[b].version >= 1
      BY <1>3, <2>2 DEF Reorder, IInv, ReorderKnows, EntryShape
    <3> HIDE DEF placeOf
    <3>2. entry'[b].status = entry[b].status /\ entry'[b].version = entry[b].version
      BY <1>1, <2>1, <2>2 DEF Entry
    <3>3. entry'[b] # NoEntry
      BY <3>1, <3>2 DEF NoEntry
    <3>4. QED
      BY <3>1, <3>2, <3>3 DEF Moves, Replaced
  <2>3. CASE b \notin ToSet(order)
    BY <2>1, <2>3 DEF Moves, Stays
  <2>4. QED
    BY <2>2, <2>3
<1>4. ASSUME NEW a \in Agents, Commit(a) PROVE Moves(b)
  BY <1>4, CommitMoves
<1>5. CASE entry' = entry
  BY <1>5 DEF Moves, Stays
<1>6. QED
  BY <1>2, <1>3, <1>4, <1>5
  DEF Next, Cancel, BeginCommand, ReadEnd, BeginNoShow, MarkNoShowBooking,
      BeginReorder, CheckReorder, RollBack, vars

LEMMA ShapePreserved ==
  ASSUME IInv, [Next]_vars
  PROVE  EntryShape'
<1>1. ASSUME NEW b \in Bookings
      PROVE  entry'[b] # NoEntry =>
               entry'[b].status \in QueueStatuses /\ entry'[b].version >= 1
  <2>1. Moves(b)
    BY EntryMoves
  <2>2. entry[b] \in Entry
    BY EntryType DEF IInv
  <2>3. \A from, to : CanTransitionQueue(from, to) => to \in QueueStatuses
    BY DEF CanTransitionQueue, QueueTransitions, QueueStatuses
  <2>4. QED
    BY <2>1, <2>2, <2>3
    DEF Moves, Stays, Replaced, Commanded, Enters, IInv, EntryShape, Entry,
        QueueStatuses
<1>2. QED
  BY <1>1 DEF EntryShape

\* What a command read stays right until its version is taken.
LEMMA MemoryPreserved ==
  ASSUME IInv, [Next]_vars
  PROVE  CommandMemory'
<1> DEFINE Remembers(w) ==
      /\ w.from \in Accepts(w.op)
      /\ w.expected \in 1..entry[w.booking].version
      /\ entry[w.booking].version = w.expected => entry[w.booking].status = w.from
<1>1. ASSUME NEW w \in Command, Remembers(w) PROVE Remembers(w)'
  <2>1. w.booking \in Bookings /\ w.expected \in Nat
    BY DEF Command
  <2>2. Moves(w.booking)
    BY <2>1, EntryMoves
  <2>3. entry[w.booking] \in Entry
    BY <2>1, EntryType DEF IInv
  <2>4. QED
    BY <1>1, <2>1, <2>2, <2>3
    DEF Moves, Stays, Replaced, Commanded, Enters, Entry, NoEntry
<1>2. ASSUME NEW a \in Agents, work[a].pc \in {"end", "commit"}
      PROVE  work[a] \in Command /\ Remembers(work[a])
  BY <1>2, WorkAt DEF IInv, CommandMemory, Versioned
<1>3. ASSUME NEW a \in Agents, work'[a].pc \in {"end", "commit"}
      PROVE  \/ \E w \in Command : w = work'[a] /\ Remembers(w)
             \/ work'[a] = work[a]
  <2>1. work \in [Agents -> Work]
    BY DEF IInv, TypeOK
  <2>2. ASSUME NEW b \in Bookings, NEW op \in CommandNames, BeginCommand(a, b, op)
        PROVE  \E w \in Command : w = work'[a] /\ Remembers(w)
    <3>1. entry[b].status \in QueueStatuses
      BY <2>2 DEF BeginCommand, Accepts, QueueStatuses
    <3>2. entry[b].version \in Nat /\ entry[b].version >= 1
      BY <3>1, EntryType DEF IInv, EntryShape, Entry, NoEntry, QueueStatuses
    <3>3. PICK w : w = [pc |-> IF op = "return" THEN "end" ELSE "commit", op |-> op,
                        booking |-> b, from |-> entry[b].status,
                        expected |-> entry[b].version, end |-> 0]
      OBVIOUS
    <3>4. w \in Command
      BY <3>1, <3>2, <3>3 DEF Command
    <3>5. w = work'[a]
      BY <2>1, <2>2, <3>3 DEF BeginCommand, Goto
    <3>6. Remembers(w)
      BY <2>2, <3>2, <3>3 DEF BeginCommand
    <3>7. QED
      BY <3>4, <3>5, <3>6
  <2>3. CASE ReadEnd(a)
    <3>1. work[a] \in Command /\ Remembers(work[a])
      BY <1>2, <2>3 DEF ReadEnd, At
    <3>2. PICK end \in ActivePlaces : Goto(a, [work[a] EXCEPT !.pc = "commit", !.end = end])
      BY <2>3 DEF ReadEnd
    <3>3. end \in Nat
      BY <3>2, EntryType DEF ActivePlaces, InStatuses, Entry, IInv
    <3>4. PICK w : w = [work[a] EXCEPT !.pc = "commit", !.end = end]
      OBVIOUS
    <3>5. w \in Command /\ w.from = work[a].from /\ w.op = work[a].op
          /\ w.expected = work[a].expected /\ w.booking = work[a].booking
      BY <3>1, <3>3, <3>4 DEF Command
    <3>6. w = work'[a]
      BY <2>1, <3>2, <3>4 DEF Goto
    <3>7. QED
      BY <3>1, <3>5, <3>6
  <2>4. CASE work'[a] # work[a] /\ ~ReadEnd(a)
             /\ ~\E b \in Bookings, op \in CommandNames : BeginCommand(a, b, op)
    <3>1. \A g \in Agents : \A w : Goto(g, w) => g = a /\ work'[a] = w
      BY <2>1, <2>4 DEF Goto
    <3>2. ASSUME NEW g \in Agents, NEW w, Goto(g, w), w.pc \notin {"end", "commit"}
          PROVE  FALSE
      BY <1>3, <3>1, <3>2
    <3>3. ASSUME NEW g \in Agents, Goto(g, Idle) PROVE FALSE
      BY <3>2, <3>3 DEF Idle
    <3>4. ASSUME NEW g \in Agents, Commit(g) PROVE FALSE
      BY <3>3, <3>4
      DEF Commit, Call, Recall, Skip, ReturnToWaiting, StartService, Complete,
          MarkNoShowEntry, Committing
    <3>5. ASSUME NEW g \in Agents, MarkNoShowBooking(g) \/ Reorder(g) \/ RollBack(g)
          PROVE  FALSE
      BY <3>3, <3>5 DEF MarkNoShowBooking, Reorder, RollBack
    <3>6. ASSUME NEW g \in Agents, NEW b \in Bookings, BeginNoShow(g, b) PROVE FALSE
      BY <3>2, <3>6 DEF BeginNoShow
    <3>7. ASSUME NEW g \in Agents, BeginReorder(g) PROVE FALSE
      BY <3>2, <3>7 DEF BeginReorder
    <3>8. ASSUME NEW g \in Agents,
                 ReadEnd(g) \/ \E b \in Bookings, op \in CommandNames : BeginCommand(g, b, op)
          PROVE  FALSE
      BY <2>4, <3>1, <3>8 DEF ReadEnd, BeginCommand
    <3>9. ASSUME NEW g \in Agents, CheckReorder(g) PROVE FALSE
      <4>1. work[g] \in [pc: {"reorder", "rearrange"}, expected: Nat,
                          order: Seq(Bookings)]
        BY <3>9, WorkAt DEF CheckReorder, IInv
      <4>2. QED
        BY <3>2, <3>9, <4>1 DEF CheckReorder
    <3>10. QED
      BY <2>4, <3>4, <3>5, <3>6, <3>7, <3>8, <3>9
      DEF Next, CheckIn, WalkIn, Cancel, vars
  <2>5. QED
    BY <2>2, <2>3, <2>4
<1>4. ASSUME NEW a \in Agents, work'[a].pc \in {"end", "commit"}
      PROVE  \E w \in Command : w = work'[a] /\ Remembers(w)'
  <2>1. PICK w \in Command : w = work'[a] /\ Remembers(w)
    BY <1>2, <1>3, <1>4
  <2>2. QED
    BY <1>1, <2>1
<1>5. QED
  BY <1>4 DEF CommandMemory, Versioned

\* An entry that is there stays there.
LEMMA KnowsPreserved ==
  ASSUME IInv, [Next]_vars
  PROVE  ReorderKnows'
<1>1. ASSUME NEW b \in Bookings, entry[b] # NoEntry PROVE entry'[b] # NoEntry
  <2>1. Moves(b)
    BY EntryMoves
  <2>2. entry[b].version \in Nat
    BY EntryType DEF IInv, Entry
  <2>3. QED
    BY <1>1, <2>1, <2>2 DEF Moves, Stays, Replaced, Commanded, Enters, NoEntry
<1>2. ASSUME NEW a \in Agents, At(a, "rearrange")'
      PROVE  \A b \in ToSet(work'[a].order) : b \in Bookings => entry[b] # NoEntry
  <2>1. CASE work'[a] = work[a]
    BY <1>2, <2>1 DEF At, IInv, ReorderKnows
  <2>2. CASE work'[a] # work[a]
    <3>1. \A g \in Agents : \A w : Goto(g, w) => g = a /\ work'[a] = w
      BY <2>2 DEF Goto, IInv, TypeOK
    <3>2. ASSUME NEW g \in Agents, NEW w, Goto(g, w), w.pc # "rearrange" PROVE FALSE
      BY <1>2, <3>1, <3>2 DEF At
    <3>3. ASSUME NEW g \in Agents, Goto(g, Idle) PROVE FALSE
      BY <3>2, <3>3 DEF Idle
    <3>4. ASSUME NEW g \in Agents, Commit(g) PROVE FALSE
      BY <3>3, <3>4
      DEF Commit, Call, Recall, Skip, ReturnToWaiting, StartService, Complete,
          MarkNoShowEntry, Committing
    <3>5. ASSUME NEW g \in Agents, MarkNoShowBooking(g) \/ Reorder(g) \/ RollBack(g)
          PROVE  FALSE
      BY <3>3, <3>5 DEF MarkNoShowBooking, Reorder, RollBack
    <3>6. ASSUME NEW g \in Agents, NEW b \in Bookings,
                 BeginNoShow(g, b) \/ \E op \in CommandNames : BeginCommand(g, b, op)
          PROVE  FALSE
      BY <3>2, <3>6 DEF BeginNoShow, BeginCommand
    <3>7. ASSUME NEW g \in Agents, BeginReorder(g) PROVE FALSE
      BY <3>2, <3>7 DEF BeginReorder
    <3>8. ASSUME NEW g \in Agents, ReadEnd(g) PROVE FALSE
      <4>1. work[g] \in Command
        BY <3>8, WorkAt DEF ReadEnd, At, IInv
      <4>2. QED
        BY <3>2, <3>8, <4>1 DEF ReadEnd, Command
    <3>9. CASE \E g \in Agents : CheckReorder(g)
      <4>1. CheckReorder(a)
        BY <3>1, <3>9 DEF CheckReorder
      <4>2. work'[a].order = work[a].order
        BY <3>1, <4>1, WorkAt DEF CheckReorder, IInv
      <4>3. \A b \in ToSet(work[a].order) : entry[b].status \in {"waiting", "skipped"}
        BY <4>1 DEF CheckReorder, InStatuses, ReorderableStatuses
      <4>4. QED
        BY <4>2, <4>3 DEF NoEntry
    <3>10. QED
      BY <2>2, <3>4, <3>5, <3>6, <3>7, <3>8, <3>9 DEF Next, CheckIn, WalkIn, Cancel, vars
  <2>3. QED
    BY <2>1, <2>2
<1>3. QED
  BY <1>1, <1>2 DEF ReorderKnows

-----------------------------------------------------------------------------
(* The bookings behind the entries.                                        *)

BookingsFollow == EntryMatchesBooking /\ NoOrphanReservation

\* A command that moves an entry to another booking status takes the booking along.
LEMMA SyncFollows ==
  ASSUME IInv, NEW a \in Agents, NEW op, Committing(a, op), NEW to \in QueueStatuses,
         \A from \in Accepts(op) : BookingStatusForQueue(from) # BookingStatusForQueue(to),
         SyncBooking(work[a], to), entry'[work[a].booking].status = to,
         \A b \in Bookings : b # work[a].booking => entry'[b] = entry[b],
         \/ ReleaseReservation(work[a].booking)
         \/ UNCHANGED reservation /\ BookingStatusForQueue(to) \in BlockingStatuses
  PROVE  BookingsFollow'
<1> DEFINE c == work[a].booking
<1>1. c \in Bookings /\ work[a].from \in Accepts(op)
  BY CommitFinds
<1>2. booking \in [Bookings -> BookingStatuses \cup {"none"}]
      /\ reservation \subseteq Bookings
  BY QueueAssumption DEF IInv, TypeOK
<1>3. booking' = [booking EXCEPT ![c] = BookingStatusForQueue(to)]
  BY <1>1 DEF SyncBooking
<1>4. booking'[c] = BookingStatusForQueue(to)
      /\ \A b \in Bookings : b # c => booking'[b] = booking[b]
  BY <1>1, <1>2, <1>3
<1>5. EntryMatchesBooking'
  BY <1>4 DEF IInv, EntryMatchesBooking
<1>6. NoOrphanReservation'
  BY <1>2, <1>4 DEF ReleaseReservation, IInv, NoOrphanReservation
<1>7. QED
  BY <1>5, <1>6 DEF BookingsFollow

LEMMA CommitFollows ==
  ASSUME IInv, NEW a \in Agents, Commit(a)
  PROVE  BookingsFollow'
<1> DEFINE c == work[a].booking
<1>1. entry \in [Bookings -> Entry]
  BY EntryType DEF IInv
<1>2. \A op : Committing(a, op) => c \in Bookings /\ entry[c] # NoEntry
  BY CommitFinds
<1>3. ASSUME NEW op, Committing(a, op), NEW to, SetStatus(c, to)
      PROVE  entry'[c].status = to /\ \A b \in Bookings : b # c => entry'[b] = entry[b]
  BY <1>1, <1>2, <1>3 DEF SetStatus, Entry
<1>4. {"called", "skipped", "in_service", "completed", "no_show"} \subseteq QueueStatuses
  BY DEF QueueStatuses
<1>5. CASE Call(a)
  <2>1. /\ \A from \in Accepts("call") : BookingStatusForQueue(from) # "called"
        /\ BookingStatusForQueue("called") = "called" /\ "called" \in BlockingStatuses
    BY DEF Accepts, BookingStatusForQueue, BlockingStatuses
  <2>2. QED
    BY <1>3, <1>4, <1>5, <2>1, SyncFollows DEF Call
<1>6. CASE Skip(a)
  <2>1. /\ \A from \in Accepts("skip") : BookingStatusForQueue(from) # "waiting"
        /\ BookingStatusForQueue("skipped") = "waiting" /\ "waiting" \in BlockingStatuses
    BY DEF Accepts, BookingStatusForQueue, BlockingStatuses
  <2>2. QED
    BY <1>3, <1>4, <1>6, <2>1, SyncFollows DEF Skip
<1>7. CASE Complete(a)
  <2>1. \A from \in Accepts("complete") :
          BookingStatusForQueue(from) # BookingStatusForQueue("completed")
    BY DEF Accepts, BookingStatusForQueue
  <2>2. QED
    BY <1>3, <1>4, <1>7, <2>1, SyncFollows DEF Complete
<1>8. CASE MarkNoShowEntry(a)
  <2>1. \A from \in Accepts("no_show") :
          BookingStatusForQueue(from) # BookingStatusForQueue("no_show")
    BY DEF Accepts, BookingStatusForQueue
  <2>2. QED
    BY <1>3, <1>4, <1>8, <2>1, SyncFollows DEF MarkNoShowEntry
<1>9. ASSUME NEW s \in Staff, StartService(a, s) PROVE BookingsFollow'
  <2>1. /\ \A from \in Accepts("start") : BookingStatusForQueue(from) # "in_service"
        /\ BookingStatusForQueue("in_service") = "in_service"
        /\ "in_service" \in BlockingStatuses
    BY DEF Accepts, BookingStatusForQueue, BlockingStatuses
  <2>2. entry'[c].status = "in_service"
        /\ \A b \in Bookings : b # c => entry'[b] = entry[b]
    BY <1>1, <1>2, <1>9 DEF StartService, Entry
  <2>3. QED
    BY <1>4, <1>9, <2>1, <2>2, SyncFollows DEF StartService
<1>10. CASE Recall(a) \/ ReturnToWaiting(a)
  <2>1. booking' = booking /\ reservation' = reservation
    BY <1>10 DEF Recall, ReturnToWaiting, bookings
  <2>2. \A b \in Bookings :
          entry'[b] # NoEntry =>
            /\ entry[b] # NoEntry
            /\ BookingStatusForQueue(entry'[b].status) = BookingStatusForQueue(entry[b].status)
    <3>1. CASE Recall(a)
      <4>1. \A b \in Bookings : entry'[b].status = entry[b].status
                                /\ (b # c => entry'[b] = entry[b])
        BY <1>1, <1>2, <3>1 DEF Recall, Entry
      <4>2. QED
        BY <1>2, <3>1, <4>1 DEF Recall
    <3>2. CASE ReturnToWaiting(a)
      <4>1. entry[c].status = "skipped" /\ c \in Bookings /\ entry[c] # NoEntry
        BY <3>2, CommitFinds DEF ReturnToWaiting, Accepts
      <4>2. entry'[c].status = "waiting"
            /\ \A b \in Bookings : b # c => entry'[b] = entry[b]
        BY <1>1, <3>2, <4>1 DEF ReturnToWaiting, Entry
      <4>3. QED
        BY <4>1, <4>2 DEF BookingStatusForQueue
    <3>3. QED
      BY <1>10, <3>1, <3>2
  <2>3. EntryMatchesBooking'
    BY <2>1, <2>2 DEF IInv, EntryMatchesBooking
  <2>4. NoOrphanReservation'
    BY <2>1 DEF IInv, NoOrphanReservation
  <2>5. QED
    BY <2>3, <2>4 DEF BookingsFollow
<1>11. QED
  BY <1>5, <1>6, <1>7, <1>8, <1>9, <1>10 DEF Commit

LEMMA FollowPreserved ==
  ASSUME IInv, [Next]_vars
  PROVE  BookingsFollow'
<1> USE DEF board, bookings
<1>1. /\ booking \in [Bookings -> BookingStatuses \cup {"none"}]
      /\ reservation \subseteq Bookings /\ entry \in [Bookings -> Entry]
      /\ EntryMatchesBooking /\ NoOrphanReservation
  BY QueueAssumption, EntryType DEF IInv, TypeOK
<1>2. ASSUME NEW b \in Bookings, Enter(b) PROVE BookingsFollow'
  <2>1. /\ entry'[b].status = "waiting" /\ booking'[b] = "waiting"
        /\ \A c \in Bookings : c # b => entry'[c] = entry[c] /\ booking'[c] = booking[c]
        /\ reservation' = reservation
    BY <1>1, <1>2 DEF Enter
  <2>2. QED
    BY <1>1, <2>1
    DEF BookingsFollow, EntryMatchesBooking, NoOrphanReservation, BlockingStatuses,
        BookingStatusForQueue
<1>3. ASSUME NEW b \in Bookings, Cancel(b) PROVE BookingsFollow'
  <2>1. entry[b] = NoEntry
    BY <1>1, <1>3
    DEF Cancel, EntryMatchesBooking, IInv, EntryShape, BookingStatusForQueue,
        QueueStatuses
  <2>2. /\ entry' = entry /\ reservation' = reservation \ {b}
        /\ \A c \in Bookings : c # b => booking'[c] = booking[c]
    BY <1>1, <1>3 DEF Cancel
  <2>3. QED
    BY <1>1, <2>1, <2>2 DEF BookingsFollow, EntryMatchesBooking, NoOrphanReservation
<1>4. ASSUME NEW a \in Agents, MarkNoShowBooking(a) PROVE BookingsFollow'
  <2>1. PICK b \in Bookings : b = work[a].booking
    BY <1>4, WorkAt DEF MarkNoShowBooking, IInv
  <2>2. /\ entry' = entry /\ reservation' = reservation \ {b} /\ booking'[b] = "no_show"
        /\ \A c \in Bookings : c # b => booking'[c] = booking[c]
    BY <1>1, <1>4, <2>1 DEF MarkNoShowBooking, ReleaseReservation
  <2>3. QED
    BY <1>1, <2>2 DEF BookingsFollow, EntryMatchesBooking, NoOrphanReservation
<1>5. ASSUME NEW a \in Agents, Reorder(a) PROVE BookingsFollow'
  <2>1. \A b \in Bookings : Stays(b) \/ Replaced(b)
    <3>1. \A b \in Bookings : Moves(b)
      BY EntryMoves
    <3>2. \A b \in Bookings : entry'[b].version = entry[b].version
      BY <1>1, <1>5 DEF Reorder, Entry
    <3>3. \A b \in Bookings : entry[b].version \in Nat
      BY <1>1 DEF Entry
    <3>4. QED
      BY <3>1, <3>2, <3>3 DEF Moves, Commanded, Enters, NoEntry
  <2>2. booking' = booking /\ reservation' = reservation
    BY <1>5 DEF Reorder
  <2>3. QED
    BY <1>1, <2>1, <2>2
    DEF BookingsFollow, EntryMatchesBooking, NoOrphanReservation, Stays, Replaced
<1>6. CASE UNCHANGED <<entry, booking, reservation>>
  BY <1>1, <1>6 DEF BookingsFollow, EntryMatchesBooking, NoOrphanReservation
<1>7. QED
  BY <1>2, <1>3, <1>4, <1>5, <1>6, CommitFollows
  DEF Next, CheckIn, WalkIn, BeginCommand, ReadEnd, BeginNoShow, BeginReorder,
      CheckReorder, RollBack, vars

-----------------------------------------------------------------------------
(* The places in the queue.                                                *)

\* The list of a reorder names nobody twice.
OrderOnce ==
  \A a \in Agents : At(a, "reorder") \/ At(a, "rearrange") =>
    \A i, j \in 1..Len(work[a].order) : work[a].order[i] = work[a].order[j] => i = j

\* Numbers are handed out once, and nobody who never returned stands behind the
\* last number: this is why somebody who enters stands behind him.  A reorder
\* keeps it because its list cannot be longer than the numbers handed out.
Placed ==
  /\ \A b \in Bookings : entry[b] # NoEntry => entry[b].number \in 1..lastNumber
  /\ \A b, c \in Bookings :
       entry[b] # NoEntry /\ entry[c] # NoEntry /\ entry[b].number = entry[c].number
         => b = c
  /\ \A b \in Bookings \ returned : entry[b].sort <= lastNumber
  /\ OrderOnce

Arrives(b) == entry[b] = NoEntry /\ Enter(b) /\ UNCHANGED work

\* The steps that touch the board.
LEMMA BoardMoves ==
  ASSUME IInv, [Next]_vars
  PROVE  \/ \E b \in Bookings : Arrives(b)
         \/ \E a \in Agents : Commit(a) \/ Reorder(a)
         \/ UNCHANGED board
<1>1. ASSUME NEW b \in Bookings, CheckIn(b) PROVE Arrives(b)
  BY <1>1 DEF CheckIn, Arrives
<1>2. ASSUME NEW b \in Bookings, WalkIn(b) PROVE Arrives(b)
  <2>1. entry[b] = NoEntry
    BY <1>2
    DEF WalkIn, IInv, EntryMatchesBooking, EntryShape, BookingStatusForQueue,
        QueueStatuses
  <2>2. QED
    BY <1>2, <2>1 DEF WalkIn, Arrives
<1>3. QED
  BY <1>1, <1>2
  DEF Next, Cancel, BeginCommand, ReadEnd, BeginNoShow, MarkNoShowBooking,
      BeginReorder, CheckReorder, RollBack, vars

LEMMA ArrivalPlaces ==
  ASSUME IInv, NEW b \in Bookings, Arrives(b)
  PROVE  /\ entry'[b].number = lastNumber + 1 /\ entry'[b].sort = lastNumber + 1
         /\ lastNumber \in Nat /\ lastNumber' = lastNumber + 1
         /\ returned' = returned /\ work' = work
         /\ \A c \in Bookings : c # b => entry'[c] = entry[c]
BY EntryType DEF IInv, TypeOK, Arrives, Enter

\* A command moves one entry, keeps its number, and its place unless it returns it.
LEMMA CommandPlaces ==
  ASSUME IInv, NEW a \in Agents, Commit(a)
  PROVE  LET c == work[a].booking IN
         /\ c \in Bookings /\ entry[c] # NoEntry
         /\ lastNumber' = lastNumber
         /\ \A b \in Bookings : b # c => entry'[b] = entry[b]
         /\ entry'[c].number = entry[c].number
         /\ entry[c].status = "waiting" => entry'[c].status # "waiting"
         /\ \/ /\ entry'[c].sort = entry[c].sort /\ returned' = returned
               /\ entry'[c].status \in AheadStatuses => entry[c].status \in AheadStatuses
            \/ /\ At(a, "commit") /\ work[a].op = "return" /\ work[a].end \in Nat
               /\ entry'[c].sort = work[a].end + 1 /\ returned' = returned \cup {c}
<1> DEFINE c == work[a].booking
<1> USE DEF Accepts, AheadStatuses
<1>1. entry \in [Bookings -> Entry]
  BY EntryType DEF IInv
<1>2. ASSUME NEW op, Committing(a, op)
      PROVE  /\ c \in Bookings /\ entry[c] # NoEntry /\ entry[c].status \in Accepts(op)
             /\ At(a, "commit") /\ work[a].op = op /\ work[a].end \in Nat
  BY <1>2, CommitFinds DEF Committing, Command
<1>3. ASSUME NEW op, Committing(a, op), NEW to, SetStatus(c, to)
      PROVE  /\ entry'[c].status = to
             /\ entry'[c].number = entry[c].number /\ entry'[c].sort = entry[c].sort
             /\ \A b \in Bookings : b # c => entry'[b] = entry[b]
  BY <1>1, <1>2, <1>3 DEF SetStatus, Entry
<1>4. CASE Call(a)
  BY <1>2, <1>3, <1>4 DEF Call
<1>5. CASE Skip(a)
  BY <1>2, <1>3, <1>5 DEF Skip
<1>6. CASE Complete(a)
  BY <1>2, <1>3, <1>6 DEF Complete
<1>7. CASE MarkNoShowEntry(a)
  BY <1>2, <1>3, <1>7 DEF MarkNoShowEntry
<1>8. CASE Recall(a)
  <2>1. /\ entry'[c].status = entry[c].status
        /\ entry'[c].number = entry[c].number /\ entry'[c].sort = entry[c].sort
        /\ \A b \in Bookings : b # c => entry'[b] = entry[b]
    BY <1>1, <1>2, <1>8 DEF Recall, Entry
  <2>2. QED
    BY <1>2, <1>8, <2>1 DEF Recall
<1>9. CASE ReturnToWaiting(a)
  <2>1. /\ entry'[c].number = entry[c].number /\ entry'[c].sort = work[a].end + 1
        /\ \A b \in Bookings : b # c => entry'[b] = entry[b]
    BY <1>1, <1>2, <1>9 DEF ReturnToWaiting, PlaceAfter, Entry
  <2>2. Committing(a, "return") /\ lastNumber' = lastNumber /\ returned' = returned \cup {c}
    BY <1>9 DEF ReturnToWaiting
  <2>3. /\ c \in Bookings /\ entry[c] # NoEntry /\ entry[c].status = "skipped"
        /\ At(a, "commit") /\ work[a].op = "return" /\ work[a].end \in Nat
    BY <1>2, <2>2
  <2>4. QED
    BY <2>1, <2>2, <2>3
<1>10. ASSUME NEW s \in Staff, StartService(a, s)
       PROVE  /\ entry'[c].status = "in_service"
              /\ entry'[c].number = entry[c].number /\ entry'[c].sort = entry[c].sort
              /\ \A b \in Bookings : b # c => entry'[b] = entry[b]
              /\ Committing(a, "start") /\ UNCHANGED <<lastNumber, returned>>
  BY <1>1, <1>2, <1>10 DEF StartService, Entry
<1>11. QED
  BY <1>2, <1>4, <1>5, <1>6, <1>7, <1>8, <1>9, <1>10 DEF Commit

LEMMA ReorderPlaces ==
  ASSUME IInv, NEW a \in Agents, Reorder(a), NEW b \in Bookings
  PROVE  /\ lastNumber' = lastNumber /\ returned' = returned
         /\ entry'[b].number = entry[b].number /\ entry'[b].status = entry[b].status
         /\ entry'[b].version = entry[b].version
         /\ \/ entry'[b] = entry[b]
            \/ entry[b] # NoEntry /\ entry'[b].sort \in 1..Len(work[a].order)
<1> DEFINE order == work[a].order
           placeOf(c) == CHOOSE i \in 1..Len(order) : order[i] = c
<1>1. entry'[b] = IF b \in ToSet(order) THEN [entry[b] EXCEPT !.sort = placeOf(b)]
                  ELSE entry[b]
  BY Zenon DEF Reorder
<1>2. order \in Seq(Bookings)
  BY WorkAt DEF Reorder, IInv
<1>3. b \in ToSet(order) => placeOf(b) \in 1..Len(order) /\ entry[b] # NoEntry
  BY <1>2 DEF ToSet, Reorder, IInv, ReorderKnows
<1>4. entry[b] \in Entry
  BY EntryType DEF IInv
<1>5. lastNumber' = lastNumber /\ returned' = returned
  BY DEF Reorder
<1> HIDE DEF placeOf, order
<1>6. QED
  BY <1>1, <1>3, <1>4, <1>5 DEF Entry, order

\* A list of queued bookings, each once, is no longer than the numbers handed out.
LEMMA ShortOrder ==
  ASSUME IInv, Placed, NEW a \in Agents, At(a, "rearrange")
  PROVE  Len(work[a].order) <= lastNumber
<1>1. PICK order \in Seq(Bookings) : order = work[a].order
  BY WorkAt DEF IInv
<1>2. lastNumber \in Nat /\ Len(order) \in Nat
  BY <1>1 DEF IInv, TypeOK
<1>3. \A i \in 1..Len(order) : order[i] \in Bookings /\ entry[order[i]] # NoEntry
  BY <1>1 DEF IInv, ReorderKnows, ToSet
<1>4. \A i, j \in 1..Len(order) : order[i] = order[j] => i = j
  BY <1>1 DEF Placed, OrderOnce
<1> DEFINE f == [i \in 1..Len(order) |-> entry[order[i]].number]
<1>5. f \in [1..Len(order) -> 1..lastNumber]
  BY <1>3 DEF Placed
<1>6. \A i, j \in 1..Len(order) : f[i] = f[j] => i = j
  BY <1>3, <1>4 DEF Placed
<1>7. f \in Injection(1..Len(order), 1..lastNumber)
  BY <1>5, <1>6 DEF Injection, IsInjective
<1> HIDE DEF f
<1>8. IsFiniteSet(1..lastNumber) /\ Cardinality(1..lastNumber) = lastNumber
      /\ Cardinality(1..Len(order)) = Len(order)
  <2>1. ASSUME NEW n \in Nat PROVE IsFiniteSet(1..n) /\ Cardinality(1..n) = n
    <3>1. IsFiniteSet(1..n) /\ Cardinality(1..n) = IF 1 > n THEN 0 ELSE n - 1 + 1
      BY FS_Interval
    <3>2. QED
      BY <3>1
  <2>2. QED
    BY <1>2, <2>1
<1>9. Cardinality(1..Len(order)) <= Cardinality(1..lastNumber)
  BY <1>7, <1>8, FS_Injection
<1>10. QED
  BY <1>1, <1>8, <1>9

\* Only the query that shows the list and the check after it touch a reorder's list.
LEMMA OrderPreserved ==
  ASSUME IInv, OrderOnce, [Next]_vars
  PROVE  OrderOnce'
<1> DEFINE Once(order) == \A i, j \in 1..Len(order) : order[i] = order[j] => i = j
           Ordering(w) == w.pc \in {"reorder", "rearrange"}
<1>1. ASSUME NEW a \in Agents, Ordering(work[a]) PROVE Once(work[a].order)
  BY <1>1 DEF OrderOnce, At
<1>2. ASSUME NEW a \in Agents, Ordering(work'[a]) PROVE Once(work'[a].order)
  <2>1. CASE work'[a] = work[a]
    BY <1>1, <1>2, <2>1
  <2>2. CASE work'[a] # work[a]
    <3>1. \A g \in Agents : \A w : Goto(g, w) => g = a /\ work'[a] = w
      BY <2>2 DEF Goto, IInv, TypeOK
    <3>2. ASSUME NEW g \in Agents, NEW w, Goto(g, w), ~Ordering(w) PROVE FALSE
      BY <1>2, <3>1, <3>2
    <3>3. ASSUME NEW g \in Agents, Goto(g, Idle) PROVE FALSE
      BY <3>2, <3>3 DEF Idle
    <3>4. ASSUME NEW g \in Agents, Commit(g) PROVE FALSE
      BY <3>3, <3>4
      DEF Commit, Call, Recall, Skip, ReturnToWaiting, StartService, Complete,
          MarkNoShowEntry, Committing
    <3>5. ASSUME NEW g \in Agents, MarkNoShowBooking(g) \/ Reorder(g) \/ RollBack(g)
          PROVE  FALSE
      BY <3>3, <3>5 DEF MarkNoShowBooking, Reorder, RollBack
    <3>6. ASSUME NEW g \in Agents, NEW b \in Bookings,
                 BeginNoShow(g, b) \/ \E op \in CommandNames : BeginCommand(g, b, op)
          PROVE  FALSE
      BY <3>2, <3>6 DEF BeginNoShow, BeginCommand
    <3>7. ASSUME NEW g \in Agents, ReadEnd(g) PROVE FALSE
      <4>1. work[g] \in Command
        BY <3>7, WorkAt DEF ReadEnd, At, IInv
      <4>2. QED
        BY <3>2, <3>7, <4>1 DEF ReadEnd, Command
    <3>8. CASE \E g \in Agents : BeginReorder(g)
      <4>1. PICK order \in SetToSeqs(InStatuses(ReorderableStatuses)) :
              work'[a] = [pc |-> "reorder", expected |-> queueVersion, order |-> order]
        BY <3>1, <3>8 DEF BeginReorder
      <4>2. order \in Seq(Bookings)
        BY OrderType DEF InStatuses
      <4>3. Once(order)
        <5> DEFINE n == Cardinality(InStatuses(ReorderableStatuses))
        <5>1. DOMAIN order = 1..n /\ \A i, j \in 1..n : i # j => order[i] # order[j]
          BY DEF SetToSeqs
        <5>2. DOMAIN order = 1..Len(order)
          BY <4>2
        <5>3. QED
          BY <5>1, <5>2
      <4>4. QED
        BY <4>1, <4>3
    <3>9. CASE \E g \in Agents : CheckReorder(g)
      <4>1. CheckReorder(a)
        BY <3>1, <3>9 DEF CheckReorder
      <4>2. work'[a].order = work[a].order
        BY <3>1, <4>1, WorkAt DEF CheckReorder, IInv
      <4>3. QED
        BY <1>1, <4>1, <4>2 DEF CheckReorder, At
    <3>10. QED
      BY <2>2, <3>4, <3>5, <3>6, <3>7, <3>8, <3>9 DEF Next, CheckIn, WalkIn, Cancel, vars
  <2>3. QED
    BY <2>1, <2>2
<1>3. QED
  BY <1>2 DEF OrderOnce, At

LEMMA PlacesPreserved ==
  ASSUME IInv, Placed, [Next]_vars
  PROVE  Placed'
<1>1. OrderOnce'
  BY OrderPreserved DEF Placed
<1>2. entry \in [Bookings -> Entry] /\ lastNumber \in Nat /\ returned \subseteq Bookings
  BY EntryType DEF IInv, TypeOK
<1>4. ASSUME NEW b \in Bookings, Arrives(b) PROVE Placed'
  <2>1. /\ entry'[b].number = lastNumber + 1 /\ entry'[b].sort = lastNumber + 1
        /\ lastNumber' = lastNumber + 1 /\ returned' = returned
        /\ \A c \in Bookings : c # b => entry'[c] = entry[c]
    BY <1>4, ArrivalPlaces
  <2>2. \A c \in Bookings : entry'[c] # NoEntry => entry'[c].number \in 1..lastNumber'
    BY <1>2, <2>1 DEF Placed
  <2>3. ASSUME NEW c \in Bookings, NEW d \in Bookings,
               entry'[c] # NoEntry, entry'[d] # NoEntry,
               entry'[c].number = entry'[d].number
        PROVE  c = d
    BY <1>2, <2>1, <2>3 DEF Placed
  <2>4. \A c \in Bookings \ returned' : entry'[c].sort <= lastNumber'
    BY <1>2, <2>1 DEF Placed, Entry
  <2>5. QED
    BY <1>1, <2>2, <2>3, <2>4 DEF Placed
<1>5. ASSUME UNCHANGED <<lastNumber>>,
             \A b \in Bookings : /\ entry'[b].number = entry[b].number
                                 /\ entry'[b] # NoEntry => entry[b] # NoEntry
                                 /\ b \notin returned' =>
                                      b \notin returned /\ entry'[b].sort <= lastNumber
      PROVE  Placed'
  BY <1>1, <1>5 DEF Placed
<1>6. ASSUME NEW a \in Agents, Commit(a) PROVE Placed'
  <2> DEFINE c == work[a].booking
  <2>1. /\ c \in Bookings /\ entry[c] # NoEntry /\ lastNumber' = lastNumber
        /\ \A b \in Bookings : b # c => entry'[b] = entry[b]
        /\ entry'[c].number = entry[c].number
        /\ \/ entry'[c].sort = entry[c].sort /\ returned' = returned
           \/ returned' = returned \cup {c}
    BY <1>6, CommandPlaces
  <2> HIDE DEF c
  <2>2. QED
    BY <1>5, <2>1 DEF Placed
<1>7. ASSUME NEW a \in Agents, Reorder(a) PROVE Placed'
  <2>1. Len(work[a].order) <= lastNumber /\ Len(work[a].order) \in Nat
    BY <1>7, ShortOrder, WorkAt DEF Reorder, IInv
  <2>2. \A b \in Bookings :
          /\ lastNumber' = lastNumber /\ returned' = returned
          /\ entry'[b].number = entry[b].number
          /\ \/ entry'[b] = entry[b]
             \/ entry[b] # NoEntry /\ entry'[b].sort \in 1..Len(work[a].order)
    BY <1>7, ReorderPlaces
  <2>3. lastNumber' = lastNumber
    BY <1>7 DEF Reorder
  <2>4. \A b \in Bookings : b \notin returned' =>
          b \notin returned /\ entry'[b].sort <= lastNumber
    BY <1>2, <2>1, <2>2 DEF Placed
  <2>5. QED
    BY <1>5, <2>2, <2>3, <2>4
<1>8. CASE UNCHANGED board
  BY <1>1, <1>8 DEF Placed, board
<1>9. QED
  BY <1>4, <1>6, <1>7, <1>8, BoardMoves

LEMMA PlacesPass ==
  ASSUME IInv, Placed, [Next]_vars, NEW b \in Bookings \ returned,
         entry[b].status = "waiting", entry'[b].status = "waiting"
  PROVE  \/ Ahead(b)' \subseteq Ahead(b)
         \/ Rearranged
         \/ \E a \in Agents : /\ At(a, "commit") /\ work[a].op = "return"
                              /\ work[a].end < entry[b].sort
<1>1. entry \in [Bookings -> Entry] /\ lastNumber \in Nat
  BY EntryType DEF IInv, TypeOK
<1>2. entry[b] # NoEntry /\ entry[b].sort \in Nat /\ entry[b].sort <= lastNumber
  BY <1>1 DEF Placed, Entry, NoEntry
\* d is nobody who comes ahead of b.
<1> DEFINE Harmless(d) ==
      \/ entry'[d] = entry[d]
      \/ entry'[d].status \notin AheadStatuses
      \/ /\ entry[d].status \in AheadStatuses
         /\ entry'[d].sort = entry[d].sort /\ entry'[d].number = entry[d].number
      \/ entry'[d].sort > entry[b].sort /\ entry'[d].sort \in Nat
<1>3. ASSUME entry'[b] = entry[b], \A d \in Bookings : Harmless(d)
      PROVE  Ahead(b)' \subseteq Ahead(b)
  BY <1>1, <1>2, <1>3 DEF Ahead, InStatuses, Before, Entry
<1>4. ASSUME NEW c \in Bookings, Arrives(c) PROVE Ahead(b)' \subseteq Ahead(b)
  <2>1. c # b
    BY <1>2, <1>4 DEF Arrives
  <2>2. entry'[c].sort = lastNumber + 1 /\ \A d \in Bookings : d # c => entry'[d] = entry[d]
    BY <1>4, ArrivalPlaces
  <2>3. entry'[b] = entry[b] /\ entry'[c].sort > entry[b].sort /\ entry'[c].sort \in Nat
    BY <1>1, <1>2, <2>1, <2>2
  <2>4. \A d \in Bookings : Harmless(d)
    BY <2>2, <2>3
  <2> HIDE DEF Harmless
  <2>5. QED
    BY <1>3, <2>3, <2>4
<1>5. ASSUME NEW a \in Agents, Commit(a),
             ~(At(a, "commit") /\ work[a].op = "return" /\ work[a].end < entry[b].sort)
      PROVE  Ahead(b)' \subseteq Ahead(b)
  <2>1. PICK c : c = work[a].booking
    OBVIOUS
  <2>2. /\ c \in Bookings
        /\ \A d \in Bookings : d # c => entry'[d] = entry[d]
        /\ entry'[c].number = entry[c].number
        /\ entry[c].status = "waiting" => entry'[c].status # "waiting"
        /\ \/ /\ entry'[c].sort = entry[c].sort
              /\ entry'[c].status \in AheadStatuses => entry[c].status \in AheadStatuses
           \/ /\ At(a, "commit") /\ work[a].op = "return" /\ work[a].end \in Nat
              /\ entry'[c].sort = work[a].end + 1
    BY <1>5, <2>1, CommandPlaces
  <2>3. c # b
    BY <2>2
  <2>4. entry'[b] = entry[b]
    BY <2>2, <2>3
  <2>5. Harmless(c)
    BY <1>2, <1>5, <2>2
  <2>6. \A d \in Bookings : Harmless(d)
    BY <2>2, <2>5
  <2> HIDE DEF Harmless
  <2>7. QED
    BY <1>3, <2>4, <2>6
<1>6. ASSUME NEW a \in Agents, Reorder(a), ~Rearranged PROVE Ahead(b)' \subseteq Ahead(b)
  <2>1. \A d \in Bookings : /\ entry'[d].number = entry[d].number
                            /\ entry'[d].status = entry[d].status
                            /\ entry'[d].version = entry[d].version
    BY <1>6, ReorderPlaces
  <2>2. \A d \in Bookings : entry'[d].sort = entry[d].sort
    BY <1>6, <2>1 DEF Rearranged
  <2>3. QED
    BY <2>1, <2>2 DEF Ahead, InStatuses, Before
<1>7. CASE UNCHANGED board
  BY <1>7 DEF Ahead, InStatuses, Before, board
<1>8. QED
  BY <1>4, <1>5, <1>6, <1>7, BoardMoves

-----------------------------------------------------------------------------
(* The theorems.                                                           *)

LEMMA InitIInv ==
  ASSUME Init
  PROVE  IInv
<1>1. TypeOK
  <2>1. work \in [Agents -> Work]
    BY IdleIsWork DEF Init
  <2>2. NoEntry \in [status: QueueStatuses \cup {"none"}, sort: Nat, number: Nat,
                     version: 0..MaxVersion, staff: Staff \cup {NoStaff}]
    BY QueueAssumption DEF NoEntry
  <2>3. QED
    BY <2>1, <2>2 DEF Init, TypeOK, BookingStatuses
<1>2. EntryShape /\ CommandMemory /\ ReorderKnows /\ EntryMatchesBooking
  BY DEF Init, EntryShape, CommandMemory, ReorderKnows, EntryMatchesBooking, Idle, At
<1>3. NoOrphanReservation
  BY QueueAssumption DEF Init, NoOrphanReservation, BlockingStatuses
<1>4. QED
  BY <1>1, <1>2, <1>3 DEF IInv

\* The inductive invariant holds in every behaviour.
THEOREM Invariance == Spec => []IInv
<1>1. IInv /\ [Next]_vars => IInv'
  BY TypePreserved, ShapePreserved, MemoryPreserved, KnowsPreserved, FollowPreserved
  DEF IInv, BookingsFollow
<1>2. QED
  BY InitIInv, <1>1, PTL DEF Spec

\* Every variable keeps its type.
THEOREM TypeCorrect == Spec => []TypeOK
<1>1. IInv => TypeOK
  BY DEF IInv
<1>2. QED
  BY Invariance, <1>1, PTL

\* The version a client was shown stands for the status it was shown.
THEOREM CommandsRemember == Spec => []CommandMemory
<1>1. IInv => CommandMemory
  BY DEF IInv
<1>2. QED
  BY Invariance, <1>1, PTL

\* The booking of a queued customer says what his entry says, or no_show.
THEOREM BookingsFollowEntries == Spec => []EntryMatchesBooking
<1>1. IInv => EntryMatchesBooking
  BY DEF IInv
<1>2. QED
  BY Invariance, <1>1, PTL

\* No slot is kept by a booking that is over.
THEOREM SlotsAreReleased == Spec => []NoOrphanReservation
<1>1. IInv => NoOrphanReservation
  BY DEF IInv
<1>2. QED
  BY Invariance, <1>1, PTL

\* Every entry moves along the queue table, whatever commands race.
THEOREM EntriesFollowTheTable == Spec => QueueLifecycle
<1>1. ASSUME IInv, [Next]_vars PROVE EntriesMove
  BY <1>1, EntryMoves DEF EntriesMove, Moves, Stays, Replaced, Commanded, Enters
<1>2. QED
  BY Invariance, <1>1, PTL DEF Spec, QueueLifecycle

\* Numbers are handed out once, and who never returned stands behind none.
THEOREM PlacesInvariance == Spec => [](IInv /\ Placed)
<1>1. Init => Placed
  BY DEF Init, Placed, OrderOnce, At, Idle, NoEntry
<1>2. IInv /\ Placed /\ [Next]_vars => Placed'
  BY PlacesPreserved
<1>3. QED
  BY Invariance, <1>1, <1>2, PTL DEF Spec

\* Nobody passes a customer who kept his place, but by a reorder or by a return
\* that read the end of the queue before he stood there.
THEOREM NobodyPasses == Spec => NobodyPassesWhoWaits
<1>1. ASSUME IInv, Placed, [Next]_vars
      PROVE  \A b \in Bookings \ returned :
               entry[b].status = "waiting" /\ entry'[b].status = "waiting" =>
                 \/ Ahead(b)' \subseteq Ahead(b)
                 \/ Rearranged
                 \/ \E a \in Agents : /\ At(a, "commit") /\ work[a].op = "return"
                                      /\ work[a].end < entry[b].sort
  BY <1>1, PlacesPass
<1>2. QED
  BY PlacesInvariance, <1>1, PTL DEF Spec, NobodyPassesWhoWaits

=============================================================================
