------------------------ MODULE BookingCreationProofs ------------------------
(***************************************************************************)
(* Theorems about BookingCreation, for any number of requests, customers,  *)
(* staff, dates and edits.                                                 *)
(***************************************************************************)
EXTENDS BookingCreation, FiniteSetTheorems, WellFoundedInduction, TLAPS

\* Only a request that was answered with its booking has one.
Booked == \A r \in Requests : booking[r].status # "none" => pc[r] = "created"

\* A slot is reserved exactly as long as the booking holds it.
Reserved == \A r \in Requests : r \in reserved <=> IsBlocking(r)

\* No two reservations conflict.
Disjoint == \A r, q \in reserved : r # q => ~Excludes(r, q)

\* A request that counted still finds room: nobody of the customer inserts.
Room ==
  \A r \in Requests :
    pc[r] = "counted" => Cardinality(ActiveOf(ask[r].customer)) < MaxActive

\* The inductive invariant.
IInv == TypeOK /\ Booked /\ Reserved /\ Disjoint /\ Room /\ ActiveLimit

-----------------------------------------------------------------------------
(* Types.                                                                  *)

Memory == [row : StaffRow, edits : 0..MaxEdits, at : 0..MaxNow]
Standing == [status : {"none", "ended"} \cup Blocking, expires : Nat]

\* The types of what requests leave and of what edits write.
LEMMA Defaults == Unasked \in Asks /\ Row0 \in StaffRow /\ Unread \in Memory
<1>1. Unasked \in Asks
  BY CreationAssumption DEF Unasked
<1>2. Row0 \in StaffRow
  BY DEF Row0, StaffRow, DayOff
<1>3. Unread \in Memory
  BY <1>2, CreationAssumption DEF Unread, Memory
<1> QED BY <1>1, <1>2, <1>3

Week == [Dates -> SUBSET [start : Nat, end : Nat]]
StaffWeek == [Dates -> [periods : SUBSET [start : Nat, end : Nat],
                        breaks : SUBSET [start : Nat, end : Nat]]]

\* What staff edit.
Tables ==
  /\ hours \in Week /\ closed \subseteq Dates
  /\ staff \in [Staff -> StaffRow] /\ service \in [active : BOOLEAN, eligible : SUBSET Staff]
  /\ edits \in 0..MaxEdits

\* A lock is held by the request that is in its transaction.
Locks ==
  \A c \in Customers, r \in Requests :
    lock[c] = r <=> pc[r] = "counted" /\ ask[r].customer = c

Steps == {"new", "admitted", "checked", "ready", "counted", "created", "answered", "stopped"}

\* What requests change.
Progress ==
  /\ pc \in [Requests -> Steps] /\ ask \in [Requests -> Asks] /\ seen \in [Requests -> Memory]
  /\ lock \in [Customers -> Requests \cup {None}] /\ Locks
  /\ booking \in [Requests -> Standing] /\ reserved \subseteq Requests

LEMMA TypeParts == TypeOK <=> now \in 0..MaxNow /\ Tables /\ Progress
BY DEF TypeOK, Memory, Standing, Locks, Tables, Progress, Week, Steps, Underway

LEMMA TypePartsNext == TypeOK' <=> now' \in 0..MaxNow /\ Tables' /\ Progress'
BY DEF TypeOK, Memory, Standing, Locks, Tables, Progress, Week, Steps, Underway

\* An edit keeps the types of the tables.
LEMMA EditTypes ==
  ASSUME Tables, Editing
  PROVE  Tables' /\ Untouched
<1>0. /\ hours \in Week /\ closed \subseteq Dates
      /\ staff \in [Staff -> StaffRow] /\ service \in [active : BOOLEAN, eligible : SUBSET Staff]
      /\ edits \in 0..MaxEdits
  BY DEF Tables
<1>e. Edit => edits' \in 0..MaxEdits
  BY <1>0, CreationAssumption DEF Edit
<1>w. (\A week \in HoursInputs : week \in Week) /\ (\A week \in StaffInputs : week \in StaffWeek)
  BY CreationAssumption DEF Week, StaffWeek
<1>1. ASSUME NEW week \in HoursInputs, ReplaceOperatingHours(week) PROVE Tables' /\ Untouched
  BY <1>0, <1>1, <1>e, <1>w DEF ReplaceOperatingHours, Tables
<1>2. ASSUME NEW week \in HoursInputs, MergeOperatingHours(week) PROVE Tables' /\ Untouched
  <2>1. [d \in Dates |-> hours[d] \cup week[d]] \in Week
    BY <1>0, <1>w DEF Week
  <2> QED
    BY <1>0, <1>2, <1>e, <2>1 DEF MergeOperatingHours, Tables
<1>3. ASSUME NEW d \in Dates, CreateClosedDate(d) PROVE Tables' /\ Untouched
  BY <1>0, <1>3, <1>e DEF CreateClosedDate, Tables
<1>4. ASSUME NEW s \in Staff, NEW week \in StaffInputs, ReplaceStaffSchedule(s, week)
      PROVE  Tables' /\ Untouched
  <2>0. StaffRow = [active : BOOLEAN, here : BOOLEAN, configured : BOOLEAN, days : StaffWeek]
    BY DEF StaffRow, StaffWeek
  <2>1. [staff[s] EXCEPT !.configured = TRUE, !.days = week] \in StaffRow
    <3>1. staff[s] \in StaffRow /\ week \in StaffWeek
      BY <1>0, <1>w
    <3> QED BY <2>0, <3>1
  <2>2. staff' = [staff EXCEPT ![s] = [staff[s] EXCEPT !.configured = TRUE, !.days = week]]
    BY <1>0, <1>4 DEF ReplaceStaffSchedule
  <2>3. staff' \in [Staff -> StaffRow]
    BY <1>0, <2>1, <2>2
  <2> QED
    BY <1>0, <1>4, <1>e, <2>3 DEF ReplaceStaffSchedule, Tables
<1>5. ASSUME NEW s \in Staff, NEW active \in BOOLEAN, NEW here \in BOOLEAN,
             UpdateStaff(s, active, here)
      PROVE  Tables' /\ Untouched
  <2>1. [staff[s] EXCEPT !.active = active, !.here = here] \in StaffRow
    BY <1>0 DEF StaffRow
  <2>2. staff' = [staff EXCEPT ![s] = [staff[s] EXCEPT !.active = active, !.here = here]]
    BY <1>0, <1>5 DEF UpdateStaff
  <2>3. staff' \in [Staff -> StaffRow]
    BY <1>0, <2>1, <2>2
  <2> QED
    BY <1>0, <1>5, <1>e, <2>3 DEF UpdateStaff, Tables
<1>6. ASSUME NEW active \in BOOLEAN, NEW eligible \in SUBSET Staff, UpdateService(active, eligible)
      PROVE  Tables' /\ Untouched
  BY <1>0, <1>6, <1>e DEF UpdateService, Tables
<1> QED
  BY <1>1, <1>2, <1>3, <1>4, <1>5, <1>6 DEF Editing

\* A request that ends without a transaction open.
LEMMA EndTypes ==
  ASSUME Progress, NEW r \in Requests, pc[r] # "counted",
         NEW step \in {"answered", "stopped"}, Goto(r, step), Forget(r),
         UNCHANGED <<lock, booking, reserved>>
  PROVE  Progress'
BY Defaults DEF Progress, Forget, Goto, Locks, Steps

\* The end of a transaction, in whatever step and memory it leaves the request.
LEMMA CommitTypes ==
  ASSUME Progress, NEW r \in Requests, pc[r] = "counted",
         NEW step \in Steps \ {"counted"}, Goto(r, step), Unlock(r),
         ask' \in [Requests -> Asks], \A q \in Requests : q # r => ask'[q] = ask[q],
         seen' \in [Requests -> Memory],
         booking' \in [Requests -> Standing], reserved' \subseteq Requests
  PROVE  Progress'
<1>1. ask[r].customer \in Customers
  BY CreationAssumption DEF Progress
<1>2. pc' \in [Requests -> Steps] /\ lock' \in [Customers -> Requests \cup {None}]
  BY DEF Progress, Goto, Unlock, Steps
<1>3. Locks'
  <2> SUFFICES ASSUME NEW c \in Customers, NEW q \in Requests
               PROVE  lock'[c] = q <=> pc'[q] = "counted" /\ ask'[q].customer = c
    BY DEF Locks
  <2>1. lock[c] = q <=> pc[q] = "counted" /\ ask[q].customer = c
    BY DEF Progress, Locks
  <2>2. lock[ask[r].customer] = r
    BY <1>1 DEF Progress, Locks
  <2>3. CASE q = r
    BY <1>1, <2>1, <2>2, <2>3, CreationAssumption DEF Progress, Goto, Unlock
  <2>4. CASE q # r
    BY <1>1, <2>1, <2>2, <2>4, CreationAssumption DEF Progress, Goto, Unlock
  <2> QED BY <2>3, <2>4
<1> QED BY <1>2, <1>3 DEF Progress

LEMMA TypePreserved == ASSUME TypeOK, Booked, [Next]_vars PROVE TypeOK'
<1>0. now \in 0..MaxNow /\ Tables /\ Progress
  BY TypeParts
<1>1. ASSUME NEW r \in Requests, NEW a \in Asks, Admit(r, a) PROVE TypeOK'
  <2>0. UNCHANGED <<now, tables, lock, booking, reserved>> /\ pc[r] = "new"
    BY <1>1 DEF Admit, At
  <2>1. ASSUME Leave(r) PROVE Progress'
    BY <1>0, <2>0, <2>1, EndTypes DEF Leave
  <2>2. ASSUME Goto(r, "admitted"), ask' = [ask EXCEPT ![r] = a],
               seen' = [seen EXCEPT ![r] = [row |-> staff[a.staff], edits |-> edits, at |-> now]]
        PROVE  Progress'
    <3>1. [row |-> staff[a.staff], edits |-> edits, at |-> now] \in Memory
      BY <1>0, CreationAssumption DEF Memory, Tables
    <3> QED
      BY <1>0, <2>0, <2>2, <3>1 DEF Progress, Goto, Locks, Steps
  <2> QED
    BY <1>0, <1>1, <2>0, <2>1, <2>2, TypePartsNext DEF Admit, tables, Tables
<1>2. ASSUME NEW r \in Requests, CheckSlot(r) \/ LookForPending(r) PROVE TypeOK'
  <2>0. /\ UNCHANGED <<now, tables, lock, booking, reserved>> /\ pc[r] # "counted"
        /\ \/ Leave(r)
           \/ UNCHANGED <<ask, seen>> /\ \E step \in {"checked", "ready"} : Goto(r, step)
    BY <1>2 DEF CheckSlot, LookForPending, At
  <2>1. ASSUME Leave(r) PROVE Progress'
    BY <1>0, <2>0, <2>1, EndTypes DEF Leave
  <2>2. ASSUME UNCHANGED <<ask, seen>>, NEW step \in {"checked", "ready"}, Goto(r, step)
        PROVE  Progress'
    BY <1>0, <2>0, <2>2 DEF Progress, Goto, Locks, Steps
  <2> QED
    BY <1>0, <2>0, <2>1, <2>2, TypePartsNext DEF tables, Tables
<1>3. ASSUME NEW r \in Requests, LockAndCount(r) PROVE TypeOK'
  <2>0. UNCHANGED <<now, tables, booking, reserved>> /\ pc[r] = "ready" /\ LockFree(r)
    BY <1>3 DEF LockAndCount, At
  <2>1. ASSUME Leave(r), UNCHANGED lock PROVE Progress'
    BY <1>0, <2>0, <2>1, EndTypes DEF Leave
  <2>2. ASSUME Goto(r, "counted"), UNCHANGED <<ask, seen>>,
               lock' = [lock EXCEPT ![ask[r].customer] = r]
        PROVE  Progress'
    <3>1. ask[r].customer \in Customers /\ lock[ask[r].customer] = None
      BY <1>0, <2>0, CreationAssumption DEF Progress, LockFree
    <3>2. Locks'
      <4> SUFFICES ASSUME NEW c \in Customers, NEW q \in Requests
                   PROVE  lock'[c] = q <=> pc'[q] = "counted" /\ ask'[q].customer = c
        BY DEF Locks
      <4>1. lock[c] = q <=> pc[q] = "counted" /\ ask[q].customer = c
        BY <1>0 DEF Progress, Locks
      <4>2. CASE q = r
        BY <1>0, <2>0, <2>2, <3>1, <4>1, <4>2 DEF Progress, Goto
      <4>3. CASE q # r
        BY <1>0, <2>0, <2>2, <3>1, <4>1, <4>3, CreationAssumption DEF Progress, Goto
      <4> QED BY <4>2, <4>3
    <3> QED
      BY <1>0, <2>0, <2>2, <3>1, <3>2 DEF Progress, Goto, Steps
  <2> QED
    BY <1>0, <1>3, <2>0, <2>1, <2>2, TypePartsNext DEF LockAndCount, tables, Tables
<1>4. ASSUME NEW r \in Requests, InsertAndCommit(r) PROVE TypeOK'
  <2>0. UNCHANGED <<now, tables>> /\ pc[r] = "counted" /\ Unlock(r)
    BY <1>4 DEF InsertAndCommit, At
  <2>1. ASSUME Leave(r), UNCHANGED <<booking, reserved>> PROVE Progress'
    <3>1. /\ ask' \in [Requests -> Asks] /\ \A q \in Requests : q # r => ask'[q] = ask[q]
          /\ seen' \in [Requests -> Memory] /\ Goto(r, "answered")
      BY <1>0, <2>1, Defaults DEF Leave, Forget, Progress
    <3> QED
      BY <1>0, <2>0, <2>1, <3>1, CommitTypes DEF Progress, Steps
  <2>2. ASSUME Goto(r, "created"), UNCHANGED ask, seen' = [seen EXCEPT ![r] = Unread],
               booking' = [booking EXCEPT ![r] =
                 [status |-> IF ask[r].online THEN "pending_payment" ELSE "confirmed",
                  expires |-> IF ask[r].online THEN seen[r].at + PayWindow ELSE 0]],
               reserved' = reserved \cup {r}
        PROVE  Progress'
    <3>1. seen[r].at + PayWindow \in Nat
      BY <1>0, CreationAssumption DEF Progress, Memory
    <3>2. booking' \in [Requests -> Standing] /\ reserved' \subseteq Requests
      BY <1>0, <2>2, <3>1 DEF Progress, Standing, Blocking
    <3>3. seen' \in [Requests -> Memory] /\ ask' \in [Requests -> Asks]
      BY <1>0, <2>2, Defaults DEF Progress
    <3> QED
      BY <1>0, <2>0, <2>2, <3>2, <3>3, CommitTypes DEF Steps
  <2> QED
    BY <1>0, <1>4, <2>0, <2>1, <2>2, TypePartsNext DEF InsertAndCommit, tables, Tables
<1>5. ASSUME NEW r \in Requests, Stop(r) PROVE TypeOK'
  <2>0. UNCHANGED <<now, tables, booking, reserved>> /\ Goto(r, "stopped") /\ Forget(r)
    BY <1>5 DEF Stop
  <2>1. CASE pc[r] = "counted"
    <3>1. /\ ask' \in [Requests -> Asks] /\ \A q \in Requests : q # r => ask'[q] = ask[q]
          /\ seen' \in [Requests -> Memory] /\ Goto(r, "stopped")
      BY <1>0, <2>0, Defaults DEF Forget, Progress
    <3>2. Unlock(r)
      BY <1>5, <2>1 DEF Stop, At
    <3>3. booking' \in [Requests -> Standing] /\ reserved' \subseteq Requests
      BY <1>0, <2>0 DEF Progress
    <3>4. Progress'
      BY <1>0, <2>1, <3>1, <3>2, <3>3, CommitTypes DEF Steps
    <3> QED
      BY <1>0, <2>0, <3>4, TypePartsNext DEF tables, Tables
  <2>2. CASE pc[r] # "counted"
    <3>1. Progress'
      BY <1>0, <1>5, <2>0, <2>2, EndTypes DEF Stop, At
    <3> QED
      BY <1>0, <2>0, <3>1, TypePartsNext DEF tables, Tables
  <2> QED BY <2>1, <2>2
<1>6. ASSUME NEW r \in Requests, EndBooking(r) \/ ConfirmPaid(r) PROVE TypeOK'
  <2>1. UNCHANGED <<now, tables, pc, ask, seen, lock>> /\ reserved' \subseteq reserved
    BY <1>6 DEF EndBooking, ConfirmPaid
  <2>2. booking' \in [Requests -> Standing]
    BY <1>0, <1>6 DEF EndBooking, ConfirmPaid, Progress, Standing, Blocking
  <2>3. Progress'
    BY <1>0, <2>1, <2>2 DEF Progress, Locks
  <2> QED
    BY <1>0, <2>1, <2>3, TypePartsNext DEF tables, Tables
<1>7. ASSUME Editing PROVE TypeOK'
  <2>1. Tables' /\ Untouched
    BY <1>0, <1>7, EditTypes
  <2> QED
    BY <1>0, <2>1, TypePartsNext DEF Untouched, Progress, Locks
<1>8. ASSUME Tick PROVE TypeOK'
  <2>1. now' \in 0..MaxNow
    BY <1>0, <1>8, CreationAssumption DEF Tick
  <2> QED
    BY <1>0, <1>8, <2>1, TypePartsNext DEF Tick, tables, Tables, Progress, Locks
<1>9. ASSUME UNCHANGED vars PROVE TypeOK'
  BY <1>0, <1>9, TypePartsNext DEF vars, tables, Tables, Progress, Locks
<1> QED
  BY <1>1, <1>2, <1>3, <1>4, <1>5, <1>6, <1>7, <1>8, <1>9 DEF Next, Request, Step

-----------------------------------------------------------------------------
(* Slots.                                                                  *)

\* A step that leaves the bookings, and what they were asked for, alone.
Quiet ==
  /\ UNCHANGED <<booking, reserved>>
  /\ \A q \in Requests : pc[q] = "created" => pc'[q] = "created" /\ ask'[q] = ask[q]

\* The commit of a request that met no conflict.
Inserted(r) ==
  /\ pc[r] = "counted" /\ Goto(r, "created") /\ UNCHANGED ask
  /\ \E expires \in Nat, status \in Blocking :
       booking' = [booking EXCEPT ![r] = [status |-> status, expires |-> expires]]
  /\ reserved' = reserved \cup {r}
  /\ \A q \in reserved : ~Excludes(r, q)

\* Every step is one of these.
LEMMA StepKinds ==
  ASSUME TypeOK, [Next]_vars
  PROVE  Quiet \/ \E r \in Requests : Inserted(r) \/ EndBooking(r) \/ ConfirmPaid(r)
<1>0. Progress
  BY TypeParts
<1>1. ASSUME NEW r \in Requests, NEW a \in Asks, Admit(r, a) PROVE Quiet
  BY <1>0, <1>1 DEF Admit, Leave, Forget, At, Goto, Quiet, Progress
<1>2. ASSUME NEW r \in Requests, CheckSlot(r) \/ LookForPending(r) PROVE Quiet
  BY <1>0, <1>2 DEF CheckSlot, LookForPending, Leave, Forget, At, Goto, Quiet, Progress
<1>3. ASSUME NEW r \in Requests, LockAndCount(r) PROVE Quiet
  BY <1>0, <1>3 DEF LockAndCount, Leave, Forget, At, Goto, Quiet, Progress
<1>4. ASSUME NEW r \in Requests, InsertAndCommit(r) PROVE Quiet \/ Inserted(r)
  <2>1. CASE \E q \in reserved : Excludes(r, q)
    BY <1>0, <1>4, <2>1 DEF InsertAndCommit, Leave, Forget, At, Goto, Quiet, Progress
  <2>2. CASE ~\E q \in reserved : Excludes(r, q)
    <3>1. seen[r].at + PayWindow \in Nat
      BY <1>0, CreationAssumption DEF Progress, Memory
    <3>2. /\ (IF ask[r].online THEN "pending_payment" ELSE "confirmed") \in Blocking
          /\ (IF ask[r].online THEN seen[r].at + PayWindow ELSE 0) \in Nat
      BY <3>1 DEF Blocking
    <3> QED
      BY <1>4, <2>2, <3>2 DEF InsertAndCommit, At, Inserted
  <2> QED BY <2>1, <2>2
<1>5. ASSUME NEW r \in Requests, Stop(r) PROVE Quiet
  BY <1>0, <1>5 DEF Stop, Underway, Forget, Goto, Quiet, Progress
<1>6. ASSUME Editing PROVE Quiet
  <2>1. Untouched
    BY <1>6 DEF Editing, ReplaceOperatingHours, MergeOperatingHours, CreateClosedDate,
                ReplaceStaffSchedule, UpdateStaff, UpdateService
  <2> QED BY <2>1 DEF Untouched, Quiet
<1>7. ASSUME Tick \/ UNCHANGED vars PROVE Quiet
  BY <1>7 DEF Tick, vars, Quiet
<1> QED
  BY <1>1, <1>2, <1>3, <1>4, <1>5, <1>6, <1>7 DEF Next, Request, Step

LEMMA BookedPreserved == ASSUME TypeOK, Booked, [Next]_vars PROVE Booked'
<1>0. Progress
  BY TypeParts
<1>1. ASSUME Quiet PROVE Booked'
  BY <1>1 DEF Booked, Quiet
<1>2. ASSUME NEW r \in Requests, Inserted(r) PROVE Booked'
  BY <1>0, <1>2 DEF Booked, Inserted, Goto, Progress
<1>3. ASSUME NEW r \in Requests, EndBooking(r) \/ ConfirmPaid(r) PROVE Booked'
  BY <1>0, <1>3 DEF Booked, EndBooking, ConfirmPaid, IsBlocking, Blocking, Progress
<1> QED BY <1>1, <1>2, <1>3, StepKinds

LEMMA ReservedPreserved == ASSUME TypeOK, Reserved, [Next]_vars PROVE Reserved'
<1>0. Progress
  BY TypeParts
<1>1. ASSUME Quiet PROVE Reserved'
  BY <1>1 DEF Reserved, Quiet, IsBlocking
<1>2. ASSUME NEW r \in Requests, Inserted(r) PROVE Reserved'
  BY <1>0, <1>2 DEF Reserved, Inserted, IsBlocking, Progress
<1>3. ASSUME NEW r \in Requests, EndBooking(r) \/ ConfirmPaid(r) PROVE Reserved'
  BY <1>0, <1>3 DEF Reserved, EndBooking, ConfirmPaid, IsBlocking, Blocking, Progress
<1> QED BY <1>1, <1>2, <1>3, StepKinds

\* Whether two bookings conflict does not change while both hold their slots.
LEMMA DisjointPreserved ==
  ASSUME TypeOK, Booked, Reserved, Disjoint, [Next]_vars
  PROVE  Disjoint'
<1>0. Progress /\ \A q \in reserved : q \in Requests /\ pc[q] = "created"
  BY TypeParts DEF Progress, Booked, Reserved, IsBlocking, Blocking
<1>1. ASSUME Quiet PROVE Disjoint'
  BY <1>0, <1>1 DEF Disjoint, Quiet, Excludes, Interval
<1>2. ASSUME NEW r \in Requests, Inserted(r) PROVE Disjoint'
  <2>1. ask' = ask /\ reserved' = reserved \cup {r}
    BY <1>2 DEF Inserted
  <2>2. \A q \in reserved : ~Excludes(r, q) /\ ~Excludes(q, r)
    BY <1>2 DEF Inserted, Excludes, Overlap, Interval
  <2> QED
    BY <2>1, <2>2 DEF Disjoint, Excludes, Interval
<1>3. ASSUME NEW r \in Requests, EndBooking(r) \/ ConfirmPaid(r) PROVE Disjoint'
  BY <1>3 DEF Disjoint, EndBooking, ConfirmPaid, Excludes, Interval
<1> QED BY <1>1, <1>2, <1>3, StepKinds

-----------------------------------------------------------------------------
(* The limit.                                                              *)

\* The active bookings of a customer are finitely many.
LEMMA ActiveFinite ==
  ASSUME NEW c
  PROVE  /\ IsFiniteSet(ActiveOf(c)) /\ Cardinality(ActiveOf(c)) \in Nat
         /\ \A S \in SUBSET ActiveOf(c) : Cardinality(S) <= Cardinality(ActiveOf(c))
<1>1. IsFiniteSet(Requests) /\ ActiveOf(c) \subseteq Requests
  BY CreationAssumption DEF ActiveOf
<1>2. IsFiniteSet(ActiveOf(c))
  BY <1>1, FS_Subset
<1>3. \A S \in SUBSET ActiveOf(c) : Cardinality(S) <= Cardinality(ActiveOf(c))
  BY <1>2, FS_Subset
<1> QED BY <1>2, <1>3, FS_CardinalityType

\* Only a commit adds to them, and only to those of its own customer.
LEMMA ActiveNext ==
  ASSUME TypeOK, Booked, [Next]_vars, NEW c,
         \A r \in Requests : Inserted(r) => ask[r].customer # c
  PROVE  ActiveOf(c)' \subseteq ActiveOf(c)
<1>0. Progress
  BY TypeParts
<1>1. ASSUME Quiet PROVE ActiveOf(c)' \subseteq ActiveOf(c)
  BY <1>1 DEF Quiet, ActiveOf, IsBlocking, Blocking, Booked
<1>2. ASSUME NEW r \in Requests, Inserted(r) PROVE ActiveOf(c)' \subseteq ActiveOf(c)
  BY <1>0, <1>2 DEF Inserted, ActiveOf, IsBlocking, Progress
<1>3. ASSUME NEW r \in Requests, EndBooking(r) \/ ConfirmPaid(r)
      PROVE  ActiveOf(c)' \subseteq ActiveOf(c)
  BY <1>0, <1>3 DEF EndBooking, ConfirmPaid, ActiveOf, IsBlocking, Blocking, Progress
<1> QED BY <1>1, <1>2, <1>3, StepKinds

\* A request in its transaction was in it before, or has just counted.
LEMMA Counting ==
  ASSUME TypeOK, [Next]_vars, NEW r \in Requests, pc'[r] = "counted"
  PROVE  \/ pc[r] = "counted" /\ ask'[r] = ask[r]
         \/ /\ UNCHANGED <<booking, ask>>
            /\ ~(Cardinality(ActiveOf(ask[r].customer)) >= MaxActive)
<1> DEFINE Goal == \/ pc[r] = "counted" /\ ask'[r] = ask[r]
                   \/ /\ UNCHANGED <<booking, ask>>
                      /\ ~(Cardinality(ActiveOf(ask[r].customer)) >= MaxActive)
<1> SUFFICES Goal OBVIOUS
<1> HIDE DEF Goal
<1>0. Progress
  BY TypeParts
<1>1. ASSUME NEW q \in Requests, NEW a \in Asks, Admit(q, a) PROVE Goal
  BY <1>0, <1>1 DEF Admit, Leave, Forget, At, Goto, Progress, Goal
<1>2. ASSUME NEW q \in Requests, CheckSlot(q) \/ LookForPending(q) PROVE Goal
  BY <1>0, <1>2 DEF CheckSlot, LookForPending, Leave, Forget, At, Goto, Progress, Goal
<1>3. ASSUME NEW q \in Requests, LockAndCount(q) PROVE Goal
  <2>1. CASE Cardinality(ActiveOf(ask[q].customer)) >= MaxActive
    BY <1>0, <1>3, <2>1 DEF LockAndCount, Leave, Forget, At, Goto, Progress, Goal
  <2>2. CASE ~(Cardinality(ActiveOf(ask[q].customer)) >= MaxActive)
    BY <1>0, <1>3, <2>2 DEF LockAndCount, At, Goto, Progress, Goal
  <2> QED BY <2>1, <2>2
<1>4. ASSUME NEW q \in Requests, InsertAndCommit(q) \/ Stop(q) PROVE Goal
  BY <1>0, <1>4 DEF InsertAndCommit, Stop, Leave, Forget, At, Goto, Progress, Goal
<1>5. ASSUME NEW q \in Requests, EndBooking(q) \/ ConfirmPaid(q) PROVE Goal
  BY <1>5 DEF EndBooking, ConfirmPaid, Goal
<1>6. ASSUME Editing PROVE Goal
  <2>1. Untouched
    BY <1>6 DEF Editing, ReplaceOperatingHours, MergeOperatingHours, CreateClosedDate,
                ReplaceStaffSchedule, UpdateStaff, UpdateService
  <2> QED BY <2>1 DEF Untouched, Goal
<1>7. ASSUME Tick \/ UNCHANGED vars PROVE Goal
  BY <1>7 DEF Tick, vars, Goal
<1> QED
  BY <1>1, <1>2, <1>3, <1>4, <1>5, <1>6, <1>7 DEF Next, Request, Step

LEMMA RoomPreserved == ASSUME TypeOK, Booked, Room, [Next]_vars PROVE Room'
<1> SUFFICES ASSUME NEW r \in Requests, pc'[r] = "counted", NEW c, c = ask'[r].customer
             PROVE  Cardinality(ActiveOf(c)') < MaxActive
  BY DEF Room
<1>0. Progress /\ MaxActive \in Nat
  BY TypeParts, CreationAssumption
<1>1. CASE pc[r] = "counted" /\ ask'[r] = ask[r]
  <2>1. c \in Customers /\ lock[c] = r
    BY <1>0, <1>1, CreationAssumption DEF Progress, Locks
  <2>2. \A q \in Requests : Inserted(q) => ask[q].customer # c
    <3> SUFFICES ASSUME NEW q \in Requests, Inserted(q), ask[q].customer = c PROVE FALSE
      OBVIOUS
    <3>1. lock[c] = q
      BY <1>0, <2>1 DEF Progress, Locks, Inserted
    <3> QED
      BY <1>0, <2>1, <3>1 DEF Inserted, Goto, Progress
  <2>3. ActiveOf(c)' \subseteq ActiveOf(c)
    BY <2>2, ActiveNext
  <2>4. Cardinality(ActiveOf(c)) < MaxActive
    BY <1>1 DEF Room
  <2>5. Cardinality(ActiveOf(c)') <= Cardinality(ActiveOf(c))
    BY <2>3, ActiveFinite
  <2>6. Cardinality(ActiveOf(c)') \in Nat /\ Cardinality(ActiveOf(c)) \in Nat
    <3>1. IsFiniteSet(ActiveOf(c)')
      BY <2>3, ActiveFinite, FS_Subset
    <3> QED BY <3>1, ActiveFinite, FS_CardinalityType
  <2> QED BY <1>0, <1>1, <2>4, <2>5, <2>6
<1>2. CASE /\ UNCHANGED <<booking, ask>>
           /\ ~(Cardinality(ActiveOf(ask[r].customer)) >= MaxActive)
  <2>1. ActiveOf(c)' = ActiveOf(c)
    BY <1>2 DEF ActiveOf, IsBlocking
  <2> QED BY <1>0, <1>2, <2>1, ActiveFinite
<1> QED BY <1>1, <1>2, Counting

LEMMA LimitPreserved ==
  ASSUME TypeOK, Booked, Room, ActiveLimit, [Next]_vars
  PROVE  ActiveLimit'
<1> SUFFICES ASSUME NEW c \in Customers
             PROVE  Cardinality(ActiveOf(c)') <= MaxActive
  BY DEF ActiveLimit
<1>0. MaxActive \in Nat /\ Cardinality(ActiveOf(c)) <= MaxActive /\ Cardinality(ActiveOf(c)) \in Nat
  BY CreationAssumption, ActiveFinite DEF ActiveLimit
<1>1. ASSUME NEW r \in Requests, Inserted(r), ask[r].customer = c
      PROVE  Cardinality(ActiveOf(c)') <= MaxActive
  <2>0. Progress
    BY TypeParts
  <2>1. Cardinality(ActiveOf(c)) < MaxActive
    BY <1>1 DEF Room, Inserted
  <2>2. ActiveOf(c)' \subseteq ActiveOf(c) \cup {r}
    BY <1>1, <2>0 DEF Inserted, ActiveOf, IsBlocking, Progress
  <2>3. /\ IsFiniteSet(ActiveOf(c) \cup {r})
        /\ Cardinality(ActiveOf(c) \cup {r}) <= Cardinality(ActiveOf(c)) + 1
    <3>1. IsFiniteSet(ActiveOf(c))
      BY ActiveFinite
    <3>2. /\ IsFiniteSet(ActiveOf(c) \cup {r})
          /\ Cardinality(ActiveOf(c) \cup {r}) = IF r \in ActiveOf(c)
                                                 THEN Cardinality(ActiveOf(c))
                                                 ELSE Cardinality(ActiveOf(c)) + 1
      BY <3>1, FS_AddElement
    <3> QED BY <1>0, <3>2
  <2>4. Cardinality(ActiveOf(c)') <= Cardinality(ActiveOf(c) \cup {r}) /\ IsFiniteSet(ActiveOf(c)')
    BY <2>2, <2>3, FS_Subset
  <2>5. Cardinality(ActiveOf(c)') \in Nat /\ Cardinality(ActiveOf(c) \cup {r}) \in Nat
    BY <2>3, <2>4, FS_CardinalityType
  <2> QED BY <1>0, <2>1, <2>3, <2>4, <2>5
<1>2. ASSUME \A r \in Requests : Inserted(r) => ask[r].customer # c
      PROVE  Cardinality(ActiveOf(c)') <= MaxActive
  <2>1. ActiveOf(c)' \subseteq ActiveOf(c)
    BY <1>2, ActiveNext
  <2>2. Cardinality(ActiveOf(c)') <= Cardinality(ActiveOf(c)) /\ IsFiniteSet(ActiveOf(c)')
    BY <2>1, ActiveFinite, FS_Subset
  <2>3. Cardinality(ActiveOf(c)') \in Nat
    BY <2>2, FS_CardinalityType
  <2> QED BY <1>0, <2>2, <2>3
<1> QED BY <1>1, <1>2

-----------------------------------------------------------------------------
(* Cutting breaks out of periods.  SubtractRanges is a fold: one recursive *)
(* function over the subsets of the breaks.  That it has a solution, and   *)
(* what its solution covers, are proved by taking a smallest set that      *)
(* would be an exception.                                                  *)

Spans == [start : Nat, end : Nat]

Pick(S) == CHOOSE x \in S : TRUE

\* One unfolding of the recursion: g is a function on the subsets of cuts.
Unfold(base, cuts, g) ==
  [S \in SUBSET cuts |-> IF S = {} THEN base ELSE CutAll(g[S \ {Pick(S)}], Pick(S))]

Cuts(base, cuts, g) == g = Unfold(base, cuts, g)

LEMMA CutsIs ==
  \A base, cuts : SubtractRanges(base, cuts) = (CHOOSE g : Cuts(base, cuts, g))[cuts]
BY DEF SubtractRanges, FoldSet, MapThenFoldSet, Cuts, Unfold, Pick

LEMMA PickIn == \A S : S # {} => Pick(S) \in S
BY DEF Pick

LEMMA CutsAt ==
  ASSUME NEW base, NEW cuts, NEW g, Cuts(base, cuts, g), NEW S \in SUBSET cuts
  PROVE  /\ S = {} => g[S] = base
         /\ S # {} => g[S] = CutAll(g[S \ {Pick(S)}], Pick(S))
<1>1. Unfold(base, cuts, g)[S] =
        IF S = {} THEN base ELSE CutAll(g[S \ {Pick(S)}], Pick(S))
  BY DEF Unfold
<1> QED BY <1>1 DEF Cuts

CutStepwise(base, cuts, g) ==
  \A S \in SUBSET cuts :
    /\ S = {} => g[S] = base
    /\ S # {} => g[S] = CutAll(g[S \ {Pick(S)}], Pick(S))

LEMMA CutsStepwise ==
  \A base, cuts, g : Cuts(base, cuts, g) => CutStepwise(base, cuts, g)
BY CutsAt DEF CutStepwise

\* A set of subsets of a finite set has a smallest member.
LEMMA Smallest ==
  ASSUME NEW S, IsFiniteSet(S), NEW Bad, Bad \subseteq SUBSET S, Bad # {}
  PROVE  \E T \in Bad : \A U \in Bad : U \subseteq T => U = T
<1> DEFINE R == StrictSubsetOrdering(S)
           F == FiniteSubsetsOf(S)
<1>1. IsWellFoundedOn(R, F)
  BY FS_StrictSubsetOrderingWellFounded
<1>2. Bad \subseteq F
  BY FS_FiniteSubsetsOfFinite
<1> HIDE DEF R, F
<1>3. \E T \in Bad : \A U \in Bad : ~(<<U, T>> \in R)
  BY <1>1, <1>2, WFMin
<1> QED BY <1>3 DEF R, StrictSubsetOrdering

\* Two solutions agree where both are defined.
LEMMA CutsUnique ==
  ASSUME NEW base, NEW R, IsFiniteSet(R), NEW Q \in SUBSET R, NEW g, NEW k,
         Cuts(base, R, g), Cuts(base, Q, k)
  PROVE  \A S \in SUBSET Q : g[S] = k[S]
<1> DEFINE Bad == {S \in SUBSET Q : g[S] # k[S]}
<1> SUFFICES ASSUME Bad # {} PROVE FALSE
  OBVIOUS
<1>1. Bad \subseteq SUBSET Q /\ IsFiniteSet(Q)
  BY FS_Subset
<1>2. PICK T \in Bad : \A U \in Bad : U \subseteq T => U = T
  <2> HIDE DEF Bad
  <2> QED BY <1>1, Smallest
<1>3. T \in SUBSET R /\ T \in SUBSET Q /\ g[T] # k[T]
  OBVIOUS
<1>4. T # {}
  <2> HIDE DEF Bad
  <2>1. T = {} => g[T] = base /\ k[T] = base
    BY <1>3, CutsAt
  <2> QED BY <1>3, <2>1
<1>5. g[T \ {Pick(T)}] = k[T \ {Pick(T)}]
  BY <1>2, <1>4, PickIn
<1> QED BY <1>3, <1>4, <1>5, CutsAt

\* There is a solution: a smallest set without one could be given one.
LEMMA CutsExist ==
  ASSUME NEW base, NEW R, IsFiniteSet(R)
  PROVE  \E g : Cuts(base, R, g)
<1> DEFINE Bad == {S \in SUBSET R : ~\E g : Cuts(base, S, g)}
<1> SUFFICES ASSUME Bad # {} PROVE FALSE
  OBVIOUS
<1>1. Bad \subseteq SUBSET R
  OBVIOUS
<1>2. PICK T \in Bad : \A U \in Bad : U \subseteq T => U = T
  <2> HIDE DEF Bad
  <2> QED BY <1>1, Smallest
<1> DEFINE G(S) == CHOOSE g : Cuts(base, S, g)
           k == [S \in SUBSET T |-> IF S = {} THEN base
                   ELSE CutAll(G(S \ {Pick(S)})[S \ {Pick(S)}], Pick(S))]
<1>3. \A S \in SUBSET T : S # T => Cuts(base, S, G(S))
  <2> SUFFICES ASSUME NEW S \in SUBSET T, S # T PROVE \E g : Cuts(base, S, g)
    OBVIOUS
  <2> QED BY <1>2
<1>4. \A S \in SUBSET T : S # T => k[S] = G(S)[S]
  <2> SUFFICES ASSUME NEW S \in SUBSET T, S # T, S # {} PROVE k[S] = G(S)[S]
    <3>1. {} # T => G({})[{}] = base
      <4> HIDE DEF G, k
      <4>1. {} \in SUBSET {} /\ {} \in SUBSET T
        OBVIOUS
      <4>2. {} # T => Cuts(base, {}, G({}))
        BY <1>3, <4>1
      <4> QED BY <4>1, <4>2, CutsAt
    <3> QED BY <3>1
  <2> DEFINE V == S \ {Pick(S)}
  <2>1. V \in SUBSET S /\ V # T /\ V \in SUBSET T
    BY PickIn
  <2>2. Cuts(base, S, G(S)) /\ Cuts(base, V, G(V))
    BY <1>3, <2>1
  <2>3. IsFiniteSet(S)
    BY FS_Subset
  <2> HIDE DEF G, k
  <2>4. G(S)[V] = G(V)[V]
    <3> HIDE DEF V
    <3>1. V \in SUBSET V
      OBVIOUS
    <3> QED BY <2>1, <2>2, <2>3, <3>1, CutsUnique
  <2>5. G(S)[S] = CutAll(G(S)[V], Pick(S))
    <3>1. S \in SUBSET S
      OBVIOUS
    <3> QED BY <2>2, <3>1, CutsAt
  <2> QED BY <2>4, <2>5 DEF k
<1> HIDE DEF G
<1>5. Cuts(base, T, k)
  <2> SUFFICES ASSUME NEW S \in SUBSET T, S # {}
               PROVE  G(S \ {Pick(S)})[S \ {Pick(S)}] = k[S \ {Pick(S)}]
    BY DEF Cuts, Unfold
  <2>1. S \ {Pick(S)} # T /\ S \ {Pick(S)} \in SUBSET T
    BY PickIn
  <2> HIDE DEF k
  <2> QED BY <1>4, <2>1
<1> QED BY <1>2, <1>5

\* One cut takes from what is covered exactly the slots that meet it.
LEMMA OneCut ==
  ASSUME NEW ranges \in SUBSET Spans, NEW cut \in Spans,
         NEW slot \in Spans, slot.start < slot.end
  PROVE  /\ CutAll(ranges, cut) \subseteq Spans
         /\ Covers(CutAll(ranges, cut), slot) <=> Covers(ranges, slot) /\ ~Overlap(cut, slot)
<1> DEFINE Around(p) == p.start <= slot.start /\ slot.end <= p.end
<1>1. ASSUME NEW r \in Spans
      PROVE  /\ Kept(r, cut) \subseteq Spans
             /\ (\E p \in Kept(r, cut) : Around(p)) <=> Around(r) /\ ~Overlap(cut, slot)
  <2>1. r.start \in Nat /\ r.end \in Nat /\ cut.start \in Nat /\ cut.end \in Nat
        /\ slot.start \in Nat /\ slot.end \in Nat
    BY DEF Spans
  <2>2. CASE cut.end <= r.start \/ cut.start >= r.end
    BY <2>1, <2>2 DEF Kept, Overlap
  <2>3. CASE ~(cut.end <= r.start \/ cut.start >= r.end)
    <3>1. Kept(r, cut) =
            {p \in {Period(r.start, cut.start), Period(cut.end, r.end)} : p.start < p.end}
      BY <2>3 DEF Kept
    <3>2. /\ Period(r.start, cut.start).start = r.start
          /\ Period(r.start, cut.start).end = cut.start
          /\ Period(cut.end, r.end).start = cut.end /\ Period(cut.end, r.end).end = r.end
          /\ Period(r.start, cut.start) \in Spans /\ Period(cut.end, r.end) \in Spans
      BY <2>1 DEF Period, Spans
    <3> HIDE DEF Around
    <3>3. (\E p \in Kept(r, cut) : Around(p)) <=>
            \/ r.start < cut.start /\ Around(Period(r.start, cut.start))
            \/ cut.end < r.end /\ Around(Period(cut.end, r.end))
      BY <3>1, <3>2
    <3>4. Around(r) /\ ~Overlap(cut, slot) <=>
            \/ r.start < cut.start /\ Around(Period(r.start, cut.start))
            \/ cut.end < r.end /\ Around(Period(cut.end, r.end))
      BY <2>1, <2>3, <3>2 DEF Around, Overlap
    <3> QED BY <3>1, <3>2, <3>3, <3>4
  <2> QED BY <2>2, <2>3
<1> HIDE DEF Around
<1>2. Covers(ranges, slot) <=> \E r \in ranges : Around(r)
  BY DEF Covers, Around
<1>3. Covers(CutAll(ranges, cut), slot) <=> \E r \in ranges : \E p \in Kept(r, cut) : Around(p)
  BY DEF Covers, Around, CutAll
<1>4. CutAll(ranges, cut) \subseteq Spans
  BY <1>1 DEF CutAll
<1> QED BY <1>1, <1>2, <1>3, <1>4

\* What is left covers exactly the slots of the periods that meet no break.
LEMMA CutsCover ==
  ASSUME NEW base \in SUBSET Spans, NEW cuts \in SUBSET Spans, IsFiniteSet(cuts),
         NEW slot \in Spans, slot.start < slot.end
  PROVE  Covers(SubtractRanges(base, cuts), slot) <=>
           Covers(base, slot) /\ \A c \in cuts : ~Overlap(c, slot)
<1>1. PICK g : Cuts(base, cuts, g) /\ SubtractRanges(base, cuts) = g[cuts]
  BY CutsExist, CutsIs
<1>4. CutStepwise(base, cuts, g)
  BY <1>1, CutsStepwise
<1> DEFINE Good(T) ==
      /\ g[T] \subseteq Spans
      /\ Covers(g[T], slot) <=> Covers(base, slot) /\ \A c \in T : ~Overlap(c, slot)
           Bad == {T \in SUBSET cuts : ~Good(T)}
<1>2. Bad = {}
  <2> SUFFICES ASSUME Bad # {} PROVE FALSE
    OBVIOUS
  <2>1. PICK T \in Bad : \A U \in Bad : U \subseteq T => U = T
    <3>1. Bad \subseteq SUBSET cuts
      OBVIOUS
    <3> HIDE DEF Bad
    <3> QED BY <3>1, Smallest
  <2>2. T \in SUBSET cuts /\ ~Good(T)
    OBVIOUS
  <2>3. T # {}
    <3> HIDE DEF Bad, Good
    <3>1. T = {} => g[T] = base
      BY <1>4, <2>2 DEF CutStepwise
    <3>2. T = {} => Good(T)
      BY <3>1 DEF Good
    <3> QED BY <2>2, <3>2
  <2> DEFINE c == Pick(T)
             V == T \ {c}
  <2>4. c \in T /\ c \in Spans /\ V \in SUBSET cuts /\ T = V \cup {c}
    BY <2>2, <2>3, PickIn
  <2>5. Good(V)
    BY <2>1, <2>4
  <2>6. g[T] = CutAll(g[V], c)
    <3> HIDE DEF Bad, Good
    <3> QED BY <1>4, <2>2, <2>3 DEF CutStepwise
  <2> HIDE DEF c, V, Bad
  <2>7. /\ CutAll(g[V], c) \subseteq Spans
        /\ Covers(CutAll(g[V], c), slot) <=> Covers(g[V], slot) /\ ~Overlap(c, slot)
    BY <2>4, <2>5, OneCut
  <2> QED BY <2>2, <2>4, <2>5, <2>6, <2>7
<1>3. Good(cuts)
  BY <1>2
<1> QED BY <1>1, <1>3

-----------------------------------------------------------------------------
(* Dates, slots, and who can work.                                         *)

LEMMA DateAndMinute ==
  ASSUME NEW t \in Nat
  PROVE  /\ Date(t) \in Nat /\ Minute(t) \in 0..(DayLength - 1)
         /\ t = Date(t) * DayLength + Minute(t)
BY CreationAssumption DEF Date, Minute

\* The outlet closes before midnight, and a day has finitely many breaks.
Calendar ==
  /\ \A d \in Dates : \A p \in hours[d] : p.end <= DayLength
  /\ \A s \in Staff, d \in Dates : IsFiniteSet(staff[s].days[d].breaks)

\* A slot of the grid lies in a period of the day.
LEMMA GridSlots ==
  ASSUME Tables, Calendar, NEW d \in Dates, NEW slot \in SlotGrid(hours[d], Duration)
  PROVE  /\ slot \in Spans /\ slot.start < slot.end /\ slot.end <= DayLength
         /\ Covers(hours[d], slot)
<1>1. hours[d] \subseteq Spans /\ Duration \in Nat /\ Duration > 0 /\ DayLength \in Nat
  BY CreationAssumption DEF Tables, Week, Spans
<1>2. PICK p \in hours[d], k \in Nat :
        /\ slot = Period(p.start + k * Duration, p.start + (k + 1) * Duration)
        /\ p.start + (k + 1) * Duration <= p.end
  BY DEF SlotGrid
<1>3. p.start \in Nat /\ p.end \in Nat /\ k \in Nat /\ p.end <= DayLength
  BY <1>1 DEF Calendar, Spans
<1>4. k * Duration \in Nat /\ (k + 1) * Duration = k * Duration + Duration
  BY <1>1, <1>3
<1>5. slot.start = p.start + k * Duration /\ slot.end = p.start + k * Duration + Duration
  BY <1>1, <1>2, <1>3, <1>4 DEF Period
<1>6. slot \in Spans
  <2>1. slot.start \in Nat /\ slot.end \in Nat
    BY <1>1, <1>3, <1>4, <1>5
  <2>2. slot = [start |-> slot.start, end |-> slot.end]
    BY <1>2 DEF Period
  <2> QED BY <2>1, <2>2 DEF Spans
<1>7. /\ slot.start < slot.end /\ slot.end <= p.end
      /\ p.start <= slot.start
  BY <1>1, <1>2, <1>3, <1>4, <1>5
<1>8. slot.end <= DayLength
  BY <1>1, <1>3, <1>4, <1>5, <1>7
<1> QED BY <1>6, <1>7, <1>8 DEF Covers

\* The functions of slots.ts say who can work: the definition without them.
LEMMA AvailableCanWork ==
  ASSUME Tables, Calendar, NEW s \in Staff, NEW d \in Dates,
         NEW slot \in Spans, slot.start < slot.end, Covers(hours[d], slot)
  PROVE  d \notin closed /\ Covers(Availability(staff[s], d, hours[d]), slot)
           <=> CanWork(s, d, slot)
<1> DEFINE row == staff[s]
           Around(p) == p.start <= slot.start /\ slot.end <= p.end
<1>1. row.days[d].periods \in SUBSET Spans /\ row.days[d].breaks \in SUBSET Spans
      /\ IsFiniteSet(row.days[d].breaks)
  BY DEF Tables, Calendar, StaffRow, Spans
<1>2. Covers(SubtractRanges(row.days[d].periods, row.days[d].breaks), slot) <=>
        /\ Covers(row.days[d].periods, slot)
        /\ \A b \in row.days[d].breaks : ~Overlap(b, slot)
  BY <1>1, CutsCover
<1>3. CASE ~row.here
  BY <1>3 DEF Availability, StaffAvailability, Covers, CanWork
<1>4. CASE row.here /\ ~row.configured
  BY <1>4 DEF Availability, StaffAvailability, Covers, CanWork
<1>5. CASE row.here /\ row.configured
  BY <1>2, <1>5 DEF Availability, StaffAvailability, Covers, CanWork
<1> QED BY <1>3, <1>4, <1>5

LEMMA OffersExact ==
  ASSUME TypeOK, Calendar
  PROVE  OffersMatchSchedules
<1> SUFFICES ASSUME NEW d \in Dates, NEW s \in Staff
             PROVE  OfferedOn(d, s) =
                      IF /\ service.active /\ staff[s].active /\ Eligible(s)
                         /\ d \in Today..(Today + Advance)
                      THEN {slot \in SlotGrid(hours[d], Duration) :
                              /\ CanWork(s, d, slot)
                              /\ d = Today => slot.start >= Minute(now) + Lead}
                      ELSE {}
  BY DEF OffersMatchSchedules
<1>1. Tables
  BY TypeParts
<1> DEFINE cutoff == IF d = Today THEN Minute(now) + Lead ELSE 0
<1>2. ASSUME NEW slot \in SlotGrid(hours[d], Duration)
      PROVE  /\ d \notin closed /\ Covers(Availability(staff[s], d, hours[d]), slot)
                  <=> CanWork(s, d, slot)
             /\ slot.start >= cutoff <=> (d = Today => slot.start >= Minute(now) + Lead)
             /\ d \in closed => ~CanWork(s, d, slot)
  <2>1. slot \in Spans /\ slot.start < slot.end /\ Covers(hours[d], slot)
    BY <1>1, GridSlots
  <2>2. slot.start >= 0
    BY <2>1 DEF Spans
  <2>3. d \notin closed /\ Covers(Availability(staff[s], d, hours[d]), slot)
          <=> CanWork(s, d, slot)
    BY <1>1, <2>1, AvailableCanWork
  <2> QED BY <2>2, <2>3
<1> HIDE DEF cutoff
<1>3. CASE d \in closed
  BY <1>2, <1>3 DEF OfferedOn, OfferedAt, Today
<1>4. CASE d \notin closed
  <2>1. OfferedOn(d, s) =
          IF d \in Today..(Today + Advance) /\ service.active /\ staff[s].active /\ Eligible(s)
          THEN {slot \in SlotGrid(hours[d], Duration) :
                  slot.start >= cutoff /\ Covers(Availability(staff[s], d, hours[d]), slot)}
          ELSE {}
    BY <1>4 DEF OfferedOn, OfferedAt, Today, BuildSlots, cutoff
  <2> QED BY <1>2, <1>4, <2>1
<1> QED BY <1>3, <1>4

\* The tables let s work, as far as a request looks before it knows the time.
Allowed(s) == service.active /\ staff[s].active /\ Eligible(s)

\* What the tables offered at time t, they accept at any time.
LEMMA OfferedFits ==
  ASSUME Tables, Calendar, NEW t \in Nat, NEW a \in Asks, Offered(a, t)
  PROVE  /\ Fits(staff[a.staff], a.start) /\ Allowed(a.staff)
         /\ Date(a.start) <= Date(t) + Advance
         /\ Date(a.start) = Date(t) => a.start >= t + Lead
<1> DEFINE d == Date(a.start)
           s == a.staff
           slot == SlotAt(a.start)
<1>1. /\ d \in Dates /\ a.start \in Nat /\ Lead \in Nat /\ DayLength \in Nat /\ DayLength > 0
  BY CreationAssumption DEF Date
<1> HIDE DEF d, s, slot
<1>2. /\ d \in Date(t)..(Date(t) + Advance) /\ d \notin closed
      /\ service.active /\ staff[s].active /\ Eligible(s)
      /\ slot \in SlotGrid(hours[d], Duration)
      /\ Covers(Availability(staff[s], d, hours[d]), slot)
      /\ d = Date(t) => slot.start >= Minute(t) + Lead
  BY DEF Offered, OfferedAt, BuildSlots, d, s, slot
<1>3. Covers(hours[d], slot)
  BY <1>1, <1>2, GridSlots
<1>4. Fits(staff[s], a.start)
  BY <1>2, <1>3 DEF Fits, d, slot
<1>5. ASSUME d = Date(t) PROVE a.start >= t + Lead
  <2>1. slot.start = Minute(a.start)
    BY DEF slot, SlotAt, Period
  <2>2. a.start = d * DayLength + Minute(a.start) /\ Minute(a.start) \in Nat /\ d \in Nat
    <3> DEFINE u == a.start
    <3>1. u \in Nat
      BY <1>1
    <3> HIDE DEF u
    <3>2. /\ Date(u) \in Nat /\ Minute(u) \in 0..(DayLength - 1)
          /\ u = Date(u) * DayLength + Minute(u)
      BY <3>1, DateAndMinute, Zenon
    <3>3. Minute(u) \in Nat
      BY <1>1, <3>2
    <3> QED BY <3>2, <3>3 DEF u, d
  <2>3. t = Date(t) * DayLength + Minute(t) /\ Minute(t) \in Nat
    BY <1>1, DateAndMinute
  <2>4. d * DayLength \in Nat
    BY <1>1, <2>2
  <2> QED BY <1>1, <1>2, <1>5, <2>1, <2>2, <2>3, <2>4
<1> QED BY <1>2, <1>4, <1>5 DEF Allowed, d, s

-----------------------------------------------------------------------------
(* What a request remembers of the tables.                                 *)

\* An edit is counted, and nothing but an edit touches the tables.
LEMMA TablesMove ==
  ASSUME [Next]_vars
  PROVE  \/ UNCHANGED tables
         \/ Editing /\ Untouched /\ edits' = edits + 1
<1>1. ASSUME Editing PROVE Untouched /\ edits' = edits + 1
  BY <1>1 DEF Editing, ReplaceOperatingHours, MergeOperatingHours, CreateClosedDate,
              ReplaceStaffSchedule, UpdateStaff, UpdateService, Edit
<1>2. ASSUME NEW r \in Requests, Request(r) \/ Step(r) \/ Stop(r) PROVE UNCHANGED tables
  BY <1>2 DEF Request, Step, Admit, CheckSlot, LookForPending, LockAndCount,
              InsertAndCommit, Stop
<1>3. ASSUME NEW r \in Requests, EndBooking(r) \/ ConfirmPaid(r) PROVE UNCHANGED tables
  BY <1>3 DEF EndBooking, ConfirmPaid
<1>4. ASSUME Tick \/ UNCHANGED vars PROVE UNCHANGED tables
  BY <1>4 DEF Tick, vars
<1> QED BY <1>1, <1>2, <1>3, <1>4 DEF Next

LEMMA CalendarPreserved == ASSUME TypeOK, Calendar, [Next]_vars PROVE Calendar'
<1>0. Tables /\ \A w \in HoursInputs, d \in Dates : \A p \in w[d] : p.end <= DayLength
  BY TypeParts, CreationAssumption
<1>1. ASSUME UNCHANGED hours PROVE \A d \in Dates : \A p \in hours'[d] : p.end <= DayLength
  BY <1>1 DEF Calendar
<1>2. ASSUME UNCHANGED staff
      PROVE  \A s \in Staff, d \in Dates : IsFiniteSet(staff'[s].days[d].breaks)
  BY <1>2 DEF Calendar
<1>3. ASSUME NEW week \in HoursInputs,
             ReplaceOperatingHours(week) \/ MergeOperatingHours(week)
      PROVE  /\ UNCHANGED staff
             /\ \A d \in Dates : \A p \in hours'[d] : p.end <= DayLength
  BY <1>0, <1>3 DEF ReplaceOperatingHours, MergeOperatingHours, Calendar
<1>4. ASSUME NEW s \in Staff, NEW week \in StaffInputs, ReplaceStaffSchedule(s, week)
      PROVE  \A q \in Staff, d \in Dates : IsFiniteSet(staff'[q].days[d].breaks)
  <2>1. staff \in [Staff -> StaffRow] /\ \A d \in Dates : IsFiniteSet(week[d].breaks)
    BY <1>0, CreationAssumption DEF Tables
  <2>2. staff'[s].days = week /\ \A q \in Staff : q # s => staff'[q] = staff[q]
    BY <1>4, <2>1 DEF ReplaceStaffSchedule, StaffRow
  <2> QED BY <2>1, <2>2 DEF Calendar
<1>5. ASSUME NEW s \in Staff, NEW active \in BOOLEAN, NEW here \in BOOLEAN,
             UpdateStaff(s, active, here)
      PROVE  \A q \in Staff, d \in Dates : IsFiniteSet(staff'[q].days[d].breaks)
  <2>1. staff \in [Staff -> StaffRow]
    BY <1>0 DEF Tables
  <2>2. \A q \in Staff : staff'[q].days = staff[q].days
    BY <1>5, <2>1 DEF UpdateStaff, StaffRow
  <2> QED BY <2>2 DEF Calendar
<1>6. ASSUME Editing PROVE Calendar'
  BY <1>1, <1>2, <1>3, <1>4, <1>5, <1>6
  DEF Editing, CreateClosedDate, UpdateService, ReplaceStaffSchedule, UpdateStaff, Calendar
<1>7. CASE UNCHANGED tables
  BY <1>1, <1>2, <1>7 DEF tables, Calendar
<1> QED BY <1>6, <1>7, TablesMove

\* A request that saw the last edit knows the tables as they are: an edit in
\* between is the only way for its checks to be out of date.
Fresh ==
  \A r \in Requests :
    /\ seen[r].edits <= edits
    /\ pc[r] \in Underway /\ seen[r].edits = edits =>
         /\ seen[r].row = staff[ask[r].staff] /\ Allowed(ask[r].staff)
         /\ pc[r] # "admitted" => Fits(seen[r].row, ask[r].start)

\* How a request gets to where it is underway.
LEMMA RequestMoves ==
  ASSUME TypeOK, [Next]_vars, NEW r \in Requests
  PROVE  \/ pc'[r] = pc[r] /\ ask'[r] = ask[r] /\ seen'[r] = seen[r]
         \/ pc'[r] \notin Underway /\ seen'[r] = Unread
         \/ /\ ask'[r] \in Asks /\ pc'[r] = "admitted" /\ UNCHANGED tables
            /\ seen'[r] = [row |-> staff[ask'[r].staff], edits |-> edits, at |-> now]
            /\ Admissible(ask'[r].staff, ask'[r].start)
         \/ /\ pc[r] = "admitted" /\ ask'[r] = ask[r] /\ seen'[r] = seen[r] /\ UNCHANGED tables
            /\ Fits(seen[r].row, ask[r].start)
         \/ /\ pc[r] \in Underway \ {"admitted"} /\ pc'[r] \in Underway \ {"admitted"}
            /\ ask'[r] = ask[r] /\ seen'[r] = seen[r]
<1> DEFINE Goal ==
         \/ pc'[r] = pc[r] /\ ask'[r] = ask[r] /\ seen'[r] = seen[r]
         \/ pc'[r] \notin Underway /\ seen'[r] = Unread
         \/ /\ ask'[r] \in Asks /\ pc'[r] = "admitted" /\ UNCHANGED tables
            /\ seen'[r] = [row |-> staff[ask'[r].staff], edits |-> edits, at |-> now]
            /\ Admissible(ask'[r].staff, ask'[r].start)
         \/ /\ pc[r] = "admitted" /\ ask'[r] = ask[r] /\ seen'[r] = seen[r] /\ UNCHANGED tables
            /\ Fits(seen[r].row, ask[r].start)
         \/ /\ pc[r] \in Underway \ {"admitted"} /\ pc'[r] \in Underway \ {"admitted"}
            /\ ask'[r] = ask[r] /\ seen'[r] = seen[r]
<1> SUFFICES Goal OBVIOUS
<1>0. /\ pc \in [Requests -> Steps] /\ ask \in [Requests -> Asks]
      /\ seen \in [Requests -> Memory]
  BY TypeParts DEF Progress
<1>1. ASSUME UNCHANGED <<pc, ask, seen>> PROVE Goal
  BY <1>1
<1>s. ASSUME NEW q \in Requests, NEW step \in {"answered", "stopped"}, Goto(q, step), Forget(q)
      PROVE  Goal
  BY <1>0, <1>s DEF Forget, Goto, Underway
<1>2. ASSUME NEW q \in Requests, Leave(q) PROVE Goal
  BY <1>s, <1>2 DEF Leave
<1>3. ASSUME NEW q \in Requests, NEW step, Goto(q, step), UNCHANGED <<ask, seen>>, q # r
      PROVE  Goal
  BY <1>0, <1>3 DEF Goto
<1>4. ASSUME NEW q \in Requests, NEW a \in Asks, Admit(q, a) PROVE Goal
  <2>1. CASE Admissible(a.staff, a.start)
    <3>1. /\ pc' = [pc EXCEPT ![q] = "admitted"] /\ ask' = [ask EXCEPT ![q] = a]
          /\ seen' = [seen EXCEPT ![q] = [row |-> staff[a.staff], edits |-> edits, at |-> now]]
          /\ UNCHANGED tables
      BY <1>4, <2>1 DEF Admit, Goto
    <3> HIDE DEF Goal
    <3>2. CASE q = r
      BY <1>0, <2>1, <3>1, <3>2 DEF Goal
    <3>3. CASE q # r
      BY <1>0, <3>1, <3>3 DEF Goal
    <3> QED BY <3>2, <3>3
  <2>2. CASE ~Admissible(a.staff, a.start)
    <3> HIDE DEF Goal
    <3> QED BY <1>2, <1>4, <2>2 DEF Admit
  <2> QED BY <2>1, <2>2
<1>5. ASSUME NEW q \in Requests, CheckSlot(q) PROVE Goal
  <2>1. CASE Fits(seen[q].row, ask[q].start)
    <3>1. /\ pc' = [pc EXCEPT ![q] = "checked"] /\ UNCHANGED <<ask, seen>> /\ UNCHANGED tables
          /\ pc[q] = "admitted"
      BY <1>5, <2>1 DEF CheckSlot, Goto, At
    <3> HIDE DEF Goal
    <3>2. CASE q = r
      BY <2>1, <3>1, <3>2 DEF Goal
    <3>3. CASE q # r
      BY <1>0, <3>1, <3>3 DEF Goal
    <3> QED BY <3>2, <3>3
  <2>2. CASE ~Fits(seen[q].row, ask[q].start)
    <3> HIDE DEF Goal
    <3> QED BY <1>2, <1>5, <2>2 DEF CheckSlot
  <2> QED BY <2>1, <2>2
<1>6. ASSUME NEW q \in Requests, LookForPending(q) \/ LockAndCount(q) PROVE Goal
  <2>1. \/ Leave(q)
        \/ /\ UNCHANGED <<ask, seen>> /\ pc[q] \in {"checked", "ready"}
           /\ \E step \in {"ready", "counted"} : pc' = [pc EXCEPT ![q] = step]
    BY <1>6 DEF LookForPending, LockAndCount, At, Goto
  <2>2. ASSUME UNCHANGED <<ask, seen>>, pc[q] \in {"checked", "ready"},
               NEW step \in {"ready", "counted"}, pc' = [pc EXCEPT ![q] = step]
        PROVE  Goal
    <3> HIDE DEF Goal
    <3>1. CASE q = r
      BY <1>0, <2>2, <3>1 DEF Goal, Underway
    <3>2. CASE q # r
      BY <1>0, <2>2, <3>2 DEF Goal
    <3> QED BY <3>1, <3>2
  <2> HIDE DEF Goal
  <2> QED BY <1>2, <2>1, <2>2
<1>7. ASSUME NEW q \in Requests, InsertAndCommit(q) PROVE Goal
  <2>1. \/ Leave(q)
        \/ Goto(q, "created") /\ UNCHANGED ask /\ seen' = [seen EXCEPT ![q] = Unread]
    <3>1. CASE \E other \in reserved : Excludes(q, other)
      BY <1>7, <3>1, Zenon DEF InsertAndCommit
    <3>2. CASE ~ \E other \in reserved : Excludes(q, other)
      BY <1>7, <3>2, Zenon DEF InsertAndCommit
    <3> QED BY <3>1, <3>2
  <2>2. ASSUME Goto(q, "created"), UNCHANGED ask, seen' = [seen EXCEPT ![q] = Unread]
        PROVE  Goal
    BY <1>0, <2>2 DEF Goto, Underway
  <2> HIDE DEF Goal
  <2> QED BY <1>2, <2>1, <2>2
<1> HIDE DEF Goal
<1>8. ASSUME NEW q \in Requests, Stop(q) PROVE Goal
  BY <1>s, <1>8 DEF Stop
<1>9. ASSUME NEW q \in Requests, EndBooking(q) \/ ConfirmPaid(q) PROVE Goal
  BY <1>1, <1>9 DEF EndBooking, ConfirmPaid
<1>10. ASSUME Editing PROVE Goal
  BY <1>1, <1>10 DEF Editing, ReplaceOperatingHours, MergeOperatingHours, CreateClosedDate,
                     ReplaceStaffSchedule, UpdateStaff, UpdateService, Untouched
<1>11. ASSUME Tick \/ UNCHANGED vars PROVE Goal
  BY <1>1, <1>11 DEF Tick, vars
<1> QED
  BY <1>4, <1>5, <1>6, <1>7, <1>8, <1>9, <1>10, <1>11 DEF Next, Request, Step

LEMMA FitsStays ==
  ASSUME UNCHANGED tables, NEW row, NEW t, NEW s
  PROVE  (Fits(row, t)' <=> Fits(row, t)) /\ (Allowed(s)' <=> Allowed(s))
BY DEF tables, Fits, Allowed, Eligible

LEMMA FreshPreserved == ASSUME TypeOK, Fresh, [Next]_vars PROVE Fresh'
<1> SUFFICES ASSUME NEW r \in Requests, NEW a, NEW m, a = ask'[r], m = seen'[r]
             PROVE  /\ m.edits <= edits'
                    /\ pc'[r] \in Underway /\ m.edits = edits' =>
                         /\ m.row = staff'[a.staff] /\ Allowed(a.staff)'
                         /\ pc'[r] # "admitted" => Fits(m.row, a.start)'
  BY DEF Fresh
<1>0. edits \in Nat /\ seen[r].edits \in Nat /\ seen[r].edits <= edits
  BY TypeParts DEF Tables, Progress, Memory, Fresh
<1>1. edits' \in Nat /\ edits <= edits'
  BY <1>0, TablesMove DEF tables
<1>2. CASE Editing /\ Untouched /\ edits' = edits + 1
  BY <1>0, <1>2 DEF Untouched
<1>3. CASE UNCHANGED tables
  <2>1. edits' = edits /\ staff' = staff /\ (Fits(m.row, a.start)' <=> Fits(m.row, a.start))
        /\ (Allowed(a.staff)' <=> Allowed(a.staff))
    BY <1>3, FitsStays DEF tables
  <2>2. CASE pc'[r] = pc[r] /\ ask'[r] = ask[r] /\ seen'[r] = seen[r]
    BY <1>0, <2>1, <2>2 DEF Fresh
  <2>3. CASE pc'[r] \notin Underway /\ seen'[r] = Unread
    BY <1>0, <2>1, <2>3 DEF Unread
  <2>4. CASE /\ pc'[r] = "admitted"
             /\ seen'[r] = [row |-> staff[ask'[r].staff], edits |-> edits, at |-> now]
             /\ Admissible(ask'[r].staff, ask'[r].start)
    BY <1>0, <2>1, <2>4 DEF Admissible, Allowed
  <2>5. CASE /\ pc[r] = "admitted" /\ ask'[r] = ask[r] /\ seen'[r] = seen[r]
             /\ Fits(seen[r].row, ask[r].start)
    BY <1>0, <2>1, <2>5 DEF Fresh, Underway
  <2>6. CASE /\ pc[r] \in Underway \ {"admitted"} /\ pc'[r] \in Underway \ {"admitted"}
             /\ ask'[r] = ask[r] /\ seen'[r] = seen[r]
    BY <1>0, <2>1, <2>6 DEF Fresh
  <2> QED BY <2>2, <2>3, <2>4, <2>5, <2>6, RequestMoves
<1> QED BY <1>2, <1>3, TablesMove

\* A booking is made by the commit of its request.
LEMMA BookedWithin ==
  ASSUME TypeOK, Calendar, Fresh, [Next]_vars, NEW r \in Requests,
         booking[r].status = "none", IsBlocking(r)', seen[r].edits = edits
  PROVE  /\ CanWork(ask[r].staff, Date(ask[r].start), SlotAt(ask[r].start))
         /\ staff[ask[r].staff].active /\ service.active /\ Eligible(ask[r].staff)
<1>0. Tables /\ Progress
  BY TypeParts
<1>1. pc[r] = "counted"
  <2>1. booking \in [Requests -> Standing] /\ booking'[r].status \in Blocking
        /\ booking[r].status \notin Blocking
    BY <1>0 DEF Progress, IsBlocking, Blocking
  <2>2. ~Quiet
    BY <2>1 DEF Quiet
  <2>3. ASSUME NEW q \in Requests, EndBooking(q) \/ ConfirmPaid(q) PROVE FALSE
    <3>1. q # r
      BY <2>1, <2>3 DEF EndBooking, ConfirmPaid, IsBlocking, Blocking
    <3>2. booking'[r] = booking[r]
      BY <2>1, <2>3, <3>1 DEF EndBooking, ConfirmPaid
    <3> QED BY <2>1, <3>2
  <2>4. ASSUME NEW q \in Requests, Inserted(q) PROVE q = r /\ pc[q] = "counted"
    BY <2>1, <2>4 DEF Inserted
  <2> QED BY <2>2, <2>3, <2>4, StepKinds
<1> DEFINE s == ask[r].staff
           t == ask[r].start
           d == Date(t)
           slot == SlotAt(t)
<1>2. seen[r].row = staff[s] /\ Allowed(s) /\ Fits(seen[r].row, t)
  BY <1>1 DEF Fresh, Underway
<1>3. s \in Staff /\ t \in Nat /\ d \in Dates
  BY <1>0, CreationAssumption DEF Progress, Date
<1>4. slot \in Spans /\ slot.start < slot.end
  <2>1. Minute(t) \in Nat /\ Duration \in Nat /\ Duration > 0
    BY <1>3, DateAndMinute, CreationAssumption
  <2> QED BY <2>1 DEF SlotAt, Period, Spans
<1>5. d \notin closed /\ Covers(hours[d], slot) /\ Covers(Availability(staff[s], d, hours[d]), slot)
  BY <1>2 DEF Fits
<1> HIDE DEF s, t, d, slot
<1>6. CanWork(s, d, slot)
  BY <1>0, <1>3, <1>4, <1>5, AvailableCanWork
<1> QED BY <1>2, <1>6 DEF s, t, d, slot, Allowed

\* A request for an offered slot is admitted.
LEMMA OfferedAdmitted ==
  ASSUME TypeOK, Calendar, NEW r \in Requests, NEW a \in Asks, Admit(r, a), Offered(a, now),
         a.start > now, Date(a.start) # Today => a.start >= now + Lead
  PROVE  pc'[r] = "admitted"
<1>1. Tables /\ now \in Nat /\ pc \in [Requests -> Steps]
  BY TypeParts DEF Progress
<1>2. Admissible(a.staff, a.start)
  BY <1>1, OfferedFits DEF Admissible, Allowed, Today
<1>3. Goto(r, "admitted")
  BY <1>2 DEF Admit
<1> QED BY <1>1, <1>3 DEF Goto

\* No check of the schedules refuses it after that.
LEMMA OfferedPasses ==
  ASSUME TypeOK, Calendar, Fresh, [Next]_vars, NEW r \in Requests,
         pc[r] \in Underway, pc'[r] = "answered",
         seen[r].edits = edits, Offered(ask[r], seen[r].at)
  PROVE  TurnedAway(r)
<1>0. Tables /\ Progress /\ pc \in [Requests -> Steps]
  BY TypeParts DEF Progress
<1>f. Fits(seen[r].row, ask[r].start)
  <2>1. seen[r].at \in Nat /\ ask[r] \in Asks
    BY <1>0 DEF Progress, Memory
  <2>2. seen[r].row = staff[ask[r].staff]
    BY DEF Fresh
  <2> QED BY <1>0, <2>1, <2>2, OfferedFits
<1>1. ASSUME NEW q \in Requests, NEW step, Goto(q, step)
      PROVE  q = r /\ step = "answered"
  BY <1>0, <1>1 DEF Goto, Underway
<1>2. ASSUME UNCHANGED pc PROVE FALSE
  BY <1>2 DEF Underway
<1>3. ASSUME NEW q \in Requests, NEW a \in Asks, Admit(q, a) PROVE FALSE
  <2>1. \E step \in {"admitted", "answered"} : Goto(q, step)
    BY <1>3 DEF Admit, Leave
  <2> QED BY <1>1, <1>3, <2>1 DEF Admit, At, Underway
<1>4. ASSUME NEW q \in Requests, CheckSlot(q) PROVE FALSE
  <2>1. \E step \in {"checked", "answered"} : Goto(q, step)
    BY <1>4 DEF CheckSlot, Leave
  <2>2. q = r
    BY <1>1, <2>1
  <2>3. Goto(r, "checked")
    BY <1>4, <1>f, <2>2 DEF CheckSlot
  <2> QED BY <1>1, <2>3
<1>5. ASSUME NEW q \in Requests, LookForPending(q) PROVE TurnedAway(r)
  <2>1. CASE ask[q].online /\ Resumable(q) # {}
    <3>1. q = r
      BY <1>1, <1>5, <2>1 DEF LookForPending, Leave
    <3> QED BY <1>5, <2>1, <3>1 DEF LookForPending, TurnedAway
  <2>2. CASE ~(ask[q].online /\ Resumable(q) # {})
    BY <1>1, <1>5, <2>2 DEF LookForPending
  <2> QED BY <2>1, <2>2
<1>6. ASSUME NEW q \in Requests, LockAndCount(q) PROVE TurnedAway(r)
  <2>1. CASE Cardinality(ActiveOf(ask[q].customer)) >= MaxActive
    <3>1. q = r
      BY <1>1, <1>6, <2>1 DEF LockAndCount, Leave
    <3> QED BY <1>6, <2>1, <3>1 DEF LockAndCount, TurnedAway
  <2>2. CASE ~(Cardinality(ActiveOf(ask[q].customer)) >= MaxActive)
    BY <1>1, <1>6, <2>2 DEF LockAndCount
  <2> QED BY <2>1, <2>2
<1>7. ASSUME NEW q \in Requests, InsertAndCommit(q) PROVE TurnedAway(r)
  <2>1. CASE \E other \in reserved : Excludes(q, other)
    <3>1. q = r
      BY <1>1, <1>7, <2>1 DEF InsertAndCommit, Leave
    <3> QED BY <1>7, <2>1, <3>1 DEF InsertAndCommit, TurnedAway
  <2>2. CASE ~ \E other \in reserved : Excludes(q, other)
    BY <1>1, <1>7, <2>2 DEF InsertAndCommit
  <2> QED BY <2>1, <2>2
<1>8. ASSUME NEW q \in Requests, Stop(q) PROVE FALSE
  BY <1>1, <1>8 DEF Stop
<1>9. ASSUME NEW q \in Requests, EndBooking(q) \/ ConfirmPaid(q) PROVE FALSE
  BY <1>2, <1>9 DEF EndBooking, ConfirmPaid
<1>10. ASSUME Editing PROVE FALSE
  BY <1>2, <1>10 DEF Editing, ReplaceOperatingHours, MergeOperatingHours, CreateClosedDate,
                     ReplaceStaffSchedule, UpdateStaff, UpdateService, Untouched
<1>11. ASSUME Tick \/ UNCHANGED vars PROVE FALSE
  BY <1>2, <1>11 DEF Tick, vars
<1> QED
  BY <1>3, <1>4, <1>5, <1>6, <1>7, <1>8, <1>9, <1>10, <1>11 DEF Next, Request, Step

-----------------------------------------------------------------------------
(* The theorems.                                                           *)

LEMMA InitIInv == ASSUME Init PROVE IInv
<1>1. now \in 0..MaxNow /\ Tables
  BY Defaults, CreationAssumption DEF Init, Tables, Week
<1>2. Progress
  <2>1. Locks
    BY CreationAssumption DEF Init, Locks
  <2>2. [status |-> "none", expires |-> 0] \in Standing
    BY DEF Standing
  <2> QED BY <2>1, <2>2, Defaults DEF Init, Progress, Steps
<1>3. Booked /\ Reserved /\ Disjoint /\ Room
  BY DEF Init, Booked, Reserved, Disjoint, Room, IsBlocking, Blocking
<1>4. ActiveLimit
  <2>1. \A c : ActiveOf(c) = {}
    BY DEF Init, ActiveOf, IsBlocking, Blocking
  <2>2. Cardinality({}) = 0 /\ MaxActive \in Nat
    BY FS_EmptySet, CreationAssumption
  <2> QED BY <2>1, <2>2 DEF ActiveLimit
<1> QED BY <1>1, <1>2, <1>3, <1>4, TypeParts DEF IInv

THEOREM Invariance == Spec => []IInv
<1>1. Init => IInv
  BY InitIInv
<1>2. IInv /\ [Next]_vars => IInv'
  BY TypePreserved, BookedPreserved, ReservedPreserved, DisjointPreserved, RoomPreserved,
     LimitPreserved DEF IInv
<1> QED BY <1>1, <1>2, PTL DEF Spec

\* The tables, the requests and the locks keep their types; a lock is held by
\* the one request of the customer that is in its transaction.
THEOREM TypeCorrect == Spec => []TypeOK
<1>1. IInv => TypeOK
  BY DEF IInv
<1> QED BY <1>1, Invariance, PTL

\* No staff member is ever booked twice for the same time.
THEOREM NeverDoubleBooked == Spec => []NoDoubleBooking
<1>1. IInv => NoDoubleBooking
  BY DEF IInv, Reserved, Disjoint, NoDoubleBooking, Excludes
<1> QED BY <1>1, Invariance, PTL

\* No customer ever holds more active bookings than the limit.
THEOREM LimitKept == Spec => []ActiveLimit
<1>1. IInv => ActiveLimit
  BY DEF IInv
<1> QED BY <1>1, Invariance, PTL

\* What a request remembers, and the hours and breaks it is checked against.
THEOREM MemoryInvariance == Spec => [](IInv /\ Calendar /\ Fresh)
<1>1. Init => Calendar
  <2>1. IsFiniteSet({})
    BY FS_EmptySet
  <2> SUFFICES ASSUME Init PROVE Calendar
    OBVIOUS
  <2>2. hours \in HoursInputs
    BY DEF Init
  <2>3. \A d \in Dates : \A p \in hours[d] : p.end <= DayLength
    BY <2>2, CreationAssumption
  <2>4. \A s \in Staff, d \in Dates : staff[s].days[d].breaks = {}
    BY DEF Init, Row0, DayOff
  <2> QED BY <2>1, <2>3, <2>4 DEF Calendar
<1>2. Init => Fresh
  BY DEF Init, Fresh, Unread, Underway
<1>3. IInv /\ Calendar /\ Fresh /\ [Next]_vars => Calendar' /\ Fresh'
  BY CalendarPreserved, FreshPreserved DEF IInv
<1> QED BY <1>1, <1>2, <1>3, Invariance, PTL DEF Spec

\* What availability offers is what the schedules leave, for any hours and breaks;
\* neither side of it looks at bookings.
THEOREM OffersCorrect == Spec => []OffersMatchSchedules
<1>1. IInv /\ Calendar => OffersMatchSchedules
  BY OffersExact DEF IInv
<1> QED BY <1>1, MemoryInvariance, PTL

\* A request for a slot that is offered is refused by no schedule check: only by
\* the lead time on a later date, an edit meanwhile, an earlier booking it takes
\* up, the limit of active bookings or the reservation of another booking.
THEOREM OffersAccepted == Spec => OfferedIsAccepted
<1>1. ASSUME IInv, Calendar, Fresh, [Next]_vars
      PROVE  \A r \in Requests :
               /\ \A a \in Asks :
                    /\ Admit(r, a) /\ Offered(a, now) /\ a.start > now
                    /\ Date(a.start) # Today => a.start >= now + Lead
                    => pc'[r] = "admitted"
               /\ /\ pc[r] \in Underway /\ pc'[r] = "answered"
                  /\ seen[r].edits = edits /\ Offered(ask[r], seen[r].at)
                  => TurnedAway(r)
  BY <1>1, OfferedAdmitted, OfferedPasses DEF IInv
<1> QED BY <1>1, MemoryInvariance, PTL DEF Spec, OfferedIsAccepted

\* Without an edit since its first read, a booking lies within the schedules.
THEOREM BookedInside == Spec => BookedWithinSchedule
<1>1. ASSUME IInv, Calendar, Fresh, [Next]_vars
      PROVE  \A r \in Requests :
               booking[r].status = "none" /\ IsBlocking(r)' /\ seen[r].edits = edits
                 => /\ CanWork(ask[r].staff, Date(ask[r].start), SlotAt(ask[r].start))
                    /\ staff[ask[r].staff].active /\ service.active /\ Eligible(ask[r].staff)
  BY <1>1, BookedWithin DEF IInv
<1> QED BY <1>1, MemoryInvariance, PTL DEF Spec, BookedWithinSchedule

=============================================================================
