---------------------------- MODULE OutboxProofs ----------------------------
(***************************************************************************)
(* Theorems about Outbox, for any number of rows, sweeps and attempts.     *)
(***************************************************************************)
EXTENDS Outbox, TLAPS

\* A row at hand is in none of the sweep's sets, which have nothing in common.
Control ==
  \A d \in Sweeps :
    /\ pc[d] = "idle" => todo[d] = {} /\ delivered[d] = {}
    /\ pc[d] \in {"idle", "next"} <=> current[d] = NoRow
    /\ todo[d] \cap delivered[d] = {}
    /\ current[d] \notin todo[d] \cup delivered[d]

\* What a change was told to whom it concerns.
Told(r) ==
  /\ staffSeen >= row[r].version
  /\ row[r].audience # "staff" => customerSeen >= row[r].version

\* A row that may be claimed has an attempt left.
AttemptsLeft ==
  \A r \in Rows :
    HasStatus(r, {"pending", "failed"}) => row[r].attempts < MaxAttempts

\* No row is ahead of the queue, and what a sweep publishes of a row at hand is
\* at least as new as the change the row stands for.
ViewIsNew ==
  /\ \A r \in Rows : row[r].version <= version
  /\ \A d \in Sweeps :
       LET r == current[d] IN
       /\ pc[d] \in {"staff", "customer"} => view[d] >= row[r].version
       /\ pc[d] \in {"entry", "customer", "notify"} =>
            staffSeen >= row[r].version /\ row[r].audience # "staff"
       /\ pc[d] = "notify" => customerSeen >= row[r].version

DeliveredWasTold == \A d \in Sweeps : \A r \in delivered[d] : Told(r)

\* A row with a notification is past its dispatch: no sweep will dispatch it again.
NotifiedIsPast ==
  \A r \in Rows :
    notified[r] > 0 =>
      /\ notified[r] = 1
      /\ HasStatus(r, {"processing", "processed"})
      /\ \A d \in Sweeps : r \notin Unfinished(d)

\* The inductive invariant.
IInv ==
  /\ TypeOK /\ Control /\ SingleOwner /\ AttemptsLeft
  /\ ViewIsNew /\ DeliveredWasTold /\ ProcessedWasTold /\ NotifiedIsPast

LEMMA InitIInv == Init => IInv
BY OutboxAssumption
   DEF Init, IInv, TypeOK, Control, SingleOwner, AttemptsLeft, ViewIsNew,
       DeliveredWasTold, ProcessedWasTold, NotifiedIsPast, HasStatus, NoEvent,
       Statuses, Audiences, Unfinished, Held, Told

USE DEF At, HasStatus, Statuses, Audiences, sweep, published

-----------------------------------------------------------------------------
(* Rows written.                                                           *)

Event == [status: Statuses \cup {"none"}, attempts: 0..MaxAttempts,
          due: BOOLEAN, version: Nat, audience: Audiences]

\* A claim, by what it leaves in the fields of the rows.
Claimed(d, batch) ==
  /\ pc[d] = "idle"
  /\ \A r \in batch : row[r].status \in {"pending", "failed"}
  /\ \A r \in Rows :
       /\ row'[r].status = IF r \in batch THEN "processing" ELSE row[r].status
       /\ row'[r].version = row[r].version
       /\ row'[r].audience = row[r].audience
       /\ r \notin batch => row'[r] = row[r]
  /\ pc' = [pc EXCEPT ![d] = "next"]
  /\ todo' = [todo EXCEPT ![d] = batch]
  /\ UNCHANGED <<version, current, view, delivered, published, aborts>>

LEMMA ClaimedRows ==
  ASSUME TypeOK, AttemptsLeft, NEW d \in Sweeps, NEW batch \in SUBSET Rows,
         Claim(d, batch)
  PROVE  Claimed(d, batch) /\ row' \in [Rows -> Event]
<1> DEFINE claimed(r) == [row[r] EXCEPT !.status = "processing", !.attempts = @ + 1]
<1>1. row' = [r \in Rows |-> IF r \in batch THEN claimed(r) ELSE row[r]]
  BY DEF Claim
<1>2. ASSUME NEW r \in batch
      PROVE  /\ claimed(r).status = "processing"
             /\ claimed(r).version = row[r].version
             /\ claimed(r).audience = row[r].audience
             /\ claimed(r) \in Event
             /\ row[r].status \in {"pending", "failed"}
  <2>1. row[r] \in Event
    BY DEF TypeOK, Event
  <2>2. row[r].status \in {"pending", "failed"}
    BY DEF Claim, Claimable
  <2>3. row[r].attempts + 1 \in 0..MaxAttempts
    BY <2>1, <2>2, OutboxAssumption DEF Event, AttemptsLeft
  <2> QED
    BY <2>1, <2>2, <2>3 DEF Event
<1> HIDE DEF claimed
<1>3. row' \in [Rows -> Event]
  BY <1>1, <1>2 DEF TypeOK, Event
<1>4. \A r \in Rows : r \in batch => row'[r] = claimed(r)
  BY <1>1
<1>5. \A r \in Rows : r \notin batch => row'[r] = row[r]
  BY <1>1
<1>6. \A r \in Rows :
        /\ row'[r].status = IF r \in batch THEN "processing" ELSE row[r].status
        /\ row'[r].version = row[r].version
        /\ row'[r].audience = row[r].audience
        /\ r \notin batch => row'[r] = row[r]
  BY <1>2, <1>4, <1>5
<1>7. \A r \in batch : row[r].status \in {"pending", "failed"}
  BY <1>2
<1>8. /\ pc[d] = "idle"
      /\ pc' = [pc EXCEPT ![d] = "next"]
      /\ todo' = [todo EXCEPT ![d] = batch]
      /\ UNCHANGED <<version, current, view, delivered, published, aborts>>
  BY DEF Claim
<1>9. Claimed(d, batch)
  BY <1>6, <1>7, <1>8 DEF Claimed
<1> QED
  BY <1>3, <1>9

LEMMA FailedRow ==
  ASSUME TypeOK, Control, AttemptsLeft, NEW d \in Sweeps, FailRow(d)
  PROVE  row' \in [Rows -> Event]
<1>1. current[d] \in Rows
  BY DEF FailRow, Control, TypeOK
<1>2. row[current[d]] \in Event
  BY <1>1 DEF TypeOK, Event
<1> DEFINE status == IF Exhausted(row[current[d]].attempts) THEN "dead_letter" ELSE "failed"
<1>3. [row[current[d]] EXCEPT !.status = status, !.due = FALSE] \in Event
  BY <1>2 DEF Event
<1>4. row' = [row EXCEPT ![current[d]] =
                [row[current[d]] EXCEPT !.status = status, !.due = FALSE]]
  BY <1>1 DEF FailRow, MarkFailed, TypeOK
<1> QED
  BY <1>3, <1>4 DEF TypeOK, Event

-----------------------------------------------------------------------------
(* The conjuncts of the invariant.                                         *)

\* Types.
LEMMA TypePreserved == ASSUME IInv, [Next]_vars PROVE TypeOK'
<1>0. TypeOK /\ Control /\ AttemptsLeft
  BY DEF IInv
<1> USE <1>0, OutboxAssumption DEF TypeOK, Control, AttemptsLeft
<1>1. ASSUME NEW r \in Rows, NEW audience \in Audiences, Enqueue(r, audience) PROVE TypeOK'
  BY <1>1 DEF Enqueue
<1>2. ASSUME NEW r \in Rows, BackoffElapses(r) PROVE TypeOK'
  <2>0. row[r] \in Event
    BY DEF Event
  <2>1. [row[r] EXCEPT !.due = TRUE] \in Event
    BY <2>0 DEF Event
  <2>2. row' \in [Rows -> Event]
    BY <1>2, <2>1 DEF BackoffElapses, Event
  <2> QED
    BY <1>2, <2>2 DEF BackoffElapses, Event
<1>3. ASSUME NEW d \in Sweeps, NEW batch \in SUBSET Rows, Claim(d, batch) PROVE TypeOK'
  <2>1. row' \in [Rows -> Event]
    BY <1>3, ClaimedRows
  <2> QED
    BY <1>3, <2>1 DEF Claim, Event
<1>4. ASSUME NEW d \in Sweeps, NEW r \in Rows, TakeRow(d, r) PROVE TypeOK'
  BY <1>4 DEF TakeRow
<1>5. ASSUME NEW d \in Sweeps, PublishSnapshot(d) PROVE TypeOK'
  BY <1>5 DEF PublishSnapshot, Dispatched, Newer
<1>6. ASSUME NEW d \in Sweeps, ReadView(d) PROVE TypeOK'
  BY <1>6 DEF ReadView
<1>7. ASSUME NEW d \in Sweeps, PublishView(d) PROVE TypeOK'
  BY <1>7 DEF PublishView, Dispatched, Newer
<1>8. ASSUME NEW d \in Sweeps, Notify(d) PROVE TypeOK'
  <2>1. current[d] \in Rows
    BY <1>8 DEF Notify
  <2>2. notified' \in [Rows -> Nat]
    BY <1>8, <2>1 DEF Notify
  <2> QED
    BY <1>8, <2>1, <2>2 DEF Notify, Dispatched
<1>9. ASSUME NEW d \in Sweeps, FailRow(d) PROVE TypeOK'
  <2>1. row' \in [Rows -> Event]
    BY <1>9, FailedRow
  <2> QED
    BY <1>9, <2>1 DEF FailRow, MarkFailed, Event
<1>10. ASSUME NEW d \in Sweeps, Finish(d) PROVE TypeOK'
  BY <1>10 DEF Finish
<1>11. ASSUME NEW d \in Sweeps, Abort(d) PROVE TypeOK'
  BY <1>11 DEF Abort
<1>12. CASE UNCHANGED vars
  BY <1>12 DEF vars
<1> HIDE DEF TypeOK, Control, AttemptsLeft
<1> QED
  BY <1>1, <1>2, <1>3, <1>4, <1>5, <1>6, <1>7, <1>8, <1>9, <1>10, <1>11, <1>12 DEF Next, Begin, Proceed

\* The sets of a sweep.
LEMMA ControlPreserved == ASSUME IInv, [Next]_vars PROVE Control'
<1>0. TypeOK /\ Control /\ SingleOwner /\ AttemptsLeft
  BY DEF IInv
<1> USE <1>0, OutboxAssumption DEF TypeOK, Control, SingleOwner, Held, Unfinished
<1>1. ASSUME NEW r \in Rows, NEW audience \in Audiences, Enqueue(r, audience) PROVE Control'
  BY <1>1 DEF Enqueue
<1>2. ASSUME NEW r \in Rows, BackoffElapses(r) PROVE Control'
  BY <1>2 DEF BackoffElapses
<1>3. ASSUME NEW d \in Sweeps, NEW batch \in SUBSET Rows, Claim(d, batch) PROVE Control'
  <2>1. Claimed(d, batch)
    BY <1>3, ClaimedRows
  <2> QED
    BY <2>1 DEF Claimed
<1>4. ASSUME NEW d \in Sweeps, NEW r \in Rows, TakeRow(d, r) PROVE Control'
  BY <1>4 DEF TakeRow
<1>5. ASSUME NEW d \in Sweeps, PublishSnapshot(d) PROVE Control'
  BY <1>5 DEF PublishSnapshot, Dispatched, Newer
<1>6. ASSUME NEW d \in Sweeps, ReadView(d) PROVE Control'
  BY <1>6 DEF ReadView
<1>7. ASSUME NEW d \in Sweeps, PublishView(d) PROVE Control'
  BY <1>7 DEF PublishView, Dispatched, Newer
<1>8. ASSUME NEW d \in Sweeps, Notify(d) PROVE Control'
  BY <1>8 DEF Notify, Dispatched
<1>9. ASSUME NEW d \in Sweeps, FailRow(d) PROVE Control'
  BY <1>9 DEF FailRow, MarkFailed, Exhausted
<1>10. ASSUME NEW d \in Sweeps, Finish(d) PROVE Control'
  BY <1>10 DEF Finish
<1>11. ASSUME NEW d \in Sweeps, Abort(d) PROVE Control'
  BY <1>11 DEF Abort
<1>12. CASE UNCHANGED vars
  BY <1>12 DEF vars
<1> HIDE DEF TypeOK, Control, SingleOwner, Held, Unfinished
<1> QED
  BY <1>1, <1>2, <1>3, <1>4, <1>5, <1>6, <1>7, <1>8, <1>9, <1>10, <1>11, <1>12 DEF Next, Begin, Proceed

\* A claim takes only rows nobody holds.
LEMMA OwnerPreserved == ASSUME IInv, [Next]_vars PROVE SingleOwner'
<1>0. TypeOK /\ Control /\ SingleOwner /\ AttemptsLeft
  BY DEF IInv
<1> USE <1>0, OutboxAssumption DEF TypeOK, Control, SingleOwner, Held, Unfinished
<1>1. ASSUME NEW r \in Rows, NEW audience \in Audiences, Enqueue(r, audience) PROVE SingleOwner'
  BY <1>1 DEF Enqueue
<1>2. ASSUME NEW r \in Rows, BackoffElapses(r) PROVE SingleOwner'
  BY <1>2 DEF BackoffElapses
<1>3. ASSUME NEW d \in Sweeps, NEW batch \in SUBSET Rows, Claim(d, batch) PROVE SingleOwner'
  <2>1. Claimed(d, batch)
    BY <1>3, ClaimedRows
  <2> QED
    BY <2>1 DEF Claimed
<1>4. ASSUME NEW d \in Sweeps, NEW r \in Rows, TakeRow(d, r) PROVE SingleOwner'
  BY <1>4 DEF TakeRow
<1>5. ASSUME NEW d \in Sweeps, PublishSnapshot(d) PROVE SingleOwner'
  BY <1>5 DEF PublishSnapshot, Dispatched, Newer
<1>6. ASSUME NEW d \in Sweeps, ReadView(d) PROVE SingleOwner'
  BY <1>6 DEF ReadView
<1>7. ASSUME NEW d \in Sweeps, PublishView(d) PROVE SingleOwner'
  BY <1>7 DEF PublishView, Dispatched, Newer
<1>8. ASSUME NEW d \in Sweeps, Notify(d) PROVE SingleOwner'
  BY <1>8 DEF Notify, Dispatched
<1>9. ASSUME NEW d \in Sweeps, FailRow(d) PROVE SingleOwner'
  BY <1>9 DEF FailRow, MarkFailed, Exhausted
<1>10. ASSUME NEW d \in Sweeps, Finish(d) PROVE SingleOwner'
  BY <1>10 DEF Finish
<1>11. ASSUME NEW d \in Sweeps, Abort(d) PROVE SingleOwner'
  BY <1>11 DEF Abort
<1>12. CASE UNCHANGED vars
  BY <1>12 DEF vars
<1> HIDE DEF TypeOK, Control, SingleOwner, Held, Unfinished
<1> QED
  BY <1>1, <1>2, <1>3, <1>4, <1>5, <1>6, <1>7, <1>8, <1>9, <1>10, <1>11, <1>12 DEF Next, Begin, Proceed

\* A failed row that is not dead has an attempt left.
LEMMA AttemptsPreserved == ASSUME IInv, [Next]_vars PROVE AttemptsLeft'
<1>0. TypeOK /\ Control /\ AttemptsLeft
  BY DEF IInv
<1> USE <1>0, OutboxAssumption DEF TypeOK, Control, AttemptsLeft
<1>1. ASSUME NEW r \in Rows, NEW audience \in Audiences, Enqueue(r, audience) PROVE AttemptsLeft'
  BY <1>1 DEF Enqueue
<1>2. ASSUME NEW r \in Rows, BackoffElapses(r) PROVE AttemptsLeft'
  BY <1>2 DEF BackoffElapses
<1>3. ASSUME NEW d \in Sweeps, NEW batch \in SUBSET Rows, Claim(d, batch) PROVE AttemptsLeft'
  <2>1. Claimed(d, batch)
    BY <1>3, ClaimedRows
  <2> QED
    BY <2>1 DEF Claimed
<1>4. ASSUME NEW d \in Sweeps, NEW r \in Rows, TakeRow(d, r) PROVE AttemptsLeft'
  BY <1>4 DEF TakeRow
<1>5. ASSUME NEW d \in Sweeps, PublishSnapshot(d) PROVE AttemptsLeft'
  BY <1>5 DEF PublishSnapshot, Dispatched, Newer
<1>6. ASSUME NEW d \in Sweeps, ReadView(d) PROVE AttemptsLeft'
  BY <1>6 DEF ReadView
<1>7. ASSUME NEW d \in Sweeps, PublishView(d) PROVE AttemptsLeft'
  BY <1>7 DEF PublishView, Dispatched, Newer
<1>8. ASSUME NEW d \in Sweeps, Notify(d) PROVE AttemptsLeft'
  BY <1>8 DEF Notify, Dispatched
<1>9. ASSUME NEW d \in Sweeps, FailRow(d) PROVE AttemptsLeft'
  BY <1>9 DEF FailRow, MarkFailed, Exhausted
<1>10. ASSUME NEW d \in Sweeps, Finish(d) PROVE AttemptsLeft'
  BY <1>10 DEF Finish
<1>11. ASSUME NEW d \in Sweeps, Abort(d) PROVE AttemptsLeft'
  BY <1>11 DEF Abort
<1>12. CASE UNCHANGED vars
  BY <1>12 DEF vars
<1> HIDE DEF TypeOK, Control, AttemptsLeft
<1> QED
  BY <1>1, <1>2, <1>3, <1>4, <1>5, <1>6, <1>7, <1>8, <1>9, <1>10, <1>11, <1>12 DEF Next, Begin, Proceed

\* Reading after the claim is reading after the change.
LEMMA ViewPreserved == ASSUME IInv, [Next]_vars PROVE ViewIsNew'
<1>0. TypeOK /\ Control /\ ViewIsNew /\ SingleOwner /\ AttemptsLeft
  BY DEF IInv
<1> USE <1>0, OutboxAssumption DEF TypeOK, Control, ViewIsNew, SingleOwner, Held, Unfinished
<1>1. ASSUME NEW r \in Rows, NEW audience \in Audiences, Enqueue(r, audience) PROVE ViewIsNew'
  BY <1>1 DEF Enqueue
<1>2. ASSUME NEW r \in Rows, BackoffElapses(r) PROVE ViewIsNew'
  BY <1>2 DEF BackoffElapses
<1>3. ASSUME NEW d \in Sweeps, NEW batch \in SUBSET Rows, Claim(d, batch) PROVE ViewIsNew'
  <2>1. Claimed(d, batch)
    BY <1>3, ClaimedRows
  <2> QED
    BY <2>1 DEF Claimed
<1>4. ASSUME NEW d \in Sweeps, NEW r \in Rows, TakeRow(d, r) PROVE ViewIsNew'
  BY <1>4 DEF TakeRow
<1>5. ASSUME NEW d \in Sweeps, PublishSnapshot(d) PROVE ViewIsNew'
  BY <1>5 DEF PublishSnapshot, Dispatched, Newer
<1>6. ASSUME NEW d \in Sweeps, ReadView(d) PROVE ViewIsNew'
  BY <1>6 DEF ReadView
<1>7. ASSUME NEW d \in Sweeps, PublishView(d) PROVE ViewIsNew'
  BY <1>7 DEF PublishView, Dispatched, Newer
<1>8. ASSUME NEW d \in Sweeps, Notify(d) PROVE ViewIsNew'
  BY <1>8 DEF Notify, Dispatched
<1>9. ASSUME NEW d \in Sweeps, FailRow(d) PROVE ViewIsNew'
  BY <1>9 DEF FailRow, MarkFailed, Exhausted
<1>10. ASSUME NEW d \in Sweeps, Finish(d) PROVE ViewIsNew'
  BY <1>10 DEF Finish
<1>11. ASSUME NEW d \in Sweeps, Abort(d) PROVE ViewIsNew'
  BY <1>11 DEF Abort
<1>12. CASE UNCHANGED vars
  BY <1>12 DEF vars
<1> HIDE DEF TypeOK, Control, ViewIsNew, SingleOwner, Held, Unfinished
<1> QED
  BY <1>1, <1>2, <1>3, <1>4, <1>5, <1>6, <1>7, <1>8, <1>9, <1>10, <1>11, <1>12 DEF Next, Begin, Proceed

\* A row is delivered once it is told.
LEMMA DeliveredPreserved == ASSUME IInv, [Next]_vars PROVE DeliveredWasTold'
<1>0. TypeOK /\ Control /\ ViewIsNew /\ SingleOwner /\ DeliveredWasTold /\ AttemptsLeft
  BY DEF IInv
<1> USE <1>0, OutboxAssumption DEF TypeOK, Control, ViewIsNew, SingleOwner, Held, Unfinished, DeliveredWasTold, Told
<1>1. ASSUME NEW r \in Rows, NEW audience \in Audiences, Enqueue(r, audience) PROVE DeliveredWasTold'
  BY <1>1 DEF Enqueue
<1>2. ASSUME NEW r \in Rows, BackoffElapses(r) PROVE DeliveredWasTold'
  BY <1>2 DEF BackoffElapses
<1>3. ASSUME NEW d \in Sweeps, NEW batch \in SUBSET Rows, Claim(d, batch) PROVE DeliveredWasTold'
  <2>1. Claimed(d, batch)
    BY <1>3, ClaimedRows
  <2> QED
    BY <2>1 DEF Claimed
<1>4. ASSUME NEW d \in Sweeps, NEW r \in Rows, TakeRow(d, r) PROVE DeliveredWasTold'
  BY <1>4 DEF TakeRow
<1>5. ASSUME NEW d \in Sweeps, PublishSnapshot(d) PROVE DeliveredWasTold'
  BY <1>5 DEF PublishSnapshot, Dispatched, Newer
<1>6. ASSUME NEW d \in Sweeps, ReadView(d) PROVE DeliveredWasTold'
  BY <1>6 DEF ReadView
<1>7. ASSUME NEW d \in Sweeps, PublishView(d) PROVE DeliveredWasTold'
  BY <1>7 DEF PublishView, Dispatched, Newer
<1>8. ASSUME NEW d \in Sweeps, Notify(d) PROVE DeliveredWasTold'
  BY <1>8 DEF Notify, Dispatched
<1>9. ASSUME NEW d \in Sweeps, FailRow(d) PROVE DeliveredWasTold'
  BY <1>9 DEF FailRow, MarkFailed, Exhausted
<1>10. ASSUME NEW d \in Sweeps, Finish(d) PROVE DeliveredWasTold'
  BY <1>10 DEF Finish
<1>11. ASSUME NEW d \in Sweeps, Abort(d) PROVE DeliveredWasTold'
  BY <1>11 DEF Abort
<1>12. CASE UNCHANGED vars
  BY <1>12 DEF vars
<1> HIDE DEF TypeOK, Control, ViewIsNew, SingleOwner, Held, Unfinished, DeliveredWasTold, Told
<1> QED
  BY <1>1, <1>2, <1>3, <1>4, <1>5, <1>6, <1>7, <1>8, <1>9, <1>10, <1>11, <1>12 DEF Next, Begin, Proceed

\* A row is processed once it is delivered.
LEMMA ProcessedPreserved == ASSUME IInv, [Next]_vars PROVE ProcessedWasTold'
<1>0. TypeOK /\ Control /\ SingleOwner /\ DeliveredWasTold /\ ProcessedWasTold /\ AttemptsLeft
  BY DEF IInv
<1> USE <1>0, OutboxAssumption DEF TypeOK, Control, SingleOwner, Held, Unfinished, DeliveredWasTold, Told, ProcessedWasTold
<1>1. ASSUME NEW r \in Rows, NEW audience \in Audiences, Enqueue(r, audience) PROVE ProcessedWasTold'
  BY <1>1 DEF Enqueue
<1>2. ASSUME NEW r \in Rows, BackoffElapses(r) PROVE ProcessedWasTold'
  BY <1>2 DEF BackoffElapses
<1>3. ASSUME NEW d \in Sweeps, NEW batch \in SUBSET Rows, Claim(d, batch) PROVE ProcessedWasTold'
  <2>1. Claimed(d, batch)
    BY <1>3, ClaimedRows
  <2> QED
    BY <2>1 DEF Claimed
<1>4. ASSUME NEW d \in Sweeps, NEW r \in Rows, TakeRow(d, r) PROVE ProcessedWasTold'
  BY <1>4 DEF TakeRow
<1>5. ASSUME NEW d \in Sweeps, PublishSnapshot(d) PROVE ProcessedWasTold'
  BY <1>5 DEF PublishSnapshot, Dispatched, Newer
<1>6. ASSUME NEW d \in Sweeps, ReadView(d) PROVE ProcessedWasTold'
  BY <1>6 DEF ReadView
<1>7. ASSUME NEW d \in Sweeps, PublishView(d) PROVE ProcessedWasTold'
  BY <1>7 DEF PublishView, Dispatched, Newer
<1>8. ASSUME NEW d \in Sweeps, Notify(d) PROVE ProcessedWasTold'
  BY <1>8 DEF Notify, Dispatched
<1>9. ASSUME NEW d \in Sweeps, FailRow(d) PROVE ProcessedWasTold'
  BY <1>9 DEF FailRow, MarkFailed, Exhausted
<1>10. ASSUME NEW d \in Sweeps, Finish(d) PROVE ProcessedWasTold'
  BY <1>10 DEF Finish
<1>11. ASSUME NEW d \in Sweeps, Abort(d) PROVE ProcessedWasTold'
  BY <1>11 DEF Abort
<1>12. CASE UNCHANGED vars
  BY <1>12 DEF vars
<1> HIDE DEF TypeOK, Control, SingleOwner, Held, Unfinished, DeliveredWasTold, Told, ProcessedWasTold
<1> QED
  BY <1>1, <1>2, <1>3, <1>4, <1>5, <1>6, <1>7, <1>8, <1>9, <1>10, <1>11, <1>12 DEF Next, Begin, Proceed

\* Notifying is the last thing done for a row.
LEMMA NotifiedPreserved == ASSUME IInv, [Next]_vars PROVE NotifiedIsPast'
<1>0. TypeOK /\ Control /\ SingleOwner /\ NotifiedIsPast /\ AttemptsLeft
  BY DEF IInv
<1> USE <1>0, OutboxAssumption DEF TypeOK, Control, SingleOwner, Held, Unfinished, NotifiedIsPast
<1>1. ASSUME NEW r \in Rows, NEW audience \in Audiences, Enqueue(r, audience) PROVE NotifiedIsPast'
  BY <1>1 DEF Enqueue
<1>2. ASSUME NEW r \in Rows, BackoffElapses(r) PROVE NotifiedIsPast'
  BY <1>2 DEF BackoffElapses
<1>3. ASSUME NEW d \in Sweeps, NEW batch \in SUBSET Rows, Claim(d, batch) PROVE NotifiedIsPast'
  <2>1. Claimed(d, batch)
    BY <1>3, ClaimedRows
  <2> QED
    BY <2>1 DEF Claimed
<1>4. ASSUME NEW d \in Sweeps, NEW r \in Rows, TakeRow(d, r) PROVE NotifiedIsPast'
  BY <1>4 DEF TakeRow
<1>5. ASSUME NEW d \in Sweeps, PublishSnapshot(d) PROVE NotifiedIsPast'
  BY <1>5 DEF PublishSnapshot, Dispatched, Newer
<1>6. ASSUME NEW d \in Sweeps, ReadView(d) PROVE NotifiedIsPast'
  BY <1>6 DEF ReadView
<1>7. ASSUME NEW d \in Sweeps, PublishView(d) PROVE NotifiedIsPast'
  BY <1>7 DEF PublishView, Dispatched, Newer
<1>8. ASSUME NEW d \in Sweeps, Notify(d) PROVE NotifiedIsPast'
  BY <1>8 DEF Notify, Dispatched
<1>9. ASSUME NEW d \in Sweeps, FailRow(d) PROVE NotifiedIsPast'
  BY <1>9 DEF FailRow, MarkFailed, Exhausted
<1>10. ASSUME NEW d \in Sweeps, Finish(d) PROVE NotifiedIsPast'
  BY <1>10 DEF Finish
<1>11. ASSUME NEW d \in Sweeps, Abort(d) PROVE NotifiedIsPast'
  BY <1>11 DEF Abort
<1>12. CASE UNCHANGED vars
  BY <1>12 DEF vars
<1> HIDE DEF TypeOK, Control, SingleOwner, Held, Unfinished, NotifiedIsPast
<1> QED
  BY <1>1, <1>2, <1>3, <1>4, <1>5, <1>6, <1>7, <1>8, <1>9, <1>10, <1>11, <1>12 DEF Next, Begin, Proceed

-----------------------------------------------------------------------------
(* The theorems.                                                           *)

LEMMA NextIInv == IInv /\ [Next]_vars => IInv'
BY TypePreserved, ControlPreserved, OwnerPreserved, AttemptsPreserved, ViewPreserved,
   DeliveredPreserved, ProcessedPreserved, NotifiedPreserved DEF IInv

LEMMA Invariance == Spec => []IInv
<1>1. Init => IInv
  BY InitIInv
<1>2. IInv /\ [Next]_vars => IInv'
  BY NextIInv
<1> QED
  BY <1>1, <1>2, PTL DEF Spec

\* The variables of the rows and the sweeps keep their types; in particular no row
\* is claimed more often than OUTBOX_MAX_ATTEMPTS.
THEOREM TypeCorrect == Spec => []TypeOK
<1>1. IInv => TypeOK
  BY DEF IInv
<1> QED
  BY <1>1, Invariance, PTL

\* However many sweeps overlap, claimOutboxBatch never gives a row to two of them.
THEOREM RowsHaveOneOwner == Spec => []SingleOwner
<1>1. IInv => SingleOwner
  BY DEF IInv
<1> QED
  BY <1>1, Invariance, PTL

\* markOutboxProcessed acknowledges no change that was not told, whatever failed,
\* overtook or was cut short before.
THEOREM ProcessedRowsWereTold == Spec => []ProcessedWasTold
<1>1. IInv => ProcessedWasTold
  BY DEF IInv
<1> QED
  BY <1>1, Invariance, PTL

\* The retries of a row never write its notification twice.
THEOREM NotificationsOnce == Spec => []NotifiedOnce
<1>1. IInv => NotifiedOnce
  BY DEF IInv, TypeOK, NotifiedIsPast, NotifiedOnce
<1> QED
  BY <1>1, Invariance, PTL

\* No sweep still running touches a row that is processed or dead.
THEOREM SettledRows == Spec => SettledRowsStay
<1> DEFINE Settled(r) == HasStatus(r, {"processed", "dead_letter"})
<1>1. ASSUME IInv, [Next]_vars, NEW r \in Rows, Settled(r) PROVE row'[r] = row[r]
  <2>0. TypeOK /\ Control /\ \A d \in Sweeps : r \notin Held(d)
    BY <1>1 DEF IInv, SingleOwner
  <2>1. CASE \E q \in Rows, audience \in Audiences : Enqueue(q, audience)
    BY <1>1, <2>0, <2>1 DEF Enqueue, TypeOK
  <2>2. CASE \E q \in Rows : BackoffElapses(q)
    BY <1>1, <2>0, <2>2 DEF BackoffElapses, TypeOK
  <2>3. ASSUME NEW d \in Sweeps, NEW batch \in SUBSET Rows, Claim(d, batch)
        PROVE  row'[r] = row[r]
    BY <1>1, <2>3 DEF Claim, Claimable
  <2>4. ASSUME NEW d \in Sweeps, Proceed(d), ~Finish(d) PROVE row' = row
    BY <2>4 DEF Proceed, TakeRow, PublishSnapshot, ReadView, PublishView, Notify
  <2>5. ASSUME NEW d \in Sweeps, Finish(d) PROVE row'[r] = row[r]
    BY <2>0, <2>5 DEF Finish, Held
  <2>6. ASSUME NEW d \in Sweeps, FailRow(d) PROVE row'[r] = row[r]
    <3>1. current[d] # r
      BY <1>1, <2>0, OutboxAssumption DEF Held, Unfinished, TypeOK
    <3> QED
      BY <2>0, <2>6, <3>1 DEF FailRow, MarkFailed, TypeOK
  <2>7. ASSUME NEW d \in Sweeps, Abort(d) PROVE row' = row
    BY <2>7 DEF Abort
  <2>8. CASE UNCHANGED vars
    BY <2>8 DEF vars
  <2> QED
    BY <1>1, <2>1, <2>2, <2>3, <2>4, <2>5, <2>6, <2>7, <2>8 DEF Next, Begin
<1>2. IInv /\ [Next]_vars => [\A r \in Rows : Settled(r) => row'[r] = row[r]]_vars
  BY <1>1
<1> QED
  BY <1>2, Invariance, PTL DEF SettledRowsStay, Spec

=============================================================================
