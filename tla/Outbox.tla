-------------------------------- MODULE Outbox --------------------------------
(***************************************************************************)
(* The transactional outbox and the sweeps that drain it.                  *)
(*                                                                         *)
(* Every change of a queue commits with a row.  A sweep claims rows that   *)
(* are due, publishes for each what the queue looks like by then, and      *)
(* marks the delivered ones at its end.  The timer starts a sweep whether  *)
(* or not the last one has ended, and every API instance has a timer.      *)
(*                                                                         *)
(* The queue is reduced to a version that every change increments.         *)
(***************************************************************************)
EXTENDS Integers, FiniteSets

CONSTANTS
  Rows,         \* the rows that may be enqueued
  NoRow,
  Sweeps,       \* the sweeps that may run at once, of all API instances
  Batch,        \* the rows one sweep may claim
  MaxAttempts,  \* OUTBOX_MAX_ATTEMPTS
  MaxAborts     \* bound: the sweeps that may be cut short

ASSUME OutboxAssumption ==
  /\ IsFiniteSet(Rows) /\ NoRow \notin Rows
  /\ Batch \in Nat \ {0} /\ MaxAttempts \in Nat \ {0} /\ MaxAborts \in Nat

VARIABLES
  version,       \* the changes committed so far
  row,           \* outbox_events
  pc, todo, current, view, delivered,  \* each sweep: step, rows left, row at hand,
                                       \* version it read, rows to acknowledge
  staffSeen,     \* the newest version published to the outlet's room
  customerSeen,  \* the newest version published to the customer's room
  notified,      \* the notifications rows of each outbox row
  aborts

sweep == <<pc, todo, current, view, delivered>>
published == <<staffSeen, customerSeen, notified>>
vars == <<version, row, sweep, published, aborts>>

-----------------------------------------------------------------------------
(* Rows.                                                                   *)

Statuses == {"pending", "processing", "failed", "processed", "dead_letter"}

\* Who is to hear of the change: the staff alone (a reorder, or an anonymous
\* walk-in), the customer too, or the customer with a push.
Audiences == {"staff", "customer", "push"}

NoEvent == [status |-> "none", attempts |-> 0, due |-> FALSE, version |-> 0,
            audience |-> "staff"]

HasStatus(r, S) == row[r].status \in S

\* enqueueQueueEvent, in the transaction of the change.
Enqueue(r, audience) ==
  /\ HasStatus(r, {"none"})
  /\ version' = version + 1
  /\ row' = [row EXCEPT ![r] =
       [status |-> "pending", attempts |-> 0, due |-> TRUE,
        version |-> version + 1, audience |-> audience]]
  /\ UNCHANGED <<sweep, published, aborts>>

\* nextAttemptAt passes.
BackoffElapses(r) ==
  /\ HasStatus(r, {"failed"}) /\ ~row[r].due
  /\ row' = [row EXCEPT ![r].due = TRUE]
  /\ UNCHANGED <<version, sweep, published, aborts>>

-----------------------------------------------------------------------------
(* A sweep.                                                                *)

At(d, step) == pc[d] = step

\* Deviation: a row is never retried.
ClaimableOnce == {"pending"}

\* Deviation: rows of a sweep that died are taken over, without asking if it did.
ClaimableWithProcessing == {"pending", "failed", "processing"}

Claimable == {"pending", "failed"}

\* claimOutboxBatch: oldest first, but a row may be locked by another claim or
\* not yet visible, so any of the due rows.
Claim(d, batch) ==
  /\ At(d, "idle")
  /\ batch # {} /\ Cardinality(batch) <= Batch
  /\ \A r \in batch : HasStatus(r, Claimable) /\ row[r].due
  /\ row' = [r \in Rows |->
       IF r \in batch THEN [row[r] EXCEPT !.status = "processing", !.attempts = @ + 1]
       ELSE row[r]]
  /\ pc' = [pc EXCEPT ![d] = "next"]
  /\ todo' = [todo EXCEPT ![d] = batch]
  /\ UNCHANGED <<version, current, view, delivered, published, aborts>>

\* Deviation: the row is counted as delivered before it is dispatched.
TakeRowEagerly(d, r) ==
  /\ At(d, "next") /\ r \in todo[d]
  /\ pc' = [pc EXCEPT ![d] = "staff"]
  /\ current' = [current EXCEPT ![d] = r]
  /\ todo' = [todo EXCEPT ![d] = @ \ {r}]
  /\ view' = [view EXCEPT ![d] = version]
  /\ delivered' = [delivered EXCEPT ![d] = @ \cup {r}]
  /\ UNCHANGED <<version, row, published, aborts>>

\* The next row, in no order RETURNING promises; dispatch reads the snapshot.
TakeRow(d, r) ==
  /\ At(d, "next") /\ r \in todo[d]
  /\ pc' = [pc EXCEPT ![d] = "staff"]
  /\ current' = [current EXCEPT ![d] = r]
  /\ todo' = [todo EXCEPT ![d] = @ \ {r}]
  /\ view' = [view EXCEPT ![d] = version]
  /\ UNCHANGED <<version, row, delivered, published, aborts>>

\* dispatch returned: the row is among those to acknowledge.
Dispatched(d) ==
  /\ pc' = [pc EXCEPT ![d] = "next"]
  /\ current' = [current EXCEPT ![d] = NoRow]
  /\ delivered' = [delivered EXCEPT ![d] = @ \cup {current[d]}]
  /\ UNCHANGED todo

Newer(seen, v) == IF v > seen THEN v ELSE seen

\* queue.snapshot.updated.v1 to the outlet's room.
PublishSnapshot(d) ==
  /\ At(d, "staff")
  /\ staffSeen' = Newer(staffSeen, view[d])
  /\ IF row[current[d]].audience = "staff" THEN Dispatched(d)
     ELSE /\ pc' = [pc EXCEPT ![d] = "entry"]
          /\ UNCHANGED <<current, delivered, todo>>
  /\ UNCHANGED <<version, row, view, customerSeen, notified, aborts>>

\* The entry, the booking and the customer's view of the queue are read.
ReadView(d) ==
  /\ At(d, "entry")
  /\ pc' = [pc EXCEPT ![d] = "customer"]
  /\ view' = [view EXCEPT ![d] = version]
  /\ UNCHANGED <<version, row, todo, current, delivered, published, aborts>>

\* queue.entry.updated.v1 to the customer's room.
PublishView(d) ==
  /\ At(d, "customer")
  /\ customerSeen' = Newer(customerSeen, view[d])
  /\ IF row[current[d]].audience = "customer" THEN Dispatched(d)
     ELSE /\ pc' = [pc EXCEPT ![d] = "notify"]
          /\ UNCHANGED <<current, delivered, todo>>
  /\ UNCHANGED <<version, row, view, staffSeen, notified, aborts>>

-----------------------------------------------------------------------------
(* The end of a row, and of a sweep.                                       *)

Exhausted(attempts) == attempts >= MaxAttempts

\* markOutboxFailed, from the catch around dispatch.
MarkFailed(d) ==
  /\ row' = [row EXCEPT
       ![current[d]].status = IF Exhausted(row[current[d]].attempts)
                              THEN "dead_letter" ELSE "failed",
       ![current[d]].due = FALSE]
  /\ pc' = [pc EXCEPT ![d] = "next"]
  /\ current' = [current EXCEPT ![d] = NoRow]

\* A read or a publication throws.
FailRow(d) ==
  /\ pc[d] \in {"staff", "entry", "customer"}
  /\ MarkFailed(d)
  /\ UNCHANGED <<version, todo, view, delivered, published, aborts>>

\* Deviation: a failure after the notification was written fails the row.
NotifyOrFail(d) ==
  /\ At(d, "notify")
  /\ notified' = [notified EXCEPT ![current[d]] = @ + 1]
  /\ \/ Dispatched(d) /\ UNCHANGED row
     \/ MarkFailed(d) /\ UNCHANGED <<todo, delivered>>
  /\ UNCHANGED <<version, view, staffSeen, customerSeen, aborts>>

\* notifyQueuePush never throws: the notification is written or lost.
Notify(d) ==
  /\ At(d, "notify")
  /\ \/ notified' = [notified EXCEPT ![current[d]] = @ + 1]
     \/ UNCHANGED notified
  /\ Dispatched(d)
  /\ UNCHANGED <<version, row, view, staffSeen, customerSeen, aborts>>

\* markOutboxProcessed, by id.
Finish(d) ==
  /\ At(d, "next") /\ todo[d] = {}
  /\ row' = [r \in Rows |->
       IF r \in delivered[d] THEN [row[r] EXCEPT !.status = "processed"] ELSE row[r]]
  /\ pc' = [pc EXCEPT ![d] = "idle"]
  /\ delivered' = [delivered EXCEPT ![d] = {}]
  /\ UNCHANGED <<version, todo, current, view, published, aborts>>

\* The process stops, or marking a row throws out of runOnce: rows stay claimed.
Abort(d) ==
  /\ ~At(d, "idle")
  /\ aborts < MaxAborts
  /\ aborts' = aborts + 1
  /\ pc' = [pc EXCEPT ![d] = "idle"]
  /\ todo' = [todo EXCEPT ![d] = {}]
  /\ current' = [current EXCEPT ![d] = NoRow]
  /\ delivered' = [delivered EXCEPT ![d] = {}]
  /\ UNCHANGED <<version, row, view, published>>

-----------------------------------------------------------------------------

Init ==
  /\ version = 0
  /\ row = [r \in Rows |-> NoEvent]
  /\ pc = [d \in Sweeps |-> "idle"]
  /\ todo = [d \in Sweeps |-> {}]
  /\ current = [d \in Sweeps |-> NoRow]
  /\ view = [d \in Sweeps |-> 0]
  /\ delivered = [d \in Sweeps |-> {}]
  /\ staffSeen = 0 /\ customerSeen = 0
  /\ notified = [r \in Rows |-> 0]
  /\ aborts = 0

Begin(d) == \E batch \in SUBSET Rows : Claim(d, batch)

\* What a running sweep does next, unless something throws.
Proceed(d) ==
  \/ \E r \in Rows : TakeRow(d, r)
  \/ PublishSnapshot(d) \/ ReadView(d) \/ PublishView(d) \/ Notify(d)
  \/ Finish(d)

Next ==
  \/ \E r \in Rows : (\E audience \in Audiences : Enqueue(r, audience)) \/ BackoffElapses(r)
  \/ \E d \in Sweeps : Begin(d) \/ Proceed(d) \/ FailRow(d) \/ Abort(d)

Spec == Init /\ [][Next]_vars

\* The timer starts a sweep every two seconds, a sweep that is not cut short runs
\* to its end, and the clock moves.
FairSpec ==
  /\ Spec
  /\ \A d \in Sweeps : WF_vars(Begin(d)) /\ WF_vars(Proceed(d) \/ FailRow(d))
  /\ \A r \in Rows : WF_vars(BackoffElapses(r))

-----------------------------------------------------------------------------
(* Properties.                                                             *)

\* The rows a sweep has in its hands.
Unfinished(d) == todo[d] \cup ({current[d]} \ {NoRow})
Held(d) == Unfinished(d) \cup delivered[d]

\* The variables have their types, and no row is tried more often than the limit
\* of markOutboxFailed allows.
TypeOK ==
  /\ version \in Nat
  /\ row \in [Rows -> [status: Statuses \cup {"none"}, attempts: 0..MaxAttempts,
                       due: BOOLEAN, version: Nat, audience: Audiences]]
  /\ pc \in [Sweeps -> {"idle", "next", "staff", "entry", "customer", "notify"}]
  /\ todo \in [Sweeps -> SUBSET Rows] /\ delivered \in [Sweeps -> SUBSET Rows]
  /\ current \in [Sweeps -> Rows \cup {NoRow}]
  /\ view \in [Sweeps -> Nat]
  /\ staffSeen \in Nat /\ customerSeen \in Nat
  /\ notified \in [Rows -> Nat]
  /\ aborts \in 0..MaxAborts

\* A row is in the hands of one sweep at most, and is then "processing": what
\* lets runOnce mark rows by id, without looking at their status.
SingleOwner ==
  \A d \in Sweeps, r \in Rows :
    r \in Held(d) =>
      /\ HasStatus(r, {"processing"})
      /\ \A e \in Sweeps \ {d} : r \notin Held(e)

\* A row is marked processed only after a snapshot at least as new as its change
\* was published to the staff and, if it concerns a customer, a view as new to
\* him: no change is acknowledged and not told.
ProcessedWasTold ==
  \A r \in Rows :
    HasStatus(r, {"processed"}) =>
      /\ staffSeen >= row[r].version
      /\ row[r].audience # "staff" => customerSeen >= row[r].version

\* However often a row is retried, its notification is written once at most
\* (the comment of notifyQueuePush: it "can't duplicate the notification").
NotifiedOnce == \A r \in Rows : notified[r] <= 1

\* A processed or dead row stays as it is, whichever sweeps are still running.
SettledRowsStay ==
  [][\A r \in Rows : HasStatus(r, {"processed", "dead_letter"}) => row'[r] = row[r]]_vars

\* Claimed by a sweep that was cut short.
Abandoned(r) == HasStatus(r, {"processing"}) /\ \A d \in Sweeps : r \notin Held(d)

\* Every row is processed in the end or given up after its attempts, unless the
\* sweep that had claimed it was cut short.
RowsSettle ==
  \A r \in Rows :
    HasStatus(r, {"pending"}) ~>
      (HasStatus(r, {"processed", "dead_letter"}) \/ Abandoned(r))

=============================================================================
