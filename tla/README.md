# Antrein in TLA+

Antrein is a booking and queue service for barbershops: a NestJS API over
PostgreSQL (`src/apps/api`) and a Flutter client (`src/apps/mobile`). A customer
books a staff member's slot, pays online or at the shop, checks in, and waits in
the queue of the outlet; the staff call, serve, skip and reorder. The API is one
or more Node processes; everything that matters is in the database, and races are
settled by row locks, guarded updates, version columns and unique indexes. This
directory models those races.

## 1. The system

| Component | State | Operations | Hard part | What makes it correct |
|---|---|---|---|---|
| Status machines (`bookings/domain`, `queue/domain`) | none | transition tables | used as a check before a transaction | one table, followed by every write |
| Booking creation and cancellation (`bookings.service.ts`) | bookings, reservations, history | create, resume, customer and business cancel | checks read one after the other before the transaction; a count before an insert; provider call between two transactions; guarded cancel | no staff member is booked twice; the active limit holds; a blocking booking has its slot, and only it; a cancellation gives back what is due |
| Provider events (`payment-transition.service.ts`, `webhooks.controller.ts`, the reconciliation and expiration jobs) | payments, payment_events | webhook, poll, expiry | duplicated, late, reordered events; expiry racing a success | booking and payment agree; no success is swallowed |
| Refunds (`refunds.service.ts`) | refunds, payments.status | request, cancellation refund, late refund, settlement, reconciliation | two transactions around a provider call; status read before the lock | one at a time, never more than was paid; all settle |
| Pay at location (`payments.service.ts`) | payments, audit_logs | confirmPayAtLocation | remainder computed before the transaction and inserted unguarded | the audit log accounts for the receipts; the price is collected once unless confirmations race |
| Queue (`bookings/queue`) | queue_entries, queue_counters, bookings | check-in, walk-in, call, recall, skip, return, start, complete, no-show, reorder | commands decided on a read made before the transaction; two order sources | versions protect every write; bookings follow entries; nobody is passed |
| Outbox and dispatcher (`infrastructure/outbox`, `outbox-dispatcher.job.ts`) | outbox_events | enqueue, claim, deliver, retry, dead-letter | crash between claim and mark; overlapping sweeps | a row is acknowledged only when told, notifies once, and settles |
| Idempotency (`modules/idempotency`) | idempotency_keys | claim, run, record, replay, takeover | crash or failure between the run and its record; slow owner | replays are true; one effect per key unless a request is lost |
| Sessions and devices (`modules/auth`, `notifications.service.ts`) | auth_sessions, password_reset_tokens, devices | register, login, refresh, logout, request and do a password reset, register and remove a device | two refreshes of one token; a sweep or reset that meets a refresh; a device that changes hands | one active session per family; one reset per token; a revocation leaves nothing it could see |
| Staff and invitations (`modules/staff`) | profiles, memberships, staff_services, invitations | invite, accept, update, deactivate | read before the transaction; a partial unique index | profile and membership agree; the owner stays; links stay in the business |
| Schedules and slots (`modules/schedules`) | operating hours, closed dates, staff schedules | replace hours, close a date, replace a staff schedule, availability | interval arithmetic; edits while customers book | what is offered is what the schedules leave, and no schedule check refuses it when asked for |
| Businesses, services, memberships (`modules/businesses`, `services`, `memberships`) | businesses, services, memberships | create a business, edit services, the guard | slug and ownership read before the insert; the guard's answer used later | one owner and one owned business each; a refusal needs a competitor |
| Outlets, users, profiles | catalogue rows | edits and reads | none beyond unique indexes | row constraints |
| Notifications and push | notifications, deliveries, devices | list, mark, push | best effort, called from a retried dispatch | a notification is written once at most |
| Reviews (`modules/reviews`) | reviews, stored ratings | create | recount under a row lock | the stored ratings are those of the reviews |
| Reports, audit, health, metrics | append-only rows, reads | insert, read | none | unique indexes |
| Realtime gateway | socket rooms | subscribe, publish | events are hints and may be reordered | what was acknowledged was published |
| Provider adapter (`infrastructure/payments`) | the provider's charge | create, poll, refund, parse webhooks | the provider moves on its own | (environment of the model) |
| Consistency check (`consistency-check.job.ts`) | none | reads and logs | none | its reservation checks are `SlotHeldIffBlocking` |
| Mobile client | cubits | screens, polls, optimistic reorder | overlapping responses; a hint during a local reorder | the screen ends at the newest state; a reorder sends what was shown |

How they interact: controllers call services; a service runs its operation under
the idempotency service, and inside one transaction changes its rows and enqueues
outbox events. Timers run the expiration, reconciliation and dispatcher jobs in the
same process. The provider calls back through the webhook, and both the webhook
and the polls end in `applyProviderEvent`. The queue writes the bookings behind its
entries directly, by id.

## 2. The modules

`StatusPolicy` holds the three transition tables and the status groups as sets;
`BookingPayment` and `Queue` read statuses through it.

`BookingPayment` is one online booking with its reservation, payment, refunds and
recorded provider events, the provider's own charge, the clock and a set of
handlers. A handler is an HTTP request or one pass of a job, cut into steps at
every place where the code gives up its hold on the database: a read before a
transaction, a transaction, a provider call. `work[h]` is what handler `h` still
has to do and the values it read earlier; those values are the ones the code keeps
in local variables. A transaction is one step, since each of them locks the payment row
or updates the booking under a guard first. Reads and writes are translated from
the code with their order and their guards: for instance `SaveReference` is
unconditional because the update in `finalizeProviderCreation` is, and
`MarkNoShow` does not look at the booking again because `markNoShowBooking` does
not. Every database row of the component is one variable; the handlers that can
be in flight are those of `Begin`, their remaining steps those of `Continue`.

| Code | Actions |
|---|---|
| `createBookingRun`, `resume`, `finalizeProviderCreation` | `CreateBooking`, `ResumeBooking`, `ProviderCreates`, `ProviderRefusesCreate`, `SaveReference` |
| webhook, `refreshPayment`, `reconcilePayments`, `applyProviderEvent` | `DeliverWebhook`, `RefreshPayment`, `ReconcilePayment`, `ApplyPolled`, with `EffectOf` deciding and `Apply` writing |
| `PaymentExpirationJob` | `ExpirePayment` |
| `requestRefund`, `refundLatePayment`, `createCancellationRefund`, `executeRefund`, `settleWithProvider`, `reconcilePendingRefunds` | `RequestRefund`, `RefundLatePayment`, `RefundCancelled`, `ExecuteRefund`, `ProviderRefunds`, `ProviderDefersRefund`, `SettleRefund`, `ReconcileRefund` |
| `cancelCustomer`, `cancelBusiness`, `cancelTransaction` | `RequestCancel`, `CancelBooking` |
| `checkInRun`, `markNoShowBooking`, seen from the booking | `CheckIn`, `RequestNoShow`, `MarkNoShow` |
| provider, clock, process (external) | `ProviderSettles`, `PaymentDeadlinePasses`, `TimePasses`, `Crash` |

`PaymentLedger` is the abstract specification of the money: received once, given
back one refund at a time, never more than was received. `LedgerImplemented` is
the refinement: the mapping computes what was received, is being refunded, and was
returned from the provider's charge and the refund rows.

`Queue` is the queue of one outlet on one date: counter row, entries, and the
bookings and reservations behind them. A staff command reads the entry
(`BeginCommand`) and commits in a later step (`Call`, `Recall`, `Skip`,
`ReturnToWaiting`, `StartService`, `Complete`, `MarkNoShowEntry`), whose only
guard on the row is its version (`versionedQueueUpdate`) and, for call and start,
the partial unique indexes of the migration. `ReadEnd` is the aggregate query of a
return, which runs a statement before the update. A reorder reads what it is to
order (`BeginReorder`), then in one transaction updates the counter row where it has
the version sent (`CheckReorder`) and writes the places (`Reorder`); the counter row
stays locked in between, so no arrival or second reorder gets through
(`CounterFree`), but commands do. `MarkNoShowBooking` compares nothing.

Two simplifications. The version a client sends is the
version read at the start of the command: an older one is refused by the update,
and a client cannot have seen a newer one. The order is by `sortOrder`, then
`checkedInAt`, then the queue number; the model leaves out the second.
`checkedInAt` is read before the transaction that hands out the number, so two
check-ins of the same instant may have them in opposite order; they then still
differ in `sortOrder`, which is the number, until one of them returns to the end or
is moved. That customers at the desk are checked in one after the other is an
assumption of the model.

`Outbox` is the table `outbox_events` and the sweeps that drain it. The queue is
reduced to a version every change increments; publishing means that a room has been
sent a view of that version. A sweep is a `runOnce`, cut at every read and
publication, because a second one may run in the middle of it: `setInterval` does
not wait for the last, and each instance has its own. `version` is read when the
code reads (after the claim, not at the enqueue), so a row may publish changes newer
than its own.

| Code | Actions |
|---|---|
| `enqueueQueueEvent`, inside the transaction of a queue change | `Enqueue` |
| `claimOutboxBatch` | `Claim`: any of the due rows, as another claim may hold the rest |
| `runOnce`, `dispatch` | `TakeRow`, `PublishSnapshot`, `ReadView`, `PublishView`, `Notify`, each ending in `Dispatched` where the code returns |
| `markOutboxFailed`, from the catch | `FailRow` with `MarkFailed` and `Exhausted` |
| `markOutboxProcessed` | `Finish` |
| clock, process, a marking that throws | `BackoffElapses`, `Abort` |

`Idempotency` is one key: its row, and the requests that carry it. Every statement of
`execute` is an action (`Claim`, `LookUp`, `TakeOver`, `RecordSuccess`,
`RecordFailure`, `DropClaim`), and what runs in between commits or not
(`Execute`, `Resume`, `Refuse`, `Break`). The operation is one of three kinds, which
differ in what a second execution does: a walk-in makes another entry, a booking
paid at the location is refused by the first one's reservation, an online booking
takes up what the first one left. Rows are known by id, fresh for each claim, since the
code updates and deletes by id. A fingerprint is the payload itself: the hash does not
collide.

`KeyedOutcome` is the abstract specification of a key, without rows, claims or
takeovers: one outcome is chosen, a request done or a failure for good, and every answer
that tells an outcome tells the chosen one. `OutcomeImplemented` is the refinement: what is
chosen is what was committed, or the recorded failure. Once something is lost (`Lost`),
outcomes may be chosen again, but answers still tell only what was done.

`Schedules` is the arithmetic of `slots.ts` and of the mapping functions of
`schedules.service.ts` as operators over sets of half-open periods: `SubtractRanges`
(a fold over the cuts), `SlotGrid`, `BuildSlots`, `StaffAvailability` and the validity
of what an edit sends. A list of periods is a set: no function there depends on order
once the list is valid.

`BookingCreation` is the creation of bookings of one business, for several requests,
customers and staff, next to everything it is checked against. A request reads
business, service and staff member (`Admit`), then the closed date and opening hours
(`CheckSlot`), then looks for its own pending booking (`LookForPending`), and then runs
its transaction in two steps: the advisory lock and the count (`LockAndCount`), the
inserts and the commit (`InsertAndCommit`), where the exclusion constraint of the
migration decides. Each step sees the tables of its own moment, the staff member's row
excepted, which the request carries along in `seen` as the code does. Staff edit the
tables in between: opening hours (also two replacements at once, which delete only the
rows they see: `MergeOperatingHours`), closed dates, staff schedules, assignments, the
service. `Tick` is the clock. `OfferedAt` is what `getAvailability` marks as available at
a given time, and `OfferedOn` what it does now; it only reads, so it is an operator. Like
the code it knows schedules, closed dates, lead time and horizon, and no bookings. What ends or confirms a booking is one step here, for
`BookingPayment` and `Queue` have its detail; those two take the slot of a single
booking for granted, which `NoDoubleBooking` justifies.

`Sessions` is the accounts, sessions, reset tokens and devices. A transaction that can
meet another on a row is cut between the statement that takes its snapshot and row
locks and its commit. What PostgreSQL does at READ COMMITTED is explicit: a statement
finds its rows in a snapshot, waits for the rows others hold (`RowFree`), and then
changes those that still qualify (`EndAll`); a row inserted meanwhile is not seen. The
token sent to a refresh is the session's id; that its secret matches is a guard.

| Code | Actions |
|---|---|
| `register`, `login`, `createSession`, `upsertDevice` | `Register`, `Login` with `OpenSession`, `UpsertDevice` |
| `refresh` | `RefreshLocks`, then `Rotate` or `Expire`; `ReuseFound`, then `SweepEnds` |
| `logout`, three statements in no transaction | `LogoutReads`, `LogoutRevokes`, `LogoutSilences` |
| `requestReset` | `RequestBegins`, `RequestEnds` |
| `resetPassword` | `ResetReads`, `ResetClaims`, `ResetEnds` |
| `registerDevice`, `removeDevice` | `RegisterDevice`, `RemoveDevice` |

`Directory` is businesses, memberships, staff profiles, services with who does them,
and invitations. Every request of a member begins with `Admit` (the guard), and acts
later on an answer that may be old. `CreateChecks`/`CreateInserts` are the creation of
a business around the unique indexes on owner and slug (`Conflicts`), `InviteReads`/
`InviteInserts` and `AcceptReads`/`Accepts` those of an invitation. The edits of staff
and services check facts no request can change (the business of a row, who the owner
is) before their transaction, so each is one step. A slug is a name and a suffix; that
the suffixed slug of one name may be the plain slug of another is left out.

`Visit` is what happens at the outlet: `confirmPayAtLocation` as `ConfirmReads` and then
`ConfirmPending` (the guarded update) or `ConfirmRemainder` (an insert nothing guards),
next to the online payment, its refund and the cancellation; and `createReviewRun` as
`ReviewReads`, `ReviewCounts` (the business row is locked, the row inserted and the
reviews counted) and `ReviewCommits`. A stored average is kept as count and sum.

The `MC...` modules name the model values, the inputs and the symmetries; the modules
in `...Proofs` hold the theorems. A definition marked "Deviation" is not used by any
specification: it is the definition after it with a plausible slip of the code, and the
properties have been seen to fail with it.

## 3. The runs

| Run | Bounds | What it shows |
|---|---|---|
| `payment_booking` | amount 1, one refund row, two handlers, outcomes paid and failed, one wrong amount | slot, booking and payment agree in every interleaving; memory of handlers stays sound; no success is swallowed |
| `payment_refunds` | amount 2, two refund rows, two handlers | the ledger is implemented (refunds one at a time, never more than was paid), payment status follows the rows and its table, what says paid is backed by the charge |
| `payment_liveness` | one handler, one crash, fairness | pending payments are resolved, pending refunds settle |
| `queue_commands` | two entries (one booked, one walk-in), two agents, entry version up to 5, queue version up to 3 | versions protect the statuses, bookings follow entries, slots are released |
| `outbox` | two rows, two sweeps, batches of up to two, two attempts, one abort, fairness | one owner per row, no acknowledgement of what was not told, one notification per row, settled rows stay, rows settle |
| `idempotency` | three requests, two payloads, all three kinds of operation | replays are of a committed operation with the caller's payload; one outcome is chosen and told (`KeyedOutcome`), a second effect or a rewritten outcome needs one of the named losses |
| `booking_creation` | three requests, two customers, two staff, two dates of six minutes, duration 2, limit 1, clock to 1, one edit | no double booking, the limit holds, offers are what the schedules leave, no schedule check refuses what was offered, bookings lie within the schedules they were checked against |
| `sessions` | two accounts, three sessions, two reset tokens, one device, two requests in progress | one active session per family, one reset per token, complete revocations, devices silenced by their owner only |
| `directory` | two businesses, two users, one service, two invitations, one name, two requests in progress | the owner stays, staff rows agree, links stay inside a business, a refused creation met another |
| `visit` | two bookings, two requests in progress, deposit below the price, two receipts | audit and receipts agree, overpayment needs a named race, ratings match reviews |

Why the bounds are enough: a race here is between two handlers; a third adds no
row and no new value to be stale about. Every refund holds at least one unit, so
`Amount` refund rows are all there can be, and amount 2 is the least with a
partial refund. An event differs from another only in source, status and whether
its amount is the payment's, so one right and one wrong amount are all amounts. A
version of 5 lets a customer be called, skipped, returned, called again and served.
Two rows and two sweeps give every overlap of a batch with another sweep, and two
attempts a retry and a dead letter; a third sweep can only claim what the first two
did not. Three requests are a request, the one that takes it over, and the one that
finds what either has recorded; each makes one attempt.

In `booking_creation` the asks overlap without being equal, one of them is off the grid
and one is on the next date; the weeks have a gap, a late opening, a break in the middle
and one at a border, and each list of weeks ends with one that must be refused. With
a limit of one, two requests of a customer suffice to exceed it. In `sessions` three
sessions are a family with its rotation and another family, or a family rotated twice;
two accounts let a device change hands. There is no push token in that instance, so
that a token that moves to another device silences the first is covered by the proof
of `SilencedByOwnerOnly` only. In `directory` two users can each own one business and
work in the other; one name makes their slugs collide. In `visit` two bookings of one
or two staff members are the least for which a recount can miss a review.

`MaxCrashes`, `MaxVersion`, `MaxQueueVersion`, `MaxAborts`, `MaxNow`, `MaxEdits` and
`MaxReceipts` are the only bounds on counters, each a conjunct of a guard.
`CHECK_DEADLOCK FALSE`: a booking that is over, a queue that is empty at the end of the
day, an outbox that is drained, a key whose requests are answered, a day whose requests
have all been made, a directory or session table whose ids are used up and a visit that is
reviewed have no step left.

Two runs look for a statement of the repository that the code does not keep:

| Run | Statement | Counterexample |
|---|---|---|
| `staff_cancellation` | a cancellation by the business refunds all that was paid (ADR 0040) | part of the payment is being, or has been, refunded: the rest is not refunded |
| `late_success` | a late success is refunded (ADR 0040) | the process stops between the commit of the event and the refund; the repeated webhook is a duplicate and no job looks for it |

What the properties leave out, and where the code and its documents disagree:

* `BookingLifecycle` and `EntryMatchesBooking` leave out one write: the no-show of a
  booking that never came is decided before its transaction and written by id
  (`queue-commands.service.ts:668`), so it may overwrite a cancellation or a check-in,
  although `booking-status.policy.ts:30` calls these statuses terminal.
* `NobodyPassesWhoWaits` leaves out reorders (meant to change the order) and a return
  whose end was read before the waiting customer came. Arrivals take their number as
  their place, so after returns have run ahead of the counter an arrival is placed before
  a returned customer, where `realtime-queue.md:499` says that arrivals join the end.
* `RowsSettle` excepts the rows of a sweep that was cut short: they stay in
  `processing`, where `database-design.md:2457` says they are recovered.
* `KeyedOutcome` lets go of its promise at two losses (`Lost`): a live request is taken
  over, or a committed one loses its record; then a key may take effect twice.
  `database-design.md:97` says it cannot happen.
* `OverpaidMeansOverlap` says when more than the price is taken. Two confirmations of a
  remainder that overlap both collect it; `booking-payment.md:2399` expects one effect,
  which the code gives for a pending receipt only (`AuditMatchesReceipts`). The
  confirmation looks at no booking status, so a cancelled booking can be paid.
* `BookedWithinSchedule` speaks of bookings with no edit between check and commit. The
  comment at `schedules.service.ts:78` says the rules are revalidated inside the
  booking's transaction; they are read before it.
* `OffersMatchSchedules` compares what is offered with the schedules and nothing else.
  `00-product-brief.md:698`, `backend-brief.md:1026` and `database-design.md:121` list the
  active bookings among the inputs of availability; `getAvailability` and `buildSlots`
  (`schedules.service.ts:270`, `slots.ts:115`) read neither bookings nor reservations, so a
  slot that a booking holds is still offered, and only the creation of the second
  booking is refused. The model copies the code, and the property says nothing else.
* `OfferedIsAccepted` says that no check of the schedules refuses what was offered. It
  names the other reasons: a later date within the lead time (availability applies the
  lead time to the current date only, the booking's check to every date), an edit since
  the request was admitted, and those of `TurnedAway`: an earlier booking is taken up, the
  limit of active bookings, the reservation of another booking. A request whose process
  stops is not answered at all.
* `RevocationIsComplete` excepts a family whose active session was replaced while the
  sweep or reset waited for it: the replacement is a row the statement does not see, and
  it stays active.
* `StaffConsistent` lets a second acceptance re-activate a member who was deactivated
  between its read and its transaction.
* `RefusedMeansOverlap`: two businesses of one name that are created at once collide on
  the slug, and the second owner is told he owns a business already (the comment at
  `businesses.service.ts:109` takes every conflict for that).
* ADR 0036 and `02-api-contract.md` §53 block the deactivation of staff with future
  bookings; `staff.service.ts:206` notes that this is not built, and the models have no
  such guard. An invitation past its expiry keeps its `pending` status and so keeps
  blocking a new one (`Pending`).

Where the models are coarser than the code, with no property resting on it:

* `BookingPayment.CheckIn` is possible in two phases of the clock, where the code has an
  early check-in window configured apart from the refund thresholds.
* `Queue.ReadEnd` leaves out the tie-break of the order by time of check-in, which applies
  to equal places.
* `Outbox.PublishView` has one room for all customers, and reads the entry and its
  booking at once.
* `Sessions.Login` starts at its transaction: a login that checked the old password just
  before a reset is not told apart from one with the new password.
* `Directory.Relink` is one write; the code deletes the links and creates the new ones, so
  that one of two concurrent edits may be refused on the unique key.
* `Visit.OnlinePaid` leaves the success of a cancelled or expired payment to
  `BookingPayment`, and `Visit.ReviewCommits` has no booking without staff.

### Fairness

Liveness is checked under `FairSpec` only. Time passes and the expiration job runs
on a timer (weak fairness of `PaymentDeadlinePasses` and `ExpirePayment`). The
reconciliation job takes up a pending refund again and again, and the provider
repeats a webhook until it is acknowledged (strong fairness, since a handler may be
busy in between). A handler that is not cut short runs to its end (weak fairness
of `Continue`), and the provider does not refuse a refund for ever (strong fairness of
`ProviderRefunds`). Nothing obliges a customer, a member of staff or the provider's
customer to act, and a crash may strike, `MaxCrashes` times.

In `Outbox` the timer keeps starting sweeps (weak fairness of `Begin`), a sweep that
has begun goes on or its row fails (weak fairness of `Proceed` or `FailRow`), and
backoffs elapse. Nothing says that a dispatch ever succeeds: rows settle because
attempts are bounded. The other modules promise no progress: a request whose process
stops is never answered, and no job takes it up.

## 4. The proofs

TLAPS proves, for every value of the constants that satisfies the named assumptions
`AmountAssumption`, `QueueAssumption`, `OutboxAssumption`, `IdempotencyAssumption`,
`CreationAssumption`, `SessionsAssumption`, `DirectoryAssumption` and `VisitAssumption`,
every invariant and every action property that a run checks, and the two refinements.
`OneRefundInFlight` and `OnceUnlessLost` are proved and not run: on the instances they
follow from `LedgerImplemented` and, but for which request was lost, from
`OutcomeImplemented`. The assumptions say that
sets are finite and numbers natural, and three things about the code's inputs: an outlet
closes before midnight (`TIME_RE` in `slots.ts`), the dates asked for are among those
modelled, and a deposit is not more than the price.

An invariant that is checked is seldom inductive. What had to be added is said here for
each module, and was checked by TLC as well.

* `BookingPayment`, booking and slot: `TypeOK`, `SlotHeldIffBlocking`,
  `PaymentMatchesBooking`, `MemoryHolds`, `NoSuccessSwallowed`, `OneRefundInFlight`, and
  `BookingLifecycle`. The inductive invariant `IInv` joins them because none stands alone:
  that a slot is held exactly by a blocking booking needs the type of what a cancellation
  saw; that booking and payment agree needs the memory of the handlers (a no-show is
  written without a look at the booking, so its payment must still be one that was paid);
  and the memory needs the agreement, for a refund is decided on a payment status read
  earlier.
* `BookingPayment`, money: `RefundsMatchPayment`, `PaymentLifecycle`, `MoneyIsBacked` and
  the refinement `LedgerImplemented`. `RefundsMatchPayment` is not inductive: a handler
  that carries a success into a payment whose charge was never taken would break it.
  `MoneyIsBacked` excludes that (`MInv` joins the two): every status that says paid, every
  success in flight and every refund a handler carries stems from the provider's charge,
  and a payment still awaited has no refund rows. The sums over refund rows are folds;
  that they do not depend on the order in which the rows are taken, and what they do when
  one row changes, is a group of lemmas of its own. With them every step is mapped to an
  opening, a closing, a receipt or a stutter of `PaymentLedger`, and
  `NeverOverRefunded` is proved of the ledger and carried over to the rows.
* `Queue`: `TypeOK`, `CommandMemory`, `EntryMatchesBooking`, `NoOrphanReservation` and
  `QueueLifecycle`. The core is one lemma, `EntryMoves`: a step leaves an
  entry alone, or keeps its status and version, or takes exactly one version along
  an edge of the queue table, or creates it. `CommandMemory` (a command that finds
  its version finds the status it read) is inductive with that lemma only, and the
  lemma's commit case needs `CommandMemory`; `IInv` joins the two with the
  invariants on bookings, and with `ReorderKnows`: the entries a reorder is about to
  move are there, which holds as no entry is ever removed. `NobodyPassesWhoWaits` needs
  the places as well (`Placed`): numbers are handed out once and none is beyond the
  counter, and whoever never returned stands at or before the counter. A reorder keeps the
  last because its list names nobody twice and so is no longer than the numbers handed out
  (`ShortOrder`, a pigeonhole).
* `Outbox`: `TypeOK`, `SingleOwner`, `ProcessedWasTold`, `NotifiedOnce` and the action
  property `SettledRowsStay`. A row is acknowledged sweeps after it was told, so
  `IInv` carries the fact along: the queue is never behind a row (`ViewIsNew`), what a
  sweep read is at least as new as its row, each publication leaves its room at
  least that new, and a delivered row keeps that (`DeliveredWasTold`). `SingleOwner`
  makes the sweeps independent; `NotifiedIsPast` says a notified row will not be
  dispatched again; `AttemptsLeft` bounds the attempts.
* `Idempotency`: `TypeOK`, `ReplayIsTrue`, `OnceUnlessLost`, `OutcomeStays` and the
  refinement `OutcomeImplemented`.
  Without a takeover of a live request there is one worker (`OneWorker`), and each
  effect so far is accounted for: its request is about to record it, or has
  (`Accounted`), or was lost. With them every step is mapped: while nothing is lost, a
  request at work finds nothing chosen (`WorkFindsNothing`), so an execution or a recorded
  failure is the first choice; what is lost stays lost (`LossStays`); and an answer
  is given once (`AnsweredOnce`) and tells what is chosen.
* `BookingCreation`, bookings: `TypeOK`, `NoDoubleBooking`, `ActiveLimit`. The
  reservations are those of the blocking bookings (`Reserved`) and no two of them
  exclude each other (`Disjoint`), so that the constraint speaks about bookings. For the
  limit, `Room` is what a transaction that holds the lock relies on: the count it made is
  still below the limit, as only the holder can add a booking of that customer;
  cardinalities come from `FiniteSetTheorems`.
* `BookingCreation`, schedules: `OffersMatchSchedules`, `OfferedIsAccepted`,
  `BookedWithinSchedule`. `CutsCover` is the lemma about `slots.ts`: what is left of
  periods after the breaks are cut out covers exactly the slots that a period covers and
  no break meets, however many breaks there are and in whatever order they are cut. With
  it `OffersMatchSchedules` follows from the tables alone (`Calendar`: the hours end by
  midnight), and what the tables offered at any time passes their checks now
  (`OfferedFits`). The other two are action properties and need `Fresh` besides: a request
  that has seen the last edit still carries the row of its staff member, and the checks it
  passed are still true.
* `Sessions`: `TypeOK`, `OneActivePerFamily`, `TokenSpentOnce` as invariants and
  `RevocationIsComplete`, `SilencedByOwnerOnly` as action properties. The strengthening
  says that one transaction locks a session (`HeldOnce`), that a family is named after a
  session that exists (`Rooted`), so that a new family is nobody else's, that a reset token
  belongs to an account (`Owned`), and that what is active in the scope of a sweep or
  reset was found by it or replaced one that was (`Traced`).
* `Directory`: `TypeOK`, `OwnerStays`, `StaffConsistent`, `LinksStayInBusiness`. An
  invitation or a request in progress names services and members that were checked
  earlier; `Invited` and `JobOK` say that those facts still hold, and `NoSeats` that a
  business that does not exist yet has no members. `RefusedMeansOverlap` rests on what a
  creation looked at (`SeenHolds`): those businesses are still there, with another owner
  and another slug, so what refuses it is new. That it finds a free slug at all is a
  pigeonhole, there being fewer businesses than suffixes (`FreeSlugIsFree`).
* `Visit`: `AuditMatchesReceipts`, `RatingsMatchReviews`, `OverpaidMeansOverlap`. For the
  money, what is paid at the location is the whole price and has no receipts before
  (`Paid`), and a confirmation in progress carries what the rows it read left open
  (`Taking`), so that with unchanged rows it makes the total exactly the price. For the
  ratings, one request at a time counts, and what it counted is what the reviews will be
  when it commits (`Counting`); a rating that it does not write is about none of them.

Types are proved, not checked by a run: the types of these modules are part of each
invariant (`TypeOK`, in `Visit` the conjunct `Types` of `IInv`).

The folds of the community modules (sums of refunds, receipts and ratings, the cutting of
breaks) are functions that recurse over subsets. The induction theorems cannot be
used on them, as they take an operator; instead the proofs take a smallest set that would
be an exception, which the well-foundedness of strict inclusion on finite sets provides
(`Smallest`), and show that it is none. So it is proved that the recursion has a solution
(`SumsExist`, `CutsExist`), that it has one only, and what it computes.

Only model-checked: the liveness properties (`RowsSettle` and those of
`payment_liveness`), since fairness and ENABLED are out of the prover's reach. The two
runs that expect a violation have nothing to prove.

## 5. What is not modelled, and the plan

Done: the modules and proofs above. Left:

* `CustomerScreen` and `StaffBoard`: the two queue screens of the mobile client,
  their polls, realtime hints and optimistic reorder, with responses that arrive
  out of order; composed with the versions `Outbox` publishes.

Not planned: edits of descriptive fields, outlets, profiles, reports, the audit log,
health and metrics (single-row operations with no protocol), push deliveries (best
effort by design), signature and payload parsing (formats), and the other screens of
the mobile client. Rate limits, authorisation and input validation only refuse requests,
and a refused request changes nothing the models keep.
