--------------------------- MODULE BookingPayment ---------------------------
(***************************************************************************)
(* One online booking from its creation to its last refund: the rows of    *)
(* bookings, booking_reservations, payments, refunds and payment_events    *)
(* that belong to it, the payment provider, and the handlers that change   *)
(* them.                                                                   *)
(*                                                                         *)
(* A handler (an HTTP request or one pass of a background job) is a        *)
(* sequence of steps.  A database transaction is one step: every           *)
(* transaction here starts by locking the payment row or by a guarded      *)
(* update of the booking row, and two of them that touch the same rows are *)
(* serialised or one is rolled back.  What a handler reads before its      *)
(* transaction, and what it does after it (a provider call, a second       *)
(* transaction) are steps of their own, and any other handler may run, or  *)
(* the process may stop, in between.  work[h] is what handler h still has  *)
(* to do, with the values it read earlier.                                 *)
(***************************************************************************)
EXTENDS Integers, FiniteSets, FiniteSetsExt, StatusPolicy

CONSTANTS
  Amount,       \* payments.amount, in whole rupiah
  Outcomes,     \* the statuses the provider may settle a charge with
  PaidAmounts,  \* the amounts a provider event may carry for a success
  Partial,      \* partialRefundPercentage of the policy snapshot
  RefundIds,    \* refund rows; a row holds at least 1, so Amount rows suffice
  Handlers,     \* requests and job passes that may run at once
  MaxCrashes    \* bound: how often a handler may be cut short

ASSUME AmountAssumption ==
  /\ Amount \in Nat \ {0}
  /\ Outcomes \subseteq {"paid", "failed", "expired", "cancelled"}
  /\ PaidAmounts \subseteq Nat /\ Amount \in PaidAmounts
  /\ Partial \in 0..100
  /\ IsFiniteSet(RefundIds)
  /\ MaxCrashes \in Nat

VARIABLES
  booking,      \* bookings.status, "none" before the row exists
  cancelledBy,  \* actorType of the cancellation in booking_status_history
  reservation,  \* whether the booking_reservations row exists
  payment,      \* payments.status
  reference,    \* whether payments.providerReference is set
  refunds,      \* the refunds rows
  events,       \* payment_events.processingStatus by provider event id
  charge,       \* the provider's own status and amount of this payment
  emitted,      \* the webhook events the provider has sent; sent again at will
  overdue,      \* payments.expiresAt has passed
  phase,        \* where the clock stands relative to scheduledAt
  work,         \* what each handler has left to do
  crashes       \* how many handlers were cut short

rows == <<booking, cancelledBy, reservation, payment, reference, refunds, events>>
provider == <<charge, emitted>>
clock == <<overdue, phase>>
vars == <<rows, provider, clock, work, crashes>>

-----------------------------------------------------------------------------
(* Types.                                                                  *)

ProviderStatuses == {"pending"} \cup Outcomes

\* A provider event.  Its id is deterministic in these three: a poll derives it
\* from the reference and the status, a webhook carries the provider's own.
Event == [src: {"webhook", "poll"}, status: ProviderStatuses,
          amount: PaidAmounts]

Phases == {"full", "partial", "none", "started"}

Refund == [status: {"none", "refund_pending", "refunded"},
           amount: 0..Amount,
           reason: {"none", "request", "cancellation", "late_payment"}]

NoRefund == [status |-> "none", amount |-> 0, reason |-> "none"]

Idle == [pc |-> "idle"]

Work ==
  {Idle}
  \cup [pc: {"create_call", "create_save", "no_show_tx"}]
  \cup [pc: {"apply"}, event: Event]
  \cup [pc: {"late"}, amount: 0..Amount]
  \cup [pc: {"cancel_tx"}, seen: BookingStatuses, by: {"customer", "staff"},
        amount: 0..Amount]
  \cup [pc: {"cancel_refund"}, amount: 0..Amount]
  \cup [pc: {"refund_tx"}, seen: PaymentStatuses \cup {"none"}, amount: 0..Amount,
        reason: {"request", "cancellation", "late_payment"}]
  \cup [pc: {"settle_call", "settle_tx"}, row: RefundIds, skip: BOOLEAN]

-----------------------------------------------------------------------------
(* Refund accounting, over the refunds rows rf.                            *)

InStatus(rf, s) == {r \in RefundIds : rf[r].status = s}

SumOf(rf, R) == LET amountOf(r) == rf[r].amount IN MapThenSumSet(amountOf, R)

\* What completed and pending refunds hold of the payment.
Held(rf) == SumOf(rf, InStatus(rf, "refund_pending") \cup InStatus(rf, "refunded"))

\* paid - already refunded - pending, floored at 0.
Available(rf) == IF Held(rf) >= Amount THEN 0 ELSE Amount - Held(rf)

\* Deviation: a partial refund leaves the payment paid.
StatusWithoutPartial(rf) ==
  IF Available(rf) = 0 THEN "refunded" ELSE "paid"

\* The payment status the rows imply.
StatusAfterRefunds(rf) ==
  LET completed == SumOf(rf, InStatus(rf, "refunded"))
  IN  IF InStatus(rf, "refund_pending") # {} THEN "refund_pending"
      ELSE IF completed <= 0 THEN "paid"
      ELSE IF completed >= Amount THEN "refunded"
      ELSE "partially_refunded"

\* Online money of the booking, counted gross: refunds are not subtracted.
NetOnlinePaid == IF payment \in GrossPaidStatuses THEN Amount ELSE 0

\* ADR 0018 thresholds, against the policy snapshot of the booking.
RefundPercentage ==
  CASE phase = "full"    -> 100
    [] phase = "partial" -> Partial
    [] OTHER             -> 0

RefundAmount(net) == (net * RefundPercentage) \div 100

-----------------------------------------------------------------------------
(* Creation: the booking transaction, then the provider, then the          *)
(* provider's reference.                                                   *)

Goto(h, w) == work' = [work EXCEPT ![h] = w]

Free(h) == work[h].pc = "idle"

At(h, pc) == work[h].pc = pc

CreateBooking(h) ==
  /\ Free(h)
  /\ booking = "none"
  /\ booking' = "pending_payment"
  /\ reservation' = TRUE
  /\ payment' = "pending"
  /\ Goto(h, [pc |-> "create_call"])
  /\ UNCHANGED <<cancelledBy, reference, refunds, events, provider, clock, crashes>>

\* The customer repeats the request: the booking that still waits for its
\* payment is resumed.  With a reference stored there is nothing left to do.
ResumeBooking(h) ==
  /\ Free(h)
  /\ booking = "pending_payment"
  /\ payment = "pending" /\ ~overdue
  /\ ~reference
  /\ Goto(h, [pc |-> "create_call"])
  /\ UNCHANGED <<rows, provider, clock, crashes>>

\* createPayment reaches the provider, which keeps one charge per payment id;
\* the answer arrives or is lost.
ProviderCreates(h) ==
  /\ At(h, "create_call")
  /\ charge' = IF charge.status = "none"
               THEN [status |-> "pending", amount |-> Amount] ELSE charge
  /\ \/ Goto(h, [pc |-> "create_save"])
     \/ Goto(h, Idle)
  /\ UNCHANGED <<rows, emitted, clock, crashes>>

\* The provider is down: the attempt is recorded, the request fails.
ProviderRefusesCreate(h) ==
  /\ At(h, "create_call")
  /\ Goto(h, Idle)
  /\ UNCHANGED <<rows, provider, clock, crashes>>

\* Unconditional: whatever became of the payment during the call.
SaveReference(h) ==
  /\ At(h, "create_save")
  /\ reference' = TRUE
  /\ Goto(h, Idle)
  /\ UNCHANGED <<booking, cancelledBy, reservation, payment, refunds, events,
                 provider, clock, crashes>>

-----------------------------------------------------------------------------
(* Provider events.                                                        *)

\* Late success: honour it only while the slot is still held.
Honoured == reservation /\ booking = "pending_payment"

\* What an event not seen before does to a payment it is applied to.
EffectOf(e) ==
  IF ~reference THEN "unknown_payment"
  ELSE IF e.amount # Amount THEN "mismatch"
  ELSE IF e.status = "pending" \/ payment = e.status THEN "ignored"
  ELSE IF e.status = "paid" /\ ~CanTransitionPayment(payment, "paid")
       THEN IF Honoured THEN "paid" ELSE "late"
  ELSE IF ~CanTransitionPayment(payment, e.status) THEN "ignored"
  ELSE IF e.status = "paid" THEN "paid"
  ELSE "released"

\* Deviation: a late success is closed like any other invalid transition.
ProcessingStatusLateIgnored(effect) ==
  CASE effect \in {"paid", "released"} -> "processed"
    [] effect \in {"ignored", "late"} -> "ignored"
    [] OTHER -> "manual_review"

ProcessingStatus(effect) ==
  CASE effect \in {"paid", "released"} -> "processed"
    [] effect = "ignored" -> "ignored"
    [] OTHER -> "manual_review"

\* applyProviderEvent: one transaction, deduplicated by the event id.
Apply(h, e) ==
  LET effect == EffectOf(e)
      first == booking = "pending_payment"
  IN  /\ events' = [events EXCEPT ![e] = ProcessingStatus(effect)]
      /\ payment' = CASE effect = "paid"     -> "paid"
                      [] effect = "released" -> e.status
                      [] OTHER               -> payment
      /\ booking' = CASE effect = "paid" /\ first     -> "confirmed"
                      [] effect = "released" /\ first -> "expired"
                      [] OTHER                        -> booking
      /\ reservation' = (reservation /\ ~(effect = "released" /\ first))
      /\ Goto(h, IF effect = "late" THEN [pc |-> "late", amount |-> e.amount]
                 ELSE Idle)

\* A webhook delivery.  A second delivery of a recorded event is acknowledged
\* and changes nothing.
DeliverWebhook(h, e) ==
  /\ Free(h)
  /\ e \in emitted /\ events[e] = "none"
  /\ Apply(h, e)
  /\ UNCHANGED <<cancelledBy, reference, refunds, provider, clock, crashes>>

PollResult == [src |-> "poll", status |-> charge.status, amount |-> charge.amount]

\* The customer asks for the payment to be refreshed.
RefreshPayment(h) ==
  /\ Free(h)
  /\ reference
  /\ Goto(h, [pc |-> "apply", event |-> PollResult])
  /\ UNCHANGED <<rows, provider, clock, crashes>>

\* The reconciliation job polls a payment that is still pending.
ReconcilePayment(h) ==
  /\ Free(h)
  /\ reference /\ payment = "pending"
  /\ Goto(h, [pc |-> "apply", event |-> PollResult])
  /\ UNCHANGED <<rows, provider, clock, crashes>>

\* The polled status is applied as an event: it may be stale by now.
ApplyPolled(h) ==
  /\ At(h, "apply")
  /\ LET e == work[h].event
     IN  IF events[e] = "none" THEN Apply(h, e)
         ELSE /\ Goto(h, Idle)
              /\ UNCHANGED <<events, payment, booking, reservation>>
  /\ UNCHANGED <<cancelledBy, reference, refunds, provider, clock, crashes>>

\* Deviation: payments the provider never confirmed are passed over.
DueAtProvider == payment = "pending" /\ overdue /\ reference

Due == payment = "pending" /\ overdue

\* The expiration job: the payment is looked at again under its row lock.
ExpirePayment ==
  /\ Due
  /\ payment' = "expired"
  /\ booking' = IF booking = "pending_payment" THEN "expired" ELSE booking
  /\ reservation' = (reservation /\ booking # "pending_payment")
  /\ UNCHANGED <<cancelledBy, reference, refunds, events, provider, clock, work,
                 crashes>>

-----------------------------------------------------------------------------
(* Refunds.                                                                *)

\* A business member asks for a refund of a, after reading the payment.
RequestRefund(h, a) ==
  /\ Free(h)
  /\ payment \in RefundableStatuses
  /\ Goto(h, [pc |-> "refund_tx", seen |-> payment, amount |-> a,
              reason |-> "request"])
  /\ UNCHANGED <<rows, provider, clock, crashes>>

\* A success that came too late is refunded in full, once per payment.
RefundLatePayment(h) ==
  /\ At(h, "late")
  /\ IF \E r \in RefundIds : refunds[r].reason = "late_payment"
     THEN Goto(h, Idle)
     ELSE Goto(h, [pc |-> "refund_tx", seen |-> payment,
                   amount |-> work[h].amount, reason |-> "late_payment"])
  /\ UNCHANGED <<rows, provider, clock, crashes>>

\* Deviation: a refund in flight does not exclude another.
RefundRefusedByAmount(a) == a > Available(refunds)

\* Under the payment row lock executeRefund refuses this amount.
RefundRefused(a) ==
  \/ InStatus(refunds, "refund_pending") # {}
  \/ a > Available(refunds)

\* The first transaction of executeRefund.  Whether the payment moves is
\* decided from the status read before the lock.
ExecuteRefund(h) ==
  /\ At(h, "refund_tx")
  /\ LET w == work[h] IN
     IF RefundRefused(w.amount)
     THEN /\ Goto(h, Idle)
          /\ UNCHANGED <<refunds, payment>>
     ELSE \E r \in InStatus(refunds, "none") :
            /\ refunds' = [refunds EXCEPT ![r] =
                 [status |-> "refund_pending", amount |-> w.amount,
                  reason |-> w.reason]]
            /\ payment' = IF /\ w.reason # "late_payment"
                             /\ CanTransitionPayment(w.seen, "refund_pending")
                          THEN "refund_pending" ELSE payment
            /\ Goto(h, [pc |-> "settle_call", row |-> r,
                        skip |-> w.reason = "late_payment"])
  /\ UNCHANGED <<booking, cancelledBy, reservation, reference, events, provider,
                 clock, crashes>>

\* The provider accepts the refund ...
ProviderRefunds(h) ==
  /\ At(h, "settle_call")
  /\ Goto(h, [work[h] EXCEPT !.pc = "settle_tx"])
  /\ UNCHANGED <<rows, provider, clock, crashes>>

\* ... or fails, or settles later: the row stays pending.
ProviderDefersRefund(h) ==
  /\ At(h, "settle_call")
  /\ Goto(h, Idle)
  /\ UNCHANGED <<rows, provider, clock, crashes>>

\* Deviation: the first refund's settlement is not counted.
AggregateFromSettled == {"partially_refunded", "paid"}

\* The payment takes the aggregate of its refunds only from these.
AggregateFrom == {"refund_pending", "partially_refunded", "paid"}

\* The second transaction of settleWithProvider.
SettleRefund(h) ==
  /\ At(h, "settle_tx")
  /\ LET r == work[h].row
         settled == [refunds EXCEPT ![r].status = "refunded"]
     IN  IF refunds[r].status # "refund_pending"
         THEN UNCHANGED <<refunds, payment>>
         ELSE /\ refunds' = settled
              /\ payment' = IF ~work[h].skip /\ payment \in AggregateFrom
                            THEN StatusAfterRefunds(settled) ELSE payment
  /\ Goto(h, Idle)
  /\ UNCHANGED <<booking, cancelledBy, reservation, reference, events, provider,
                 clock, crashes>>

\* Deviation: only refunds of a payment that is itself refunding are taken up.
StaleOfRefunding(r) ==
  refunds[r].status = "refund_pending" /\ payment = "refund_pending"

Stale(r) == refunds[r].status = "refund_pending"

\* The reconciliation job takes up a refund that is still pending.
ReconcileRefund(h, r) ==
  /\ Free(h)
  /\ Stale(r)
  /\ Goto(h, [pc |-> "settle_call", row |-> r,
              skip |-> payment # "refund_pending"])
  /\ UNCHANGED <<rows, provider, clock, crashes>>

-----------------------------------------------------------------------------
(* Cancellation, and the booking's way into the queue.                     *)

\* The booking is read, found cancellable, and the refund is computed from it.
RequestCancel(h, by) ==
  /\ Free(h)
  /\ booking \in {"pending_payment", "confirmed"}
  /\ phase # "started"
  /\ Goto(h, [pc |-> "cancel_tx", seen |-> booking, by |-> by,
              amount |-> IF by = "staff" THEN NetOnlinePaid
                         ELSE RefundAmount(NetOnlinePaid)])
  /\ UNCHANGED <<rows, provider, clock, crashes>>

\* Deviation: the update is not guarded by the status that was read.
UnguardedCancel(w) == TRUE

GuardedCancel(w) == booking = w.seen

\* cancelTransaction: nothing happens when the booking moved on meanwhile.
CancelBooking(h) ==
  /\ At(h, "cancel_tx")
  /\ LET w == work[h] IN
     IF GuardedCancel(w)
     THEN /\ booking' = "cancelled"
          /\ cancelledBy' = w.by
          /\ reservation' = FALSE
          /\ payment' = IF payment = "pending" THEN "cancelled" ELSE payment
          /\ Goto(h, [pc |-> "cancel_refund", amount |-> w.amount])
     ELSE /\ Goto(h, Idle)
          /\ UNCHANGED <<booking, cancelledBy, reservation, payment>>
  /\ UNCHANGED <<reference, refunds, events, provider, clock, crashes>>

\* createCancellationRefund: looks for a payment it may refund.
RefundCancelled(h) ==
  /\ At(h, "cancel_refund")
  /\ IF work[h].amount > 0 /\ payment \in RefundableStatuses
     THEN Goto(h, [pc |-> "refund_tx", seen |-> payment,
                   amount |-> work[h].amount, reason |-> "cancellation"])
     ELSE Goto(h, Idle)
  /\ UNCHANGED <<rows, provider, clock, crashes>>

\* checkInRun of the queue, seen from the booking: it locks the row and
\* checks the status under the lock.
CheckIn ==
  /\ booking = "confirmed"
  /\ phase \in {"none", "started"}
  /\ booking' = "waiting"
  /\ UNCHANGED <<cancelledBy, reservation, payment, reference, refunds, events,
                 provider, clock, work, crashes>>

\* markNoShowBooking reads the booking ...
RequestNoShow(h) ==
  /\ Free(h)
  /\ booking = "confirmed"
  /\ Goto(h, [pc |-> "no_show_tx"])
  /\ UNCHANGED <<rows, provider, clock, crashes>>

\* Deviation: the reservation is left behind.
MarkNoShowKeepingSlot(h) ==
  /\ At(h, "no_show_tx")
  /\ booking' = "no_show"
  /\ Goto(h, Idle)
  /\ UNCHANGED <<cancelledBy, reservation, payment, reference, refunds, events,
                 provider, clock, crashes>>

\* ... and its transaction writes by id, without looking again.
MarkNoShow(h) ==
  /\ At(h, "no_show_tx")
  /\ booking' = "no_show"
  /\ reservation' = FALSE
  /\ Goto(h, Idle)
  /\ UNCHANGED <<cancelledBy, payment, reference, refunds, events, provider,
                 clock, crashes>>

-----------------------------------------------------------------------------
(* The provider, the clock and the process.                                *)

\* The provider settles its charge and says so.  A customer can pay once the
\* checkout was handed out, and may pay again after a failed attempt.
ProviderSettles(s, a) ==
  /\ \/ charge.status = "pending"
     \/ charge.status = "failed" /\ s = "paid"
  /\ s = "paid" => reference
  /\ s # "paid" => a = Amount
  /\ charge' = [status |-> s, amount |-> a]
  /\ emitted' = emitted \cup {[src |-> "webhook", status |-> s, amount |-> a]}
  /\ UNCHANGED <<rows, clock, work, crashes>>

PaymentDeadlinePasses ==
  /\ booking # "none" /\ ~overdue
  /\ overdue' = TRUE
  /\ UNCHANGED <<rows, provider, phase, work, crashes>>

TimePasses ==
  /\ phase' = CASE phase = "full"    -> "partial"
                [] phase = "partial" -> "none"
                [] OTHER             -> "started"
  /\ phase' # phase
  /\ UNCHANGED <<rows, provider, overdue, work, crashes>>

\* The process stops: the handler's remaining steps never happen.
Crash(h) ==
  /\ ~Free(h)
  /\ crashes < MaxCrashes
  /\ crashes' = crashes + 1
  /\ Goto(h, Idle)
  /\ UNCHANGED <<rows, provider, clock>>

-----------------------------------------------------------------------------

Init ==
  /\ booking = "none" /\ cancelledBy = "none"
  /\ reservation = FALSE
  /\ payment = "none" /\ reference = FALSE
  /\ refunds = [r \in RefundIds |-> NoRefund]
  /\ events = [e \in Event |-> "none"]
  /\ charge = [status |-> "none", amount |-> 0]
  /\ emitted = {}
  /\ overdue = FALSE /\ phase = "full"
  /\ work = [h \in Handlers |-> Idle]
  /\ crashes = 0

\* The steps that finish what a handler has begun.
Continue(h) ==
  \/ ProviderCreates(h) \/ ProviderRefusesCreate(h) \/ SaveReference(h)
  \/ ApplyPolled(h)
  \/ RefundLatePayment(h) \/ ExecuteRefund(h)
  \/ ProviderRefunds(h) \/ ProviderDefersRefund(h) \/ SettleRefund(h)
  \/ CancelBooking(h) \/ RefundCancelled(h)
  \/ MarkNoShow(h)

\* The steps that begin a request or a job pass.
Begin(h) ==
  \/ CreateBooking(h) \/ ResumeBooking(h)
  \/ \E e \in Event : DeliverWebhook(h, e)
  \/ RefreshPayment(h) \/ ReconcilePayment(h)
  \/ \E a \in 1..Amount : RequestRefund(h, a)
  \/ \E r \in RefundIds : ReconcileRefund(h, r)
  \/ \E by \in {"customer", "staff"} : RequestCancel(h, by)
  \/ RequestNoShow(h)

Next ==
  \/ \E h \in Handlers : Begin(h) \/ Continue(h) \/ Crash(h)
  \/ ExpirePayment \/ CheckIn
  \/ \E s \in Outcomes, a \in PaidAmounts : ProviderSettles(s, a)
  \/ PaymentDeadlinePasses \/ TimePasses

Spec == Init /\ [][Next]_vars

-----------------------------------------------------------------------------
(* Fairness.  The jobs run on timers and every handler that is not cut     *)
(* short runs to its end.  The provider repeats a webhook until it is      *)
(* acknowledged, and does not refuse a refund for ever.  Nothing obliges a *)
(* customer or a staff member to act.                                      *)

Fairness ==
  /\ WF_vars(PaymentDeadlinePasses) /\ WF_vars(ExpirePayment)
  /\ SF_vars(\E h \in Handlers, e \in Event : DeliverWebhook(h, e))
  /\ SF_vars(\E h \in Handlers, r \in RefundIds : ReconcileRefund(h, r))
  /\ \A h \in Handlers : WF_vars(Continue(h)) /\ SF_vars(ProviderRefunds(h))

FairSpec == Spec /\ Fairness

-----------------------------------------------------------------------------
(* Properties.                                                             *)

TypeOK ==
  /\ booking \in BookingStatuses \cup {"none"}
  /\ cancelledBy \in {"none", "customer", "staff"}
  /\ reservation \in BOOLEAN
  /\ payment \in PaymentStatuses \cup {"none"}
  /\ reference \in BOOLEAN
  /\ refunds \in [RefundIds -> Refund]
  /\ events \in [Event -> {"none", "processed", "ignored", "manual_review"}]
  /\ charge \in [status: ProviderStatuses \cup {"none"}, amount: Nat]
  /\ charge.status = "none" \/ charge.amount \in PaidAmounts
  /\ emitted \subseteq Event
  /\ overdue \in BOOLEAN /\ phase \in Phases
  /\ work \in [Handlers -> Work]
  /\ crashes \in 0..MaxCrashes

\* The reservation row exists exactly while the booking's status blocks the
\* slot: no orphan reservation, and no blocking booking without its slot
\* (missingReservations and orphanReservations of the consistency check).
SlotHeldIffBlocking == reservation <=> booking \in BlockingStatuses

\* Booking and payment agree whatever order events, expiry, cancellation and
\* no-show take effect in.  In particular no payment leaves "pending" while its
\* booking waits for it, so the branch that honours a late success is never
\* taken.
PaymentMatchesBooking ==
  /\ booking = "none" <=> payment = "none"
  /\ booking = "pending_payment" <=> payment = "pending"
  /\ booking \in {"confirmed", "waiting", "no_show"} => payment \in GrossPaidStatuses
  /\ booking = "expired" => payment \in {"failed", "expired", "cancelled"}
  /\ booking = "cancelled" => payment \in {"cancelled"} \cup GrossPaidStatuses

\* The provider is asked for one refund of a payment at a time.
OneRefundInFlight == \A r, q \in InStatus(refunds, "refund_pending") : r = q

\* The payment's status is the one its refund rows imply, although it is
\* written from a status read before the lock; a payment that was never paid
\* has at most the one late refund.
RefundsMatchPayment ==
  /\ payment \in GrossPaidStatuses => payment = StatusAfterRefunds(refunds)
  /\ payment \notin GrossPaidStatuses =>
       \A r, q \in RefundIds \ InStatus(refunds, "none") :
         r = q /\ refunds[r].reason = "late_payment"

StillTrue(w) ==
  /\ w.pc = "create_save" => charge.status # "none"
  /\ w.pc = "no_show_tx" => payment \in GrossPaidStatuses
  /\ w.pc = "cancel_tx" => w.seen \in {"pending_payment", "confirmed"}
  /\ w.pc = "refund_tx" /\ w.reason # "late_payment" => payment \in GrossPaidStatuses

\* What a handler knew before its transaction is still good enough when it
\* writes: rows it saw paid stay paid for, and a reference is only kept for a
\* charge the provider has.
MemoryHolds ==
  /\ reference => charge.status # "none"
  /\ \A h \in Handlers : StillTrue(work[h])

Unpaid == payment \in {"failed", "expired", "cancelled"}

PaidInFull == charge = [status |-> "paid", amount |-> Amount]

Success(e) == e.status = "paid" /\ e.amount = Amount

Used(r) == refunds[r].status # "none"

StillBacked(w) ==
  /\ w.pc \in {"create_call", "create_save"} => payment # "none"
  /\ w.pc = "apply" => (Success(w.event) => PaidInFull)
  /\ w.pc = "late" \/ (w.pc = "refund_tx" /\ w.reason = "late_payment") =>
       /\ w.amount = Amount /\ PaidInFull
       /\ \/ Unpaid
          \/ payment \in GrossPaidStatuses /\ \E r \in RefundIds : Used(r)
  /\ w.pc = "refund_tx" /\ w.reason # "late_payment" =>
       w.amount > 0 /\ w.seen \in RefundableStatuses
  /\ w.pc \in {"settle_call", "settle_tx"} =>
       Used(w.row) /\ (w.skip => Unpaid)

\* A status that says paid, a success that is reported and a refund a handler
\* has in hand are all backed by the provider's own charge, however long ago
\* the handler read what it goes by; no row is opened on a payment that is still
\* awaited, and a settlement that leaves the payment's status alone belongs to a
\* payment that was never paid.
MoneyIsBacked ==
  /\ reference => payment # "none"
  /\ \A r \in RefundIds : Used(r) => refunds[r].amount > 0
  /\ payment \in {"none", "pending"} => \A r \in RefundIds : ~Used(r)
  /\ payment \in GrossPaidStatuses => PaidInFull
  /\ \A e \in emitted : Success(e) => PaidInFull
  /\ \A h \in Handlers : StillBacked(work[h])

\* A success the provider reported with the right amount is never swallowed:
\* it paid the booking or it stays visible as a manual review.
NoSuccessSwallowed ==
  \A e \in Event :
    events[e] # "none" /\ e.status = "paid" /\ e.amount = Amount =>
      payment \in GrossPaidStatuses \/ events[e] = "manual_review"

\* The rows implement the ledger: money is given back only after the provider
\* took it, one refund at a time, never more than was taken.
Ledger == INSTANCE PaymentLedger WITH
  received  <- IF PaidInFull THEN Amount ELSE 0,
  refunding <- SumOf(refunds, InStatus(refunds, "refund_pending")),
  returned  <- SumOf(refunds, InStatus(refunds, "refunded"))

LedgerImplemented == Ledger!LedgerSpec

BookingMoves ==
  booking' # booking /\ booking # "none" =>
    \/ CanTransition(booking, booking')
    \/ CheckIn
    \/ \E h \in Handlers : MarkNoShow(h)

\* A booking moves along the booking table, whatever handler wins, though most
\* of its writes are by id and unconditional.  Check-in makes two hops in one
\* write; the write of a no-show is left out: markNoShowBooking decides on a
\* status it read before, so it may overwrite a cancellation that came between.
BookingLifecycle == [][BookingMoves]_vars

PaymentMoves ==
  payment' # payment /\ payment # "none" => CanTransitionPayment(payment, payment')

\* A payment moves along the payment table, though a refund decides from a
\* status it read before the lock and a settlement takes whatever status the
\* refund rows imply.
PaymentLifecycle == [][PaymentMoves]_vars

\* A cancellation by the business gives back everything the customer paid
\* online, once its request has run to its end.
StaffCancellationRefundsAll ==
  cancelledBy = "staff" /\ payment \in GrossPaidStatuses
    /\ (\A h \in Handlers : Free(h)) => Available(refunds) = 0

\* A refund the provider has not settled is settled in the end, crashes or not.
RefundsSettle ==
  \A r \in RefundIds :
    refunds[r].status = "refund_pending" ~> refunds[r].status = "refunded"

\* A slot does not wait for its payment for ever.
PendingIsResolved == payment = "pending" ~> payment # "pending"

\* What the provider took is given back when the slot was gone (ADR 0040).
LateSuccessRefunded ==
  (Unpaid /\ PaidInFull) ~> (\E r \in RefundIds : refunds[r].reason = "late_payment")

=============================================================================
