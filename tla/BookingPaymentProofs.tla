------------------------ MODULE BookingPaymentProofs ------------------------
(***************************************************************************)
(* Theorems about BookingPayment, for every amount, every set of handlers  *)
(* and refund rows, and any number of crashes.                             *)
(***************************************************************************)
EXTENDS BookingPayment, FiniteSetTheorems, TLAPS

-----------------------------------------------------------------------------
(* Type correctness.                                                       *)

\* What the policy gives back is a part of what was paid.
LEMMA RefundAmountBounded ==
  ASSUME TypeOK
  PROVE  RefundAmount(NetOnlinePaid) \in 0..Amount /\ NetOnlinePaid \in 0..Amount
<1>1. RefundPercentage \in 0..100
  BY AmountAssumption DEF TypeOK, Phases, RefundPercentage
<1>2. \A p \in 0..100 : (Amount * p) \div 100 \in 0..Amount
  <2>1. TAKE p \in 0..100
  <2>2. Amount * p >= 0 /\ Amount * p <= Amount * 100
    BY AmountAssumption
  <2>3. Amount * p \in Int
    BY AmountAssumption
  <2> DEFINE x == Amount * p
  <2>4. x \in Int /\ 0 <= x /\ x <= Amount * 100
    BY <2>2, <2>3
  <2> HIDE DEF x
  <2>5. x \div 100 \in 0..Amount
    BY <2>4, AmountAssumption
  <2>6. QED
    BY <2>5 DEF x
<1>3. \A p \in 0..100 : (0 * p) \div 100 \in 0..Amount
  BY AmountAssumption
<1>4. QED
  BY <1>1, <1>2, <1>3, AmountAssumption DEF RefundAmount, NetOnlinePaid

LEMMA WorkAt ==
  ASSUME TypeOK, NEW h \in Handlers
  PROVE  /\ At(h, "apply") => work[h].event \in Event
         /\ At(h, "late") => work[h].amount \in 0..Amount
         /\ At(h, "cancel_tx") =>
              /\ work[h].seen \in BookingStatuses
              /\ work[h].by \in {"customer", "staff"}
              /\ work[h].amount \in 0..Amount
         /\ At(h, "cancel_refund") => work[h].amount \in 0..Amount
         /\ At(h, "refund_tx") =>
              /\ work[h].seen \in PaymentStatuses \cup {"none"}
              /\ work[h].amount \in 0..Amount
              /\ work[h].reason \in {"request", "cancellation", "late_payment"}
         /\ At(h, "settle_call") \/ At(h, "settle_tx") =>
              work[h] \in [pc: {"settle_call", "settle_tx"}, row: RefundIds,
                           skip: BOOLEAN]
<1>1. work[h] \in Work
  BY DEF TypeOK
<1>2. QED
  BY <1>1 DEF Work, Idle, At

LEMMA GotoType ==
  ASSUME TypeOK, NEW h \in Handlers, NEW w \in Work, Goto(h, w)
  PROVE  work' \in [Handlers -> Work]
BY DEF TypeOK, Goto

LEMMA IdleIsWork == Idle \in Work
BY DEF Work

\* A step of any handler, or of none, keeps every variable in its type.
LEMMA TypePreserved ==
  ASSUME TypeOK, MemoryHolds, [Next]_vars
  PROVE  TypeOK'
<1> USE IdleIsWork DEF rows, provider, clock
<1>1. ASSUME NEW h \in Handlers, CreateBooking(h) PROVE TypeOK'
  <2>1. [pc |-> "create_call"] \in Work
    BY DEF Work
  <2>2. work' \in [Handlers -> Work]
    BY <1>1, <2>1, GotoType DEF CreateBooking
  <2>3. QED
    BY <1>1, <2>2 DEF CreateBooking, TypeOK, BookingStatuses, PaymentStatuses
<1>2. ASSUME NEW h \in Handlers, ResumeBooking(h) PROVE TypeOK'
  <2>1. [pc |-> "create_call"] \in Work
    BY DEF Work
  <2>2. work' \in [Handlers -> Work]
    BY <1>2, <2>1, GotoType DEF ResumeBooking
  <2>3. QED
    BY <1>2, <2>2 DEF ResumeBooking, TypeOK
<1>3. ASSUME NEW h \in Handlers, ProviderCreates(h) PROVE TypeOK'
  <2>1. [pc |-> "create_save"] \in Work
    BY DEF Work
  <2>2. work' \in [Handlers -> Work]
    BY <1>3, <2>1, GotoType DEF ProviderCreates
  <2>3. QED
    BY <1>3, <2>2, AmountAssumption DEF ProviderCreates, TypeOK, ProviderStatuses
<1>4. ASSUME NEW h \in Handlers, ProviderRefusesCreate(h) PROVE TypeOK'
  <2>1. work' \in [Handlers -> Work]
    BY <1>4, GotoType DEF ProviderRefusesCreate
  <2>2. QED
    BY <1>4, <2>1 DEF ProviderRefusesCreate, TypeOK
<1>5. ASSUME NEW h \in Handlers, SaveReference(h) PROVE TypeOK'
  <2>1. work' \in [Handlers -> Work]
    BY <1>5, GotoType DEF SaveReference
  <2>2. QED
    BY <1>5, <2>1 DEF SaveReference, TypeOK
<1>6. ASSUME NEW h \in Handlers, NEW e \in Event, Apply(h, e),
             UNCHANGED <<cancelledBy, reference, refunds, provider, clock, crashes>>
      PROVE  TypeOK'
  <2>1. EffectOf(e) = "late" => [pc |-> "late", amount |-> e.amount] \in Work
    BY AmountAssumption DEF EffectOf, Work
  <2>2. work' \in [Handlers -> Work]
    BY <1>6, <2>1, GotoType DEF Apply
  <2>3. ProcessingStatus(EffectOf(e)) \in {"processed", "ignored", "manual_review"}
    BY DEF ProcessingStatus
  <2>4. events' \in [Event -> {"none", "processed", "ignored", "manual_review"}]
    BY <1>6, <2>3 DEF Apply, TypeOK
  <2>5. EffectOf(e) = "released" => e.status \in PaymentStatuses
    BY AmountAssumption DEF EffectOf, Event, ProviderStatuses, PaymentStatuses
  <2>6. payment' \in PaymentStatuses \cup {"none"}
    BY <1>6, <2>5 DEF Apply, TypeOK, PaymentStatuses
  <2>7. booking' \in BookingStatuses \cup {"none"}
    BY <1>6 DEF Apply, TypeOK, BookingStatuses
  <2>8. reservation' \in BOOLEAN
    BY <1>6 DEF Apply
  <2>9. QED
    BY <1>6, <2>2, <2>4, <2>6, <2>7, <2>8 DEF TypeOK
<1>7. ASSUME NEW h \in Handlers, NEW e \in Event, DeliverWebhook(h, e) PROVE TypeOK'
  BY <1>6, <1>7 DEF DeliverWebhook
<1>8. ASSUME reference PROVE PollResult \in Event
  BY <1>8 DEF MemoryHolds, TypeOK, PollResult, Event
<1>9. ASSUME NEW h \in Handlers, RefreshPayment(h) \/ ReconcilePayment(h) PROVE TypeOK'
  <2>1. [pc |-> "apply", event |-> PollResult] \in Work
    BY <1>8, <1>9 DEF RefreshPayment, ReconcilePayment, Work
  <2>2. work' \in [Handlers -> Work]
    BY <1>9, <2>1, GotoType DEF RefreshPayment, ReconcilePayment
  <2>3. QED
    BY <1>9, <2>2 DEF RefreshPayment, ReconcilePayment, TypeOK
<1>10. ASSUME NEW h \in Handlers, ApplyPolled(h) PROVE TypeOK'
  <2>1. work[h].event \in Event
    BY <1>10, WorkAt DEF ApplyPolled
  <2>2. CASE events[work[h].event] = "none"
    BY <1>6, <1>10, <2>1, <2>2 DEF ApplyPolled
  <2>3. CASE events[work[h].event] # "none"
    <3>1. work' \in [Handlers -> Work]
      BY <1>10, <2>3, GotoType DEF ApplyPolled
    <3>2. QED
      BY <1>10, <2>3, <3>1 DEF ApplyPolled, TypeOK
  <2>4. QED
    BY <2>2, <2>3
<1>11. CASE ExpirePayment
  BY <1>11 DEF ExpirePayment, TypeOK, BookingStatuses, PaymentStatuses
<1>12. ASSUME NEW h \in Handlers, NEW a \in 1..Amount, RequestRefund(h, a) PROVE TypeOK'
  <2>1. [pc |-> "refund_tx", seen |-> payment, amount |-> a, reason |-> "request"]
          \in Work
    BY <1>12, AmountAssumption DEF RequestRefund, RefundableStatuses, PaymentStatuses, Work
  <2>2. work' \in [Handlers -> Work]
    BY <1>12, <2>1, GotoType DEF RequestRefund
  <2>3. QED
    BY <1>12, <2>2 DEF RequestRefund, TypeOK
<1>13. ASSUME NEW h \in Handlers, RefundLatePayment(h) PROVE TypeOK'
  <2>1. [pc |-> "refund_tx", seen |-> payment, amount |-> work[h].amount,
         reason |-> "late_payment"] \in Work
    BY <1>13, WorkAt DEF RefundLatePayment, TypeOK, Work
  <2>2. work' \in [Handlers -> Work]
    BY <1>13, <2>1, GotoType DEF RefundLatePayment
  <2>3. QED
    BY <1>13, <2>2 DEF RefundLatePayment, TypeOK
<1>14. ASSUME NEW h \in Handlers, ExecuteRefund(h) PROVE TypeOK'
  <2>1. work[h].amount \in 0..Amount
        /\ work[h].reason \in {"request", "cancellation", "late_payment"}
    BY <1>14, WorkAt DEF ExecuteRefund
  <2>2. CASE RefundRefused(work[h].amount)
    <3>1. work' \in [Handlers -> Work]
      BY <1>14, <2>2, GotoType DEF ExecuteRefund
    <3>2. QED
      BY <1>14, <2>2, <3>1 DEF ExecuteRefund, TypeOK
  <2>3. ASSUME ~RefundRefused(work[h].amount), NEW r \in InStatus(refunds, "none"),
               refunds' = [refunds EXCEPT ![r] =
                 [status |-> "refund_pending", amount |-> work[h].amount,
                  reason |-> work[h].reason]],
               payment' = "refund_pending" \/ payment' = payment,
               Goto(h, [pc |-> "settle_call", row |-> r,
                        skip |-> work[h].reason = "late_payment"])
        PROVE  TypeOK'
    <3>1. r \in RefundIds
      BY DEF InStatus
    <3>2. [pc |-> "settle_call", row |-> r,
           skip |-> work[h].reason = "late_payment"] \in Work
      BY <3>1 DEF Work
    <3>3. work' \in [Handlers -> Work]
      BY <2>3, <3>2, GotoType
    <3>4. refunds' \in [RefundIds -> Refund]
      BY <2>1, <2>3, <3>1 DEF TypeOK, Refund
    <3>5. payment' \in PaymentStatuses \cup {"none"}
      BY <2>3 DEF TypeOK, PaymentStatuses
    <3>6. QED
      BY <1>14, <3>3, <3>4, <3>5 DEF ExecuteRefund, TypeOK
  <2>4. QED
    BY <1>14, <2>2, <2>3 DEF ExecuteRefund
<1>15. ASSUME NEW h \in Handlers, ProviderRefunds(h) \/ ProviderDefersRefund(h)
       PROVE  TypeOK'
  <2>1. At(h, "settle_call") => [work[h] EXCEPT !.pc = "settle_tx"] \in Work
    BY WorkAt DEF Work
  <2>2. work' \in [Handlers -> Work]
    BY <1>15, <2>1, GotoType DEF ProviderRefunds, ProviderDefersRefund
  <2>3. QED
    BY <1>15, <2>2 DEF ProviderRefunds, ProviderDefersRefund, TypeOK
<1>16. ASSUME NEW h \in Handlers, SettleRefund(h) PROVE TypeOK'
  <2>1. work' \in [Handlers -> Work]
    BY <1>16, GotoType DEF SettleRefund
  <2>2. work[h].row \in RefundIds
    BY <1>16, WorkAt DEF SettleRefund
  <2>3. [refunds EXCEPT ![work[h].row].status = "refunded"] \in [RefundIds -> Refund]
    BY <2>2 DEF TypeOK, Refund
  <2>4. refunds' \in [RefundIds -> Refund]
    BY <1>16, <2>3 DEF SettleRefund, TypeOK
  <2>5. \A rf : StatusAfterRefunds(rf) \in PaymentStatuses
    BY DEF StatusAfterRefunds, PaymentStatuses
  <2>6. payment' \in PaymentStatuses \cup {"none"}
    BY <1>16, <2>5 DEF SettleRefund, TypeOK
  <2>7. QED
    BY <1>16, <2>1, <2>4, <2>6 DEF SettleRefund, TypeOK
<1>17. ASSUME NEW h \in Handlers, NEW r \in RefundIds, ReconcileRefund(h, r)
       PROVE  TypeOK'
  <2>1. [pc |-> "settle_call", row |-> r, skip |-> payment # "refund_pending"] \in Work
    BY DEF Work
  <2>2. work' \in [Handlers -> Work]
    BY <1>17, <2>1, GotoType DEF ReconcileRefund
  <2>3. QED
    BY <1>17, <2>2 DEF ReconcileRefund, TypeOK
<1>18. ASSUME NEW h \in Handlers, NEW by \in {"customer", "staff"}, RequestCancel(h, by)
       PROVE  TypeOK'
  <2> DEFINE w == [pc |-> "cancel_tx", seen |-> booking, by |-> by,
                   amount |-> IF by = "staff" THEN NetOnlinePaid
                              ELSE RefundAmount(NetOnlinePaid)]
  <2>1. booking \in BookingStatuses
    BY <1>18 DEF RequestCancel, BookingStatuses
  <2>2. w \in Work
    BY <2>1, RefundAmountBounded DEF Work
  <2>3. Goto(h, w)
    BY <1>18 DEF RequestCancel
  <2>4. work' \in [Handlers -> Work]
    BY <2>2, <2>3, GotoType
  <2>5. QED
    BY <1>18, <2>4 DEF RequestCancel, TypeOK
<1>19. ASSUME NEW h \in Handlers, CancelBooking(h) PROVE TypeOK'
  <2>1. work[h].by \in {"customer", "staff"} /\ work[h].amount \in 0..Amount
    BY <1>19, WorkAt DEF CancelBooking
  <2>2. [pc |-> "cancel_refund", amount |-> work[h].amount] \in Work
    BY <2>1 DEF Work
  <2>3. work' \in [Handlers -> Work]
    BY <1>19, <2>2, GotoType DEF CancelBooking
  <2>4. /\ booking' \in {"cancelled", booking}
        /\ cancelledBy' \in {work[h].by, cancelledBy}
        /\ reservation' = FALSE \/ reservation' = reservation
        /\ payment' \in {"cancelled", payment}
        /\ UNCHANGED <<reference, refunds, events, charge, emitted, overdue, phase,
                      crashes>>
    BY <1>19, Zenon DEF CancelBooking
  <2>5. reservation' \in BOOLEAN
    BY <2>4, Zenon DEF TypeOK
  <2>6. QED
    BY <2>1, <2>3, <2>4, <2>5 DEF TypeOK, BookingStatuses, PaymentStatuses
<1>20. ASSUME NEW h \in Handlers, RefundCancelled(h) PROVE TypeOK'
  <2>1. [pc |-> "refund_tx", seen |-> payment, amount |-> work[h].amount,
         reason |-> "cancellation"] \in Work
    BY <1>20, WorkAt DEF RefundCancelled, TypeOK, Work
  <2>2. work' \in [Handlers -> Work]
    BY <1>20, <2>1, GotoType DEF RefundCancelled
  <2>3. QED
    BY <1>20, <2>2 DEF RefundCancelled, TypeOK
<1>21. CASE CheckIn
  BY <1>21 DEF CheckIn, TypeOK, BookingStatuses
<1>22. ASSUME NEW h \in Handlers, RequestNoShow(h) PROVE TypeOK'
  <2>1. [pc |-> "no_show_tx"] \in Work
    BY DEF Work
  <2>2. work' \in [Handlers -> Work]
    BY <1>22, <2>1, GotoType DEF RequestNoShow
  <2>3. QED
    BY <1>22, <2>2 DEF RequestNoShow, TypeOK
<1>23. ASSUME NEW h \in Handlers, MarkNoShow(h) PROVE TypeOK'
  <2>1. work' \in [Handlers -> Work]
    BY <1>23, GotoType DEF MarkNoShow
  <2>2. QED
    BY <1>23, <2>1 DEF MarkNoShow, TypeOK, BookingStatuses
<1>24. ASSUME NEW s \in Outcomes, NEW a \in PaidAmounts, ProviderSettles(s, a)
       PROVE  TypeOK'
  <2>1. a \in Nat
    BY AmountAssumption
  <2>2. [src |-> "webhook", status |-> s, amount |-> a] \in Event
    BY DEF Event, ProviderStatuses
  <2>3. QED
    BY <1>24, <2>1, <2>2 DEF ProviderSettles, TypeOK, ProviderStatuses
<1>25. CASE PaymentDeadlinePasses
  BY <1>25 DEF PaymentDeadlinePasses, TypeOK
<1>26. CASE TimePasses
  BY <1>26 DEF TimePasses, TypeOK, Phases
<1>27. ASSUME NEW h \in Handlers, Crash(h) PROVE TypeOK'
  <2>1. work' \in [Handlers -> Work]
    BY <1>27, GotoType DEF Crash
  <2>2. crashes' \in 0..MaxCrashes
    BY <1>27, AmountAssumption DEF Crash, TypeOK
  <2>3. QED
    BY <1>27, <2>1, <2>2 DEF Crash, TypeOK
<1>28. CASE UNCHANGED vars
  BY <1>28 DEF vars, TypeOK
<1>29. QED
  BY <1>1, <1>2, <1>3, <1>4, <1>5, <1>7, <1>9, <1>10, <1>11, <1>12, <1>13, <1>14,
     <1>15, <1>16, <1>17, <1>18, <1>19, <1>20, <1>21, <1>22, <1>23, <1>24, <1>25,
     <1>26, <1>27, <1>28 DEF Next, Begin, Continue

-----------------------------------------------------------------------------
(* The booking, its slot, its payment and what handlers remember of them.  *)

\* The inductive invariant: each part needs the others.  A no-show written by a
\* stale handler keeps the payment consistent only because that handler saw a
\* paid booking (MemoryHolds); the success of an event confirms a booking only
\* because booking and payment wait together (PaymentMatchesBooking).
Consistent == SlotHeldIffBlocking /\ PaymentMatchesBooking /\ MemoryHolds

IInv == TypeOK /\ Consistent

\* Money that was received is never forgotten by a status.
PaidStays == payment \in GrossPaidStatuses => payment' \in GrossPaidStatuses

ChargeStays == charge.status # "none" => charge'.status # "none"

LEMMA MemoryKept ==
  ASSUME MemoryHolds, TypeOK, NEW h \in Handlers, NEW w, Goto(h, w), PaidStays,
         ChargeStays, reference' => charge'.status # "none", StillTrue(w)'
  PROVE  MemoryHolds'
<1>1. ASSUME NEW g \in Handlers PROVE StillTrue(work[g])'
  <2>1. CASE g = h
    BY <2>1 DEF Goto, TypeOK, StillTrue
  <2>2. CASE g # h
    <3>1. work'[g] = work[g]
      BY <2>2 DEF Goto, TypeOK
    <3>2. QED
      BY <3>1 DEF StillTrue, MemoryHolds, PaidStays, ChargeStays
  <2>3. QED
    BY <2>1, <2>2
<1>2. QED
  BY <1>1 DEF MemoryHolds

LEMMA IdleRemembersNothing == StillTrue(Idle)'
BY DEF StillTrue, Idle

\* A handler that only reads, or asks the provider, disturbs nothing but what it
\* remembers itself.
LEMMA ReadStep ==
  ASSUME IInv, NEW h \in Handlers, NEW w, Goto(h, w), UNCHANGED rows, ChargeStays,
         StillTrue(w)'
  PROVE  Consistent'
<1> USE DEF rows
<1>1. SlotHeldIffBlocking' /\ PaymentMatchesBooking'
  BY DEF IInv, Consistent, SlotHeldIffBlocking, PaymentMatchesBooking
<1>2. MemoryHolds'
  BY MemoryKept DEF IInv, Consistent, PaidStays, ChargeStays, MemoryHolds
<1>3. QED
  BY <1>1, <1>2 DEF Consistent

LEMMA ConsistentPreserved ==
  ASSUME IInv, [Next]_vars
  PROVE  Consistent'
<1> USE IdleRemembersNothing DEF provider, clock
<1>1. TypeOK /\ SlotHeldIffBlocking /\ PaymentMatchesBooking /\ MemoryHolds
  BY DEF IInv, Consistent
<1>2. ASSUME NEW h \in Handlers, CreateBooking(h) PROVE Consistent'
  <2>1. payment = "none"
    BY <1>1, <1>2 DEF CreateBooking, PaymentMatchesBooking
  <2>2. MemoryHolds'
    <3>1. StillTrue([pc |-> "create_call"])'
      BY DEF StillTrue
    <3>2. PaidStays /\ ChargeStays /\ (reference' => charge'.status # "none")
      BY <1>1, <1>2, <2>1
      DEF CreateBooking, PaidStays, ChargeStays, GrossPaidStatuses, MemoryHolds
    <3>3. QED
      BY <1>1, <1>2, <3>1, <3>2, MemoryKept DEF CreateBooking
  <2>3. QED
    BY <1>2, <2>2
    DEF CreateBooking, Consistent, SlotHeldIffBlocking, PaymentMatchesBooking,
        BlockingStatuses
<1>3. ASSUME NEW h \in Handlers, ResumeBooking(h) PROVE Consistent'
  <2>1. StillTrue([pc |-> "create_call"])'
    BY DEF StillTrue
  <2>2. QED
    BY <1>3, <2>1, ReadStep DEF ResumeBooking, ChargeStays
<1>6. ASSUME NEW h \in Handlers, ProviderRefusesCreate(h) \/ ProviderDefersRefund(h)
      PROVE  Consistent'
  <2>1. Goto(h, Idle) /\ UNCHANGED rows /\ ChargeStays
    BY <1>6 DEF ProviderRefusesCreate, ProviderDefersRefund, ChargeStays
  <2>2. QED
    BY <2>1, ReadStep
<1>7. ASSUME NEW h \in Handlers, ProviderRefunds(h) PROVE Consistent'
  <2>1. PICK w : w = [work[h] EXCEPT !.pc = "settle_tx"]
    OBVIOUS
  <2>2. w.pc = "settle_tx"
    BY <1>1, <1>7, <2>1, WorkAt DEF ProviderRefunds
  <2>3. Goto(h, w) /\ UNCHANGED rows /\ ChargeStays
    BY <1>7, <2>1 DEF ProviderRefunds, ChargeStays
  <2>4. StillTrue(w)'
    BY <2>2 DEF StillTrue
  <2>5. QED
    BY <2>3, <2>4, ReadStep
<1>4. ASSUME NEW h \in Handlers, ProviderCreates(h) PROVE Consistent'
  <2>1. charge'.status # "none"
    BY <1>4 DEF ProviderCreates
  <2>2. StillTrue([pc |-> "create_save"])'
    BY <2>1 DEF StillTrue
  <2>3. QED
    BY <1>4, <2>1, <2>2, ReadStep DEF ProviderCreates, ChargeStays
<1>5. ASSUME NEW h \in Handlers, SaveReference(h) PROVE Consistent'
  <2>1. charge.status # "none"
    BY <1>1, <1>5 DEF SaveReference, At, MemoryHolds, StillTrue
  <2>2. MemoryHolds'
    BY <1>1, <1>5, <2>1, MemoryKept DEF SaveReference, PaidStays, ChargeStays
  <2>3. QED
    BY <1>1, <1>5, <2>2
    DEF SaveReference, Consistent, SlotHeldIffBlocking, PaymentMatchesBooking
<1>8. ASSUME NEW h \in Handlers, NEW e \in Event, Apply(h, e),
             UNCHANGED <<cancelledBy, reference, refunds, provider, clock, crashes>>
      PROVE  Consistent'
  <2>1. EffectOf(e) = "paid" => payment = "pending" /\ booking = "pending_payment"
    BY <1>1
    DEF EffectOf, Honoured, CanTransitionPayment, PaymentTransitions,
        PaymentMatchesBooking
  <2>2. EffectOf(e) = "released" =>
          /\ payment = "pending" /\ booking = "pending_payment"
          /\ e.status \in {"failed", "expired", "cancelled"}
    <3>1. SUFFICES ASSUME EffectOf(e) = "released"
                   PROVE  /\ payment = "pending"
                          /\ e.status \in {"failed", "expired", "cancelled"}
      BY <1>1 DEF PaymentMatchesBooking
    <3>2. /\ e.status \notin {"pending", "paid"}
          /\ CanTransitionPayment(payment, e.status)
      BY <3>1 DEF EffectOf
    <3>3. e.status \in {"failed", "expired", "cancelled"}
      BY <3>2, AmountAssumption DEF Event, ProviderStatuses
    <3>4. QED
      BY <3>2, <3>3 DEF CanTransitionPayment, PaymentTransitions
  <2>3. CASE EffectOf(e) = "paid"
    <3>1. payment' = "paid" /\ booking' = "confirmed" /\ (reservation' <=> reservation)
      BY <1>8, <2>1, <2>3 DEF Apply
    <3>2. SlotHeldIffBlocking' /\ PaymentMatchesBooking'
      BY <1>1, <2>1, <2>3, <3>1
      DEF SlotHeldIffBlocking, PaymentMatchesBooking, BlockingStatuses,
          GrossPaidStatuses
    <3>3. Goto(h, Idle)
      BY <1>8, <2>3 DEF Apply
    <3>4. MemoryHolds'
      BY <1>1, <1>8, <3>1, <3>3, MemoryKept
      DEF PaidStays, ChargeStays, GrossPaidStatuses, MemoryHolds
    <3>5. QED
      BY <3>2, <3>4 DEF Consistent
  <2>4. CASE EffectOf(e) = "released"
    <3>1. payment' = e.status /\ booking' = "expired" /\ ~reservation'
      BY <1>8, <2>2, <2>4 DEF Apply
    <3>2. SlotHeldIffBlocking' /\ PaymentMatchesBooking'
      BY <1>1, <2>2, <2>4, <3>1
      DEF SlotHeldIffBlocking, PaymentMatchesBooking, BlockingStatuses,
          GrossPaidStatuses
    <3>3. Goto(h, Idle)
      BY <1>8, <2>4 DEF Apply
    <3>4. PaidStays
      BY <2>2, <2>4 DEF PaidStays, GrossPaidStatuses
    <3>5. MemoryHolds'
      BY <1>1, <1>8, <3>3, <3>4, MemoryKept DEF ChargeStays, MemoryHolds
    <3>6. QED
      BY <3>2, <3>5 DEF Consistent
  <2>5. CASE EffectOf(e) \notin {"paid", "released"}
    <3>1. payment' = payment /\ booking' = booking /\ (reservation' <=> reservation)
      BY <1>8, <2>5 DEF Apply
    <3>2. StillTrue([pc |-> "late", amount |-> e.amount])'
      BY DEF StillTrue
    <3>3. \E w : Goto(h, w) /\ StillTrue(w)'
      BY <1>8, <3>2 DEF Apply
    <3>4. MemoryHolds'
      BY <1>1, <1>8, <3>1, <3>3, MemoryKept DEF PaidStays, ChargeStays, MemoryHolds
    <3>5. QED
      BY <1>1, <3>1, <3>4 DEF Consistent, SlotHeldIffBlocking, PaymentMatchesBooking
  <2>6. QED
    BY <2>3, <2>4, <2>5
<1>9. ASSUME NEW h \in Handlers, NEW e \in Event, DeliverWebhook(h, e)
      PROVE  Consistent'
  BY <1>8, <1>9 DEF DeliverWebhook
<1>10. ASSUME NEW h \in Handlers, RefreshPayment(h) \/ ReconcilePayment(h)
       PROVE  Consistent'
  <2>1. PICK e : e = PollResult
    OBVIOUS
  <2>2. StillTrue([pc |-> "apply", event |-> e])'
    BY DEF StillTrue
  <2>3. QED
    BY <1>10, <2>1, <2>2, ReadStep DEF RefreshPayment, ReconcilePayment, ChargeStays
<1>11. ASSUME NEW h \in Handlers, ApplyPolled(h) PROVE Consistent'
  <2>1. work[h].event \in Event
    BY <1>1, <1>11, WorkAt DEF ApplyPolled
  <2>2. CASE events[work[h].event] = "none"
    BY <1>8, <1>11, <2>1, <2>2 DEF ApplyPolled
  <2>3. CASE events[work[h].event] # "none"
    BY <1>11, <2>3, ReadStep DEF ApplyPolled, rows, ChargeStays
  <2>4. QED
    BY <2>2, <2>3
<1>12. CASE ExpirePayment
  <2>1. booking = "pending_payment" /\ payment = "pending"
    BY <1>1, <1>12 DEF ExpirePayment, Due, PaymentMatchesBooking
  <2>2. booking' = "expired" /\ payment' = "expired" /\ ~reservation'
    BY <1>12, <2>1 DEF ExpirePayment
  <2>3. PaidStays /\ ChargeStays /\ UNCHANGED <<work, reference, charge>>
    BY <1>12, <2>1 DEF ExpirePayment, PaidStays, ChargeStays, GrossPaidStatuses
  <2>4. QED
    BY <1>1, <2>1, <2>2, <2>3
    DEF Consistent, SlotHeldIffBlocking, PaymentMatchesBooking, BlockingStatuses,
        GrossPaidStatuses, MemoryHolds, StillTrue, PaidStays
<1>13. ASSUME NEW h \in Handlers, NEW a \in 1..Amount, RequestRefund(h, a)
       PROVE  Consistent'
  <2>1. PICK w : w = [pc |-> "refund_tx", seen |-> payment, amount |-> a,
                      reason |-> "request"]
    OBVIOUS
  <2>2. StillTrue(w)'
    BY <1>13, <2>1
    DEF RequestRefund, StillTrue, rows, RefundableStatuses, GrossPaidStatuses
  <2>3. QED
    BY <1>13, <2>1, <2>2, ReadStep DEF RequestRefund, ChargeStays
<1>14. ASSUME NEW h \in Handlers, RefundLatePayment(h) PROVE Consistent'
  <2>1. PICK w : w = [pc |-> "refund_tx", seen |-> payment,
                      amount |-> work[h].amount, reason |-> "late_payment"]
    OBVIOUS
  <2>2. StillTrue(w)'
    BY <2>1 DEF StillTrue
  <2>3. (Goto(h, w) \/ Goto(h, Idle)) /\ UNCHANGED rows /\ ChargeStays
    BY <1>14, <2>1 DEF RefundLatePayment, ChargeStays
  <2>4. QED
    BY <2>2, <2>3, ReadStep
<1>15. ASSUME NEW h \in Handlers, ExecuteRefund(h) PROVE Consistent'
  <2>1. payment' # payment => payment \in GrossPaidStatuses /\ payment' = "refund_pending"
    <3>1. payment' # payment => /\ work[h].reason # "late_payment"
                                /\ payment' = "refund_pending"
      BY <1>15 DEF ExecuteRefund
    <3>2. QED
      BY <1>1, <1>15, <3>1 DEF ExecuteRefund, At, MemoryHolds, StillTrue
  <2>2. PaidStays /\ ChargeStays
    BY <1>15, <2>1 DEF ExecuteRefund, PaidStays, ChargeStays, GrossPaidStatuses
  <2>3. \E w : Goto(h, w) /\ StillTrue(w)'
    <3>1. \A r, skip : StillTrue([pc |-> "settle_call", row |-> r, skip |-> skip])'
      BY DEF StillTrue
    <3>2. QED
      BY <1>15, <3>1 DEF ExecuteRefund
  <2>4. UNCHANGED <<booking, reservation, reference, charge>>
    BY <1>15 DEF ExecuteRefund
  <2>5. MemoryHolds'
    BY <1>1, <2>2, <2>3, <2>4, MemoryKept DEF MemoryHolds
  <2>6. SlotHeldIffBlocking' /\ PaymentMatchesBooking'
    BY <1>1, <2>1, <2>4
    DEF SlotHeldIffBlocking, PaymentMatchesBooking, GrossPaidStatuses
  <2>7. QED
    BY <2>5, <2>6 DEF Consistent
<1>16. ASSUME NEW h \in Handlers, SettleRefund(h) PROVE Consistent'
  <2>1. \A rf : StatusAfterRefunds(rf) \in GrossPaidStatuses
    BY DEF StatusAfterRefunds, GrossPaidStatuses
  <2>2. payment' # payment => payment \in GrossPaidStatuses /\ payment' \in GrossPaidStatuses
    BY <1>16, <2>1 DEF SettleRefund, AggregateFrom, GrossPaidStatuses
  <2>3. PaidStays /\ ChargeStays /\ Goto(h, Idle)
        /\ UNCHANGED <<booking, reservation, reference, charge>>
    BY <1>16, <2>2 DEF SettleRefund, PaidStays, ChargeStays
  <2>4. MemoryHolds'
    BY <1>1, <2>3, MemoryKept DEF MemoryHolds
  <2>5. SlotHeldIffBlocking' /\ PaymentMatchesBooking'
    BY <1>1, <2>2, <2>3
    DEF SlotHeldIffBlocking, PaymentMatchesBooking, GrossPaidStatuses
  <2>6. QED
    BY <2>4, <2>5 DEF Consistent
<1>17. ASSUME NEW h \in Handlers, NEW r \in RefundIds, ReconcileRefund(h, r)
       PROVE  Consistent'
  <2>1. PICK w : w = [pc |-> "settle_call", row |-> r,
                      skip |-> payment # "refund_pending"]
    OBVIOUS
  <2>2. StillTrue(w)'
    BY <2>1 DEF StillTrue
  <2>3. QED
    BY <1>17, <2>1, <2>2, ReadStep DEF ReconcileRefund, ChargeStays
<1>18. ASSUME NEW h \in Handlers, NEW by \in {"customer", "staff"}, RequestCancel(h, by)
       PROVE  Consistent'
  <2>1. PICK w : w = [pc |-> "cancel_tx", seen |-> booking, by |-> by,
                      amount |-> IF by = "staff" THEN NetOnlinePaid
                                 ELSE RefundAmount(NetOnlinePaid)]
    OBVIOUS
  <2>2. StillTrue(w)'
    BY <1>18, <2>1 DEF RequestCancel, StillTrue
  <2>3. QED
    BY <1>18, <2>1, <2>2, ReadStep DEF RequestCancel, ChargeStays
<1>19. ASSUME NEW h \in Handlers, CancelBooking(h) PROVE Consistent'
  <2>1. CASE GuardedCancel(work[h])
    <3>1. booking \in {"pending_payment", "confirmed"}
      BY <1>1, <1>19, <2>1 DEF CancelBooking, GuardedCancel, At, MemoryHolds, StillTrue
    <3>2. /\ booking' = "cancelled" /\ ~reservation'
          /\ payment' = IF payment = "pending" THEN "cancelled" ELSE payment
          /\ UNCHANGED <<reference, charge>>
      BY <1>19, <2>1 DEF CancelBooking
    <3>3. PICK w : w = [pc |-> "cancel_refund", amount |-> work[h].amount]
      OBVIOUS
    <3>4. Goto(h, w) /\ StillTrue(w)'
      BY <1>19, <2>1, <3>3 DEF CancelBooking, StillTrue
    <3>5. PaidStays /\ ChargeStays
      BY <3>2 DEF PaidStays, ChargeStays, GrossPaidStatuses
    <3>6. MemoryHolds'
      BY <1>1, <3>2, <3>4, <3>5, MemoryKept DEF MemoryHolds
    <3>7. SlotHeldIffBlocking' /\ PaymentMatchesBooking'
      BY <1>1, <3>1, <3>2
      DEF SlotHeldIffBlocking, PaymentMatchesBooking, BlockingStatuses,
          GrossPaidStatuses
    <3>8. QED
      BY <3>6, <3>7 DEF Consistent
  <2>2. CASE ~GuardedCancel(work[h])
    <3>1. Goto(h, Idle) /\ UNCHANGED rows /\ ChargeStays
      BY <1>19, <2>2 DEF CancelBooking, rows, ChargeStays
    <3>2. QED
      BY <3>1, ReadStep
  <2>3. QED
    BY <2>1, <2>2
<1>20. ASSUME NEW h \in Handlers, RefundCancelled(h) PROVE Consistent'
  <2>1. PICK w : w = [pc |-> "refund_tx", seen |-> payment,
                      amount |-> work[h].amount, reason |-> "cancellation"]
    OBVIOUS
  <2>2. payment \in RefundableStatuses /\ UNCHANGED rows => StillTrue(w)'
    BY <2>1 DEF StillTrue, rows, RefundableStatuses, GrossPaidStatuses
  <2>3. /\ \/ Goto(h, w) /\ payment \in RefundableStatuses
           \/ Goto(h, Idle)
        /\ UNCHANGED rows /\ ChargeStays
    BY <1>20, <2>1 DEF RefundCancelled, ChargeStays
  <2>4. QED
    BY <2>2, <2>3, ReadStep
<1>21. CASE CheckIn
  <2>1. PaidStays /\ ChargeStays
    BY <1>21 DEF CheckIn, PaidStays, ChargeStays
  <2>2. QED
    BY <1>1, <1>21, <2>1
    DEF CheckIn, Consistent, SlotHeldIffBlocking, PaymentMatchesBooking,
        BlockingStatuses, MemoryHolds, StillTrue
<1>22. ASSUME NEW h \in Handlers, RequestNoShow(h) PROVE Consistent'
  <2>1. StillTrue([pc |-> "no_show_tx"])'
    BY <1>1, <1>22 DEF RequestNoShow, StillTrue, rows, PaymentMatchesBooking
  <2>2. QED
    BY <1>22, <2>1, ReadStep DEF RequestNoShow, ChargeStays
<1>23. ASSUME NEW h \in Handlers, MarkNoShow(h) PROVE Consistent'
  <2>1. payment \in GrossPaidStatuses
    BY <1>1, <1>23 DEF MarkNoShow, At, MemoryHolds, StillTrue
  <2>2. MemoryHolds'
    BY <1>1, <1>23, MemoryKept DEF MarkNoShow, PaidStays, ChargeStays, MemoryHolds
  <2>3. QED
    BY <1>1, <1>23, <2>1, <2>2
    DEF MarkNoShow, Consistent, SlotHeldIffBlocking, PaymentMatchesBooking,
        BlockingStatuses, GrossPaidStatuses
<1>24. ASSUME NEW s \in Outcomes, NEW a \in PaidAmounts, ProviderSettles(s, a)
       PROVE  Consistent'
  <2>1. charge'.status # "none"
    BY <1>24, AmountAssumption DEF ProviderSettles
  <2>2. QED
    BY <1>1, <1>24, <2>1
    DEF ProviderSettles, rows, Consistent, SlotHeldIffBlocking, PaymentMatchesBooking,
        MemoryHolds, StillTrue
<1>25. CASE PaymentDeadlinePasses \/ TimePasses \/ UNCHANGED vars
  BY <1>1, <1>25
  DEF PaymentDeadlinePasses, TimePasses, vars, rows, Consistent, SlotHeldIffBlocking,
      PaymentMatchesBooking, MemoryHolds, StillTrue
<1>26. ASSUME NEW h \in Handlers, Crash(h) PROVE Consistent'
  BY <1>26, ReadStep DEF Crash, ChargeStays
<1>27. QED
  BY <1>2, <1>3, <1>4, <1>5, <1>6, <1>7, <1>9, <1>10, <1>11, <1>12, <1>13, <1>14,
     <1>15, <1>16, <1>17, <1>18, <1>19, <1>20, <1>21, <1>22, <1>23, <1>24, <1>25,
     <1>26 DEF Next, Begin, Continue

LEMMA InitIInv ==
  ASSUME Init
  PROVE  IInv
<1>1. TypeOK
  <2>1. NoRefund \in Refund
    BY AmountAssumption DEF NoRefund, Refund
  <2>2. crashes \in 0..MaxCrashes
    BY AmountAssumption DEF Init
  <2>3. refunds \in [RefundIds -> Refund] /\ work \in [Handlers -> Work]
    BY <2>1, IdleIsWork DEF Init
  <2>4. charge \in [status: ProviderStatuses \cup {"none"}, amount: Nat]
        /\ charge.status = "none"
    BY DEF Init
  <2>5. events \in [Event -> {"none", "processed", "ignored", "manual_review"}]
        /\ emitted \subseteq Event
    BY DEF Init
  <2>6. QED
    BY <2>2, <2>3, <2>4, <2>5
    DEF Init, TypeOK, Phases
<1>2. Consistent
  BY DEF Init, Consistent, SlotHeldIffBlocking, PaymentMatchesBooking, MemoryHolds,
         StillTrue, Idle, BlockingStatuses
<1>3. QED
  BY <1>1, <1>2 DEF IInv

\* The inductive invariant holds in every behaviour.
THEOREM Invariance == Spec => []IInv
<1>1. IInv /\ [Next]_vars => IInv'
  BY TypePreserved, ConsistentPreserved DEF IInv, Consistent
<1>2. QED
  BY InitIInv, <1>1, PTL DEF Spec

\* Every variable keeps its type.
THEOREM TypeCorrect == Spec => []TypeOK
<1>1. IInv => TypeOK
  BY DEF IInv
<1>2. QED
  BY Invariance, <1>1, PTL

\* A slot is held exactly as long as the booking's status blocks it, whatever
\* events, expiry, cancellations and no-shows race for the booking.
THEOREM SlotsAreExact == Spec => []SlotHeldIffBlocking
<1>1. IInv => SlotHeldIffBlocking
  BY DEF IInv, Consistent
<1>2. QED
  BY Invariance, <1>1, PTL

\* The booking and its payment never disagree.
THEOREM PaymentsAgree == Spec => []PaymentMatchesBooking
<1>1. IInv => PaymentMatchesBooking
  BY DEF IInv, Consistent
<1>2. QED
  BY Invariance, <1>1, PTL

\* What a handler saw before its transaction is still good enough in it.
THEOREM MemoryIsSound == Spec => []MemoryHolds
<1>1. IInv => MemoryHolds
  BY DEF IInv, Consistent
<1>2. QED
  BY Invariance, <1>1, PTL

-----------------------------------------------------------------------------
(* What a step may never do.                                               *)

LEMMA GuardedCancelMoves ==
  ASSUME IInv, NEW h \in Handlers, CancelBooking(h), booking' # booking
  PROVE  CanTransition(booking, booking')
<1>1. GuardedCancel(work[h]) /\ booking' = "cancelled"
  BY DEF CancelBooking
<1>2. booking \in {"pending_payment", "confirmed"}
  BY <1>1 DEF CancelBooking, GuardedCancel, At, IInv, Consistent, MemoryHolds, StillTrue
<1>3. QED
  BY <1>1, <1>2 DEF CanTransition, BookingTransitions

LEMMA AppliedEventMoves ==
  ASSUME NEW h \in Handlers, NEW e \in Event, Apply(h, e), booking' # booking
  PROVE  CanTransition(booking, booking')
<1>1. booking = "pending_payment" /\ booking' \in {"confirmed", "expired"}
  BY DEF Apply
<1>2. QED
  BY <1>1 DEF CanTransition, BookingTransitions

\* A booking moves along the booking table; only check-in takes two of its hops
\* at once, and only the write of a no-show does not look.
THEOREM BookingsFollowTheTable == Spec => BookingLifecycle
<1>1. ASSUME IInv, [Next]_vars PROVE BookingMoves
  <2>1. SUFFICES ASSUME booking' # booking, booking # "none",
                        ~CheckIn, \A h \in Handlers : ~MarkNoShow(h)
                 PROVE  CanTransition(booking, booking')
    BY DEF BookingMoves
  <2>2. ASSUME NEW h \in Handlers, Begin(h) PROVE CanTransition(booking, booking')
    <3>1. \A e \in Event : DeliverWebhook(h, e) => Apply(h, e)
      BY DEF DeliverWebhook
    <3>2. CASE \E e \in Event : DeliverWebhook(h, e)
      BY <2>1, <3>1, <3>2, AppliedEventMoves
    <3>3. CASE ~\E e \in Event : DeliverWebhook(h, e)
      BY <2>1, <2>2, <3>3
      DEF Begin, CreateBooking, ResumeBooking, RefreshPayment, ReconcilePayment,
          RequestRefund, ReconcileRefund, RequestCancel, RequestNoShow, rows
    <3>4. QED
      BY <3>2, <3>3
  <2>3. ASSUME NEW h \in Handlers, Continue(h) PROVE CanTransition(booking, booking')
    <3>1. CASE CancelBooking(h)
      BY <1>1, <2>1, <3>1, GuardedCancelMoves
    <3>2. CASE ApplyPolled(h)
      <4>1. work[h].event \in Event
        BY <1>1, <3>2, WorkAt DEF ApplyPolled, IInv
      <4>2. Apply(h, work[h].event)
        BY <2>1, <3>2 DEF ApplyPolled
      <4>3. QED
        BY <2>1, <4>1, <4>2, AppliedEventMoves
    <3>3. CASE ~CancelBooking(h) /\ ~ApplyPolled(h)
      BY <2>1, <2>3, <3>3
      DEF Continue, ProviderCreates, ProviderRefusesCreate, SaveReference,
          RefundLatePayment, ExecuteRefund, ProviderRefunds, ProviderDefersRefund,
          SettleRefund, RefundCancelled, rows
    <3>4. QED
      BY <3>1, <3>2, <3>3
  <2>4. CASE ExpirePayment
    BY <2>1, <2>4 DEF ExpirePayment, CanTransition, BookingTransitions
  <2>5. QED
    BY <1>1, <2>1, <2>2, <2>3, <2>4
    DEF Next, Crash, ProviderSettles, PaymentDeadlinePasses, TimePasses, vars, rows
<1>2. QED
  BY Invariance, <1>1, PTL DEF Spec, BookingLifecycle

-----------------------------------------------------------------------------
(* Money.                                                                  *)

\* The steps that write payments.status.
LEMMA PaymentWriters ==
  ASSUME [Next]_vars, payment' # payment
  PROVE  \/ ExpirePayment
         \/ \E h \in Handlers :
              \/ CreateBooking(h) \/ ExecuteRefund(h) \/ SettleRefund(h)
              \/ CancelBooking(h)
              \/ \E e \in Event : DeliverWebhook(h, e)
              \/ ApplyPolled(h)
BY DEF Next, Begin, Continue, ResumeBooking, RefreshPayment, ReconcilePayment,
       RequestRefund, ReconcileRefund, RequestCancel, RequestNoShow, ProviderCreates,
       ProviderRefusesCreate, SaveReference, RefundLatePayment, ProviderRefunds,
       ProviderDefersRefund, RefundCancelled, MarkNoShow, CheckIn, Crash,
       ProviderSettles, PaymentDeadlinePasses, TimePasses, vars, rows

LEMMA AppliedEventKeepsPaid ==
  ASSUME NEW h \in Handlers, NEW e \in Event, Apply(h, e)
  PROVE  PaidStays
<1>1. CASE EffectOf(e) = "released"
  <2>1. CanTransitionPayment(payment, e.status) /\ e.status \notin {"pending", "paid"}
    BY <1>1 DEF EffectOf
  <2>2. e.status \in {"failed", "expired", "cancelled"}
    BY <2>1, AmountAssumption DEF Event, ProviderStatuses
  <2>3. payment = "pending"
    BY <2>1, <2>2 DEF CanTransitionPayment, PaymentTransitions
  <2>4. QED
    BY <2>3 DEF PaidStays, GrossPaidStatuses
<1>2. CASE EffectOf(e) # "released"
  <2>1. payment' = "paid" \/ payment' = payment
    BY <1>2 DEF Apply
  <2>2. QED
    BY <2>1 DEF PaidStays, GrossPaidStatuses
<1>3. QED
  BY <1>1, <1>2

\* No step turns a paid payment into one that was never paid.
LEMMA PaidIsForever ==
  ASSUME IInv, [Next]_vars
  PROVE  PaidStays
<1>1. SUFFICES ASSUME payment' # payment PROVE PaidStays
  BY DEF PaidStays
<1>2. CASE ExpirePayment
  BY <1>2 DEF ExpirePayment, Due, PaidStays, GrossPaidStatuses
<1>3. ASSUME NEW h \in Handlers, CreateBooking(h) PROVE PaidStays
  BY <1>3
  DEF CreateBooking, IInv, Consistent, PaymentMatchesBooking, PaidStays,
      GrossPaidStatuses
<1>4. ASSUME NEW h \in Handlers, ExecuteRefund(h) PROVE PaidStays
  <2>1. payment' = "refund_pending" \/ payment' = payment
    BY <1>4 DEF ExecuteRefund
  <2>2. QED
    BY <2>1 DEF PaidStays, GrossPaidStatuses
<1>5. ASSUME NEW h \in Handlers, SettleRefund(h) PROVE PaidStays
  <2>1. \A rf : StatusAfterRefunds(rf) \in GrossPaidStatuses
    BY DEF StatusAfterRefunds, GrossPaidStatuses
  <2>2. QED
    BY <1>5, <2>1 DEF SettleRefund, PaidStays
<1>6. ASSUME NEW h \in Handlers, CancelBooking(h) PROVE PaidStays
  <2>1. payment = "pending"
    BY <1>1, <1>6 DEF CancelBooking
  <2>2. QED
    BY <2>1 DEF PaidStays, GrossPaidStatuses
<1>7. ASSUME NEW h \in Handlers, NEW e \in Event, DeliverWebhook(h, e) PROVE PaidStays
  BY <1>7, AppliedEventKeepsPaid DEF DeliverWebhook
<1>8. ASSUME NEW h \in Handlers, ApplyPolled(h) PROVE PaidStays
  <2>1. work[h].event \in Event
    BY <1>8, WorkAt DEF ApplyPolled, IInv
  <2>2. Apply(h, work[h].event)
    BY <1>1, <1>8 DEF ApplyPolled
  <2>3. QED
    BY <2>1, <2>2, AppliedEventKeepsPaid
<1>9. QED
  BY <1>1, <1>2, <1>3, <1>4, <1>5, <1>6, <1>7, <1>8, PaymentWriters

LEMMA AppliedSuccessIsKept ==
  ASSUME IInv, NEW h \in Handlers, NEW e \in Event, Apply(h, e),
         e.status = "paid", e.amount = Amount
  PROVE  payment' \in GrossPaidStatuses \/ events'[e] = "manual_review"
<1>1. events'[e] = ProcessingStatus(EffectOf(e))
  BY DEF Apply, IInv, TypeOK
<1>2. CASE EffectOf(e) \in {"unknown_payment", "late"}
  BY <1>1, <1>2 DEF ProcessingStatus
<1>3. CASE EffectOf(e) = "paid"
  BY <1>3 DEF Apply, GrossPaidStatuses
<1>4. CASE EffectOf(e) = "ignored"
  <2>1. payment = "paid"
    BY <1>4 DEF EffectOf
  <2>2. payment' = payment
    BY <1>4 DEF Apply
  <2>3. QED
    BY <2>1, <2>2 DEF GrossPaidStatuses
<1>5. QED
  BY <1>2, <1>3, <1>4 DEF EffectOf

\* The steps that record an event.
LEMMA EventWriters ==
  ASSUME IInv, [Next]_vars
  PROVE  \/ events' = events
         \/ \E h \in Handlers, e \in Event : Apply(h, e)
<1>1. ASSUME NEW h \in Handlers, ApplyPolled(h), events' # events
      PROVE  \E e \in Event : Apply(h, e)
  <2>1. work[h].event \in Event
    BY <1>1, WorkAt DEF ApplyPolled, IInv
  <2>2. Apply(h, work[h].event)
    BY <1>1 DEF ApplyPolled
  <2>3. QED
    BY <2>1, <2>2
<1>2. ASSUME NEW h \in Handlers, NEW e \in Event, DeliverWebhook(h, e)
      PROVE  Apply(h, e)
  BY <1>2 DEF DeliverWebhook
<1>3. QED
  BY <1>1, <1>2
  DEF Next, Begin, Continue, CreateBooking, ResumeBooking, RefreshPayment,
      ReconcilePayment, RequestRefund, ReconcileRefund, RequestCancel, RequestNoShow,
      ProviderCreates, ProviderRefusesCreate, SaveReference, RefundLatePayment,
      ExecuteRefund, ProviderRefunds, ProviderDefersRefund, SettleRefund,
      CancelBooking, RefundCancelled, MarkNoShow, CheckIn, ExpirePayment, Crash,
      ProviderSettles, PaymentDeadlinePasses, TimePasses, vars, rows

\* A success with the right amount is never swallowed.
THEOREM SuccessesAreKept == Spec => []NoSuccessSwallowed
<1>1. Init => NoSuccessSwallowed
  BY DEF Init, NoSuccessSwallowed
<1>2. ASSUME IInv, NoSuccessSwallowed, [Next]_vars PROVE NoSuccessSwallowed'
  <2>1. PaidStays
    BY <1>2, PaidIsForever
  <2>2. CASE events' = events
    BY <1>2, <2>1, <2>2 DEF NoSuccessSwallowed, PaidStays
  <2>3. ASSUME NEW h \in Handlers, NEW e \in Event, Apply(h, e)
        PROVE  NoSuccessSwallowed'
    <3>1. \A d \in Event : d # e => events'[d] = events[d]
      BY <2>3 DEF Apply
    <3>2. e.status = "paid" /\ e.amount = Amount =>
            payment' \in GrossPaidStatuses \/ events'[e] = "manual_review"
      BY <1>2, <2>3, AppliedSuccessIsKept
    <3>3. QED
      BY <1>2, <2>1, <3>1, <3>2 DEF NoSuccessSwallowed, PaidStays
  <2>4. QED
    BY <1>2, <2>2, <2>3, EventWriters
<1>3. QED
  BY Invariance, <1>1, <1>2, PTL DEF Spec

\* The provider is asked for one refund of a payment at a time, however many
\* requests, late successes and cancellations ask for one.
THEOREM RefundsOneAtATime == Spec => []OneRefundInFlight
<1>1. Init => OneRefundInFlight
  BY DEF Init, OneRefundInFlight, InStatus, NoRefund
<1>2. ASSUME IInv, OneRefundInFlight, [Next]_vars PROVE OneRefundInFlight'
  <2>1. refunds \in [RefundIds -> Refund]
    BY <1>2 DEF IInv, TypeOK
  <2>2. ASSUME NEW h \in Handlers, ExecuteRefund(h) PROVE OneRefundInFlight'
    <3>1. CASE refunds' = refunds
      BY <1>2, <3>1 DEF OneRefundInFlight, InStatus
    <3>2. CASE refunds' # refunds
      <4>1. InStatus(refunds, "refund_pending") = {}
        BY <2>2, <3>2 DEF ExecuteRefund, RefundRefused
      <4>2. PICK r \in RefundIds :
              \A q \in RefundIds : q # r => refunds'[q] = refunds[q]
        BY <2>1, <2>2, <3>2 DEF ExecuteRefund, InStatus
      <4>3. QED
        BY <4>1, <4>2 DEF OneRefundInFlight, InStatus
    <3>3. QED
      BY <3>1, <3>2
  <2>3. ASSUME NEW h \in Handlers, SettleRefund(h) PROVE OneRefundInFlight'
    <3>1. \A q \in RefundIds :
            refunds'[q].status = "refund_pending" => refunds[q].status = "refund_pending"
      BY <2>1, <2>3 DEF SettleRefund, Refund
    <3>2. QED
      BY <1>2, <3>1 DEF OneRefundInFlight, InStatus
  <2>4. CASE refunds' = refunds
    BY <1>2, <2>4 DEF OneRefundInFlight, InStatus
  <2>5. QED
    BY <1>2, <2>2, <2>3, <2>4
    DEF Next, Begin, Continue, CreateBooking, ResumeBooking, DeliverWebhook,
        RefreshPayment, ReconcilePayment, RequestRefund, ReconcileRefund,
        RequestCancel, RequestNoShow, ProviderCreates, ProviderRefusesCreate,
        SaveReference, ApplyPolled, RefundLatePayment, ProviderRefunds,
        ProviderDefersRefund, CancelBooking, RefundCancelled, MarkNoShow, CheckIn,
        ExpirePayment, Crash, ProviderSettles, PaymentDeadlinePasses, TimePasses,
        vars, rows
<1>3. QED
  BY Invariance, <1>1, <1>2, PTL DEF Spec

-----------------------------------------------------------------------------
(* Sums of refund amounts.  The sum of the community modules is a fold: one *)
(* recursive function over the subsets of R, applied to R.  Its defining   *)
(* equation is proved by taking a smallest set for which it fails.         *)

Pick(S) == CHOOSE x \in S : TRUE

\* One unfolding of the recursion: g is a function on the subsets of R.
Unfold(rf, R, g) ==
  [S \in SUBSET R |-> IF S = {} THEN 0 ELSE rf[Pick(S)].amount + g[S \ {Pick(S)}]]

Sums(rf, R, g) == g = Unfold(rf, R, g)

LEMMA SumIs == \A rf, R : SumOf(rf, R) = (CHOOSE g : Sums(rf, R, g))[R]
BY DEF SumOf, MapThenSumSet, MapThenFoldSet, Sums, Unfold, Pick

LEMMA PickIn == \A S : S # {} => Pick(S) \in S
BY DEF Pick

LEMMA SumsAt ==
  ASSUME NEW rf, NEW R, NEW g, Sums(rf, R, g), NEW S \in SUBSET R
  PROVE  /\ S = {} => g[S] = 0
         /\ S # {} => g[S] = rf[Pick(S)].amount + g[S \ {Pick(S)}]
<1>1. Unfold(rf, R, g)[S] =
        IF S = {} THEN 0 ELSE rf[Pick(S)].amount + g[S \ {Pick(S)}]
  BY DEF Unfold
<1>2. QED
  BY <1>1 DEF Sums

\* A set of subsets of a finite set has a smallest member.
LEMMA Smallest ==
  ASSUME NEW S, IsFiniteSet(S), NEW Bad, Bad \subseteq SUBSET S, Bad # {}
  PROVE  \E T \in Bad : \A U \in Bad : U \subseteq T => U = T
<1> DEFINE R == StrictSubsetOrdering(S)
           F == FiniteSubsetsOf(S)
<1>1. IsWellFoundedOn(R, F)
  BY FS_StrictSubsetOrderingWellFounded
<1>2. Bad \subseteq F
  BY FS_FiniteSubsetsOfFinite
<1> HIDE DEF R, F
<1>3. \E T \in Bad : \A U \in Bad : ~(<<U, T>> \in R)
  BY <1>1, <1>2, WFMin
<1>4. QED
  BY <1>3 DEF R, StrictSubsetOrdering

\* Two functions that satisfy the recursion agree where both are defined.
LEMMA SumsUnique ==
  ASSUME NEW rf, NEW R, IsFiniteSet(R), NEW Q \in SUBSET R, NEW g, NEW k,
         Sums(rf, R, g), Sums(rf, Q, k)
  PROVE  \A S \in SUBSET Q : g[S] = k[S]
<1> DEFINE Bad == {S \in SUBSET Q : g[S] # k[S]}
<1> SUFFICES ASSUME Bad # {} PROVE FALSE
  OBVIOUS
<1>1. Bad \subseteq SUBSET Q
  OBVIOUS
<1>2. IsFiniteSet(Q)
  BY FS_Subset
<1>3. PICK T \in Bad : \A U \in Bad : U \subseteq T => U = T
  <2> HIDE DEF Bad
  <2>1. QED
    BY <1>1, <1>2, Smallest
<1>4. T \in SUBSET R /\ T \in SUBSET Q /\ g[T] # k[T]
  OBVIOUS
<1>5. T # {}
  BY <1>4, SumsAt
<1>6. Pick(T) \in T
  BY <1>5, PickIn
<1>7. g[T \ {Pick(T)}] = k[T \ {Pick(T)}]
  BY <1>3, <1>6
<1>8. QED
  BY <1>4, <1>5, <1>7, SumsAt

\* The recursion has a solution: a smallest set without one could be given one.
LEMMA SumsExist ==
  ASSUME NEW rf, NEW R, IsFiniteSet(R)
  PROVE  \E g : Sums(rf, R, g)
<1> DEFINE Bad == {S \in SUBSET R : ~\E g : Sums(rf, S, g)}
<1> SUFFICES ASSUME Bad # {} PROVE FALSE
  OBVIOUS
<1>1. Bad \subseteq SUBSET R
  OBVIOUS
<1>2. PICK T \in Bad : \A U \in Bad : U \subseteq T => U = T
  <2> HIDE DEF Bad
  <2>1. QED
    BY <1>1, Smallest
<1> DEFINE G(S) == CHOOSE g : Sums(rf, S, g)
           k == [S \in SUBSET T |-> IF S = {} THEN 0
                   ELSE rf[Pick(S)].amount + G(S \ {Pick(S)})[S \ {Pick(S)}]]
<1>3. \A S \in SUBSET T : S # T => Sums(rf, S, G(S))
  <2> SUFFICES ASSUME NEW S \in SUBSET T, S # T PROVE \E g : Sums(rf, S, g)
    OBVIOUS
  <2>2. QED
    BY <1>2
<1>4. \A S \in SUBSET T : S # T => k[S] = G(S)[S]
  <2> SUFFICES ASSUME NEW S \in SUBSET T, S # T, S # {} PROVE k[S] = G(S)[S]
    <3>1. {} # T => G({})[{}] = 0
      <4> HIDE DEF G, k
      <4>1. {} \in SUBSET {} /\ {} \in SUBSET T
        OBVIOUS
      <4>2. {} # T => Sums(rf, {}, G({}))
        BY <1>3, <4>1
      <4>3. QED
        BY <4>1, <4>2, SumsAt
    <3>2. QED
      BY <3>1
  <2> DEFINE V == S \ {Pick(S)}
  <2>2. V \in SUBSET S /\ V # T /\ V \in SUBSET T
    BY PickIn
  <2>3. Sums(rf, S, G(S)) /\ Sums(rf, V, G(V))
    BY <1>3, <2>2
  <2>4. IsFiniteSet(S)
    BY FS_Subset
  <2> HIDE DEF G, k
  <2>5. G(S)[V] = G(V)[V]
    <3> HIDE DEF V
    <3>1. V \in SUBSET V
      OBVIOUS
    <3>2. QED
      BY <2>2, <2>3, <2>4, <3>1, SumsUnique
  <2>6. G(S)[S] = rf[Pick(S)].amount + G(S)[V]
    <3>1. S \in SUBSET S
      OBVIOUS
    <3>2. QED
      BY <2>3, <3>1, SumsAt
  <2>7. QED
    BY <2>5, <2>6 DEF k
<1> HIDE DEF G
<1>5. Sums(rf, T, k)
  <2> SUFFICES ASSUME NEW S \in SUBSET T, S # {}
                 PROVE  G(S \ {Pick(S)})[S \ {Pick(S)}] = k[S \ {Pick(S)}]
    BY DEF Sums, Unfold
  <2>2. S \ {Pick(S)} # T /\ S \ {Pick(S)} \in SUBSET T
    BY PickIn
  <2> HIDE DEF k
  <2>3. QED
    BY <1>4, <2>2
<1>6. QED
  BY <1>2, <1>5

\* The recursion, as an equation about sums.
LEMMA SumDef ==
  ASSUME NEW rf, NEW R, IsFiniteSet(R)
  PROVE  /\ R = {} => SumOf(rf, R) = 0
         /\ R # {} => SumOf(rf, R) = rf[Pick(R)].amount + SumOf(rf, R \ {Pick(R)})
<1> DEFINE G(S) == CHOOSE g : Sums(rf, S, g)
           V == R \ {Pick(R)}
<1>1. IsFiniteSet(V) /\ V \in SUBSET R
  BY FS_Subset
<1>2. Sums(rf, R, G(R)) /\ Sums(rf, V, G(V))
  BY <1>1, SumsExist
<1>3. SumOf(rf, R) = G(R)[R] /\ SumOf(rf, V) = G(V)[V]
  BY SumIs
<1> HIDE DEF G
<1>4. G(R)[V] = G(V)[V]
  BY <1>1, <1>2, SumsUnique
<1>5. /\ R = {} => G(R)[R] = 0
      /\ R # {} => G(R)[R] = rf[Pick(R)].amount + G(R)[V]
  <2>1. R \in SUBSET R
    OBVIOUS
  <2>2. \A g : Sums(rf, R, g) =>
                 /\ R = {} => g[R] = 0
                 /\ R # {} => g[R] = rf[Pick(R)].amount + g[V]
    BY <2>1, SumsAt
  <2>3. QED
    BY <1>2, <2>2
<1>6. QED
  BY <1>3, <1>4, <1>5

\* A sum of natural numbers is one, and any of them can be taken out first.
LEMMA SumAny ==
  ASSUME NEW rf, NEW R, IsFiniteSet(R), \A r \in R : rf[r].amount \in Nat
  PROVE  /\ SumOf(rf, R) \in Nat
         /\ \A r \in R : SumOf(rf, R) = rf[r].amount + SumOf(rf, R \ {r})
<1> DEFINE Good(S) == /\ SumOf(rf, S) \in Nat
                      /\ \A r \in S :
                           SumOf(rf, S) = rf[r].amount + SumOf(rf, S \ {r})
           Bad == {S \in SUBSET R : ~Good(S)}
<1> SUFFICES ASSUME Bad # {} PROVE FALSE
  OBVIOUS
<1>1. Bad \subseteq SUBSET R
  OBVIOUS
<1>2. PICK T \in Bad : \A U \in Bad : U \subseteq T => U = T
  <2> HIDE DEF Bad
  <2>1. QED
    BY <1>1, Smallest
<1>3. \A U \in SUBSET T : U # T => Good(U)
  BY <1>2
<1>4. T # {}
  <2>1. IsFiniteSet({})
    BY FS_EmptySet
  <2>2. SumOf(rf, {}) = 0
    BY <2>1, SumDef
  <2>3. Good({})
    BY <2>2
  <2>4. QED
    BY <1>2, <2>3
<1>5. IsFiniteSet(T)
  BY FS_Subset
<1> DEFINE c == Pick(T)
<1>6. c \in T /\ SumOf(rf, T) = rf[c].amount + SumOf(rf, T \ {c}) /\ rf[c].amount \in Nat
  BY <1>4, <1>5, PickIn, SumDef
<1> HIDE DEF c
<1>7. SumOf(rf, T \ {c}) \in Nat
  BY <1>3, <1>6
<1>8. ASSUME NEW r \in T PROVE SumOf(rf, T) = rf[r].amount + SumOf(rf, T \ {r})
  <2>1. CASE r = c
    BY <1>6, <2>1
  <2>2. CASE r # c
    <3>1. SumOf(rf, T \ {c}) = rf[r].amount + SumOf(rf, (T \ {c}) \ {r})
      BY <1>3, <1>6, <2>2
    <3>2. SumOf(rf, T \ {r}) = rf[c].amount + SumOf(rf, (T \ {r}) \ {c})
      BY <1>3, <1>6, <2>2
    <3>3. (T \ {c}) \ {r} = (T \ {r}) \ {c} /\ rf[r].amount \in Nat
      OBVIOUS
    <3>4. SumOf(rf, (T \ {c}) \ {r}) \in Nat
      BY <1>3, <1>6, <2>2
    <3> DEFINE x == SumOf(rf, (T \ {c}) \ {r})
               y == rf[r].amount
               z == rf[c].amount
    <3>5. /\ x \in Nat /\ y \in Nat /\ z \in Nat
          /\ SumOf(rf, T) = z + (y + x)
          /\ SumOf(rf, T \ {r}) = z + x
      BY <1>6, <3>1, <3>2, <3>3, <3>4
    <3> HIDE DEF x, y, z
    <3>6. SumOf(rf, T) = y + SumOf(rf, T \ {r})
      BY <3>5
    <3>7. QED
      BY <3>6 DEF y
  <2>3. QED
    BY <2>1, <2>2
<1>9. Good(T)
  BY <1>6, <1>7, <1>8
<1>10. QED
  BY <1>2, <1>9

\* Only the amounts in R count.
LEMMA SumSame ==
  ASSUME NEW rf, NEW sf, NEW R, \A r \in R : rf[r].amount = sf[r].amount
  PROVE  SumOf(rf, R) = SumOf(sf, R)
<1>1. \A g : Unfold(rf, R, g) = Unfold(sf, R, g)
  BY PickIn DEF Unfold
<1>2. \A g : Sums(rf, R, g) <=> Sums(sf, R, g)
  BY <1>1 DEF Sums
<1>3. (CHOOSE g : Sums(rf, R, g)) = (CHOOSE g : Sums(sf, R, g))
  BY <1>2
<1>4. QED
  BY <1>3, SumIs

\* What the rows in a status hold.
LEMMA SumIsNat ==
  ASSUME NEW rf \in [RefundIds -> Refund], NEW R \in SUBSET RefundIds
  PROVE  /\ SumOf(rf, R) \in Nat
         /\ R = {} => SumOf(rf, R) = 0
         /\ \A r \in R : SumOf(rf, R) = rf[r].amount + SumOf(rf, R \ {r})
<1>1. IsFiniteSet(R)
  BY AmountAssumption, FS_Subset
<1>2. \A r \in R : rf[r].amount \in Nat
  BY AmountAssumption DEF Refund
<1>3. SumOf(rf, R) \in Nat /\ \A r \in R : SumOf(rf, R) = rf[r].amount + SumOf(rf, R \ {r})
  BY <1>1, <1>2, SumAny
<1>4. R = {} => SumOf(rf, R) = 0
  BY <1>1, SumDef
<1>5. QED
  BY <1>3, <1>4

\* A single row holds its amount.
LEMMA SumOfOne ==
  ASSUME NEW rf \in [RefundIds -> Refund], NEW r \in RefundIds
  PROVE  SumOf(rf, {r}) = rf[r].amount
<1>1. {r} \in SUBSET RefundIds /\ {} \in SUBSET RefundIds /\ {r} \ {r} = {} /\ r \in {r}
  OBVIOUS
<1>2. SumOf(rf, {r}) = rf[r].amount + SumOf(rf, {})
  BY <1>1, SumIsNat
<1>3. SumOf(rf, {}) = 0
  BY <1>1, SumIsNat
<1>4. rf[r].amount \in Nat
  BY AmountAssumption DEF Refund
<1>5. QED
  BY <1>2, <1>3, <1>4

\* A refund opened on an unused row, with none in flight, is the only one in
\* flight and leaves what was given back alone.
LEMMA OpenedSums ==
  ASSUME NEW rf \in [RefundIds -> Refund], NEW r \in InStatus(rf, "none"),
         InStatus(rf, "refund_pending") = {}, NEW sf \in [RefundIds -> Refund],
         sf[r].status = "refund_pending",
         \A q \in RefundIds : q # r => sf[q] = rf[q]
  PROVE  /\ InStatus(sf, "refund_pending") = {r}
         /\ InStatus(sf, "refunded") = InStatus(rf, "refunded")
         /\ SumOf(rf, InStatus(rf, "refund_pending")) = 0
         /\ SumOf(sf, InStatus(sf, "refund_pending")) = sf[r].amount
         /\ SumOf(sf, InStatus(sf, "refunded")) = SumOf(rf, InStatus(rf, "refunded"))
<1>1. r \in RefundIds /\ rf[r].status = "none"
  BY DEF InStatus
<1> DEFINE R == InStatus(rf, "refunded")
<1>2. InStatus(sf, "refund_pending") = {r} /\ InStatus(sf, "refunded") = R
  BY <1>1 DEF InStatus
<1>3. \A q \in R : rf[q].amount = sf[q].amount
  BY <1>1 DEF InStatus
<1> HIDE DEF R
<1>4. SumOf(rf, R) = SumOf(sf, R)
  BY <1>3, SumSame
<1>5. SumOf(sf, {r}) = sf[r].amount
  BY <1>1, SumOfOne
<1>6. SumOf(rf, {}) = 0
  BY SumIsNat
<1>7. QED
  BY <1>2, <1>4, <1>5, <1>6 DEF R

\* The refund in flight, settled, moves from what is in flight to what was
\* given back.
LEMMA SettledSums ==
  ASSUME NEW rf \in [RefundIds -> Refund], NEW r \in InStatus(rf, "refund_pending"),
         \A q \in InStatus(rf, "refund_pending") : q = r,
         NEW sf \in [RefundIds -> Refund],
         sf[r].status = "refunded", sf[r].amount = rf[r].amount,
         \A q \in RefundIds : q # r => sf[q] = rf[q]
  PROVE  /\ InStatus(sf, "refund_pending") = {}
         /\ InStatus(sf, "none") = InStatus(rf, "none")
         /\ SumOf(sf, InStatus(sf, "refund_pending")) = 0
         /\ SumOf(rf, InStatus(rf, "refund_pending")) = rf[r].amount
         /\ SumOf(rf, InStatus(rf, "refunded")) \in Nat
         /\ SumOf(sf, InStatus(sf, "refunded")) =
              SumOf(rf, InStatus(rf, "refunded")) + rf[r].amount
<1>1. r \in RefundIds /\ rf[r].status = "refund_pending" /\ rf[r] \in Refund
  BY DEF InStatus
<1> DEFINE R == InStatus(rf, "refunded")
           S == InStatus(sf, "refunded")
<1>2. InStatus(sf, "refund_pending") = {} /\ InStatus(rf, "refund_pending") = {r}
      /\ InStatus(sf, "none") = InStatus(rf, "none")
  BY <1>1 DEF InStatus
<1>3. r \in S /\ S \ {r} = R /\ R \in SUBSET RefundIds /\ S \in SUBSET RefundIds
  BY <1>1 DEF InStatus
<1>4. \A q \in R : rf[q].amount = sf[q].amount
  BY <1>1 DEF InStatus
<1> HIDE DEF R, S
<1>5. SumOf(sf, S) = sf[r].amount + SumOf(sf, R)
  BY <1>3, SumIsNat
<1>6. SumOf(rf, R) = SumOf(sf, R)
  BY <1>4, SumSame
<1>7. SumOf(rf, R) \in Nat
  BY <1>3, SumIsNat
<1>8. SumOf(sf, {}) = 0 /\ SumOf(rf, {r}) = rf[r].amount
  BY <1>1, SumIsNat, SumOfOne
<1>9. rf[r].amount \in Nat
  BY <1>1, AmountAssumption DEF Refund
<1>10. SumOf(sf, S) = SumOf(rf, R) + rf[r].amount
  BY <1>5, <1>6, <1>7, <1>9
<1>11. QED
  BY <1>2, <1>7, <1>8, <1>10 DEF R, S

\* With none in flight, the refunds hold what was given back.
LEMMA HeldWhenSettled ==
  ASSUME NEW rf \in [RefundIds -> Refund], InStatus(rf, "refund_pending") = {}
  PROVE  /\ Held(rf) = SumOf(rf, InStatus(rf, "refunded"))
         /\ Held(rf) \in Nat
<1>1. InStatus(rf, "refunded") \in SUBSET RefundIds
  BY DEF InStatus
<1>2. {} \cup InStatus(rf, "refunded") = InStatus(rf, "refunded")
  OBVIOUS
<1>3. QED
  BY <1>1, <1>2, SumIsNat DEF Held

\* The inductive invariant about money.  That the rows and the payment agree is
\* kept only because a refund in hand is backed by the charge and started from a
\* status that allows it, which is what handlers remember (MoneyIsBacked).
MInv == IInv /\ OneRefundInFlight /\ RefundsMatchPayment /\ MoneyIsBacked

-----------------------------------------------------------------------------
(* What never comes back.                                                  *)

\* The row a refund is opened on.
LEMMA OpenedRow ==
  ASSUME IInv, NEW h \in Handlers, ExecuteRefund(h), ~RefundRefused(work[h].amount)
  PROVE  \E r \in InStatus(refunds, "none") :
           /\ refunds' \in [RefundIds -> Refund]
           /\ refunds'[r] = [status |-> "refund_pending", amount |-> work[h].amount,
                             reason |-> work[h].reason]
           /\ \A q \in RefundIds : q # r => refunds'[q] = refunds[q]
           /\ payment' = IF /\ work[h].reason # "late_payment"
                            /\ CanTransitionPayment(work[h].seen, "refund_pending")
                         THEN "refund_pending" ELSE payment
           /\ Goto(h, [pc |-> "settle_call", row |-> r,
                       skip |-> work[h].reason = "late_payment"])
<1>1. PICK r \in InStatus(refunds, "none") :
        /\ refunds' = [refunds EXCEPT ![r] =
             [status |-> "refund_pending", amount |-> work[h].amount,
              reason |-> work[h].reason]]
        /\ payment' = IF /\ work[h].reason # "late_payment"
                         /\ CanTransitionPayment(work[h].seen, "refund_pending")
                      THEN "refund_pending" ELSE payment
        /\ Goto(h, [pc |-> "settle_call", row |-> r,
                    skip |-> work[h].reason = "late_payment"])
  BY DEF ExecuteRefund
<1>2. refunds \in [RefundIds -> Refund] /\ r \in RefundIds
  BY DEF IInv, TypeOK, InStatus
<1>3. /\ refunds'[r] = [status |-> "refund_pending", amount |-> work[h].amount,
                        reason |-> work[h].reason]
      /\ \A q \in RefundIds : q # r => refunds'[q] = refunds[q]
  BY <1>1, <1>2
<1>4. refunds' \in [RefundIds -> Refund]
  BY TypePreserved DEF IInv, Consistent, Next, Continue, TypeOK
<1>5. QED
  BY <1>1, <1>3, <1>4

\* The row a refund is settled on.
LEMMA SettledRow ==
  ASSUME IInv, NEW h \in Handlers, SettleRefund(h),
         refunds[work[h].row].status = "refund_pending"
  PROVE  /\ work[h].row \in InStatus(refunds, "refund_pending")
         /\ refunds' \in [RefundIds -> Refund]
         /\ refunds'[work[h].row].status = "refunded"
         /\ refunds'[work[h].row].amount = refunds[work[h].row].amount
         /\ refunds'[work[h].row].reason = refunds[work[h].row].reason
         /\ \A q \in RefundIds : q # work[h].row => refunds'[q] = refunds[q]
         /\ payment' = IF ~work[h].skip /\ payment \in AggregateFrom
                       THEN StatusAfterRefunds(refunds') ELSE payment
<1>1. work[h].row \in RefundIds
  BY WorkAt DEF SettleRefund, IInv
<1>2. refunds \in [RefundIds -> Refund]
  BY DEF IInv, TypeOK
<1>3. /\ refunds' = [refunds EXCEPT ![work[h].row].status = "refunded"]
      /\ payment' = IF ~work[h].skip /\ payment \in AggregateFrom
                    THEN StatusAfterRefunds(refunds') ELSE payment
  BY DEF SettleRefund
<1>4. refunds' \in [RefundIds -> Refund]
  BY TypePreserved DEF IInv, Consistent, Next, Continue, TypeOK
<1>5. QED
  BY <1>1, <1>2, <1>3, <1>4 DEF InStatus, Refund

\* The steps that write refunds rows.
LEMMA RefundWriters ==
  ASSUME [Next]_vars
  PROVE  \/ refunds' = refunds
         \/ \E h \in Handlers : ExecuteRefund(h) /\ ~RefundRefused(work[h].amount)
         \/ \E h \in Handlers :
              SettleRefund(h) /\ refunds[work[h].row].status = "refund_pending"
<1>1. ASSUME NEW h \in Handlers, ExecuteRefund(h), RefundRefused(work[h].amount)
      PROVE  refunds' = refunds
  BY <1>1 DEF ExecuteRefund
<1>2. ASSUME NEW h \in Handlers, SettleRefund(h),
             refunds[work[h].row].status # "refund_pending"
      PROVE  refunds' = refunds
  BY <1>2 DEF SettleRefund
<1>3. QED
  BY <1>1, <1>2
  DEF Next, Begin, Continue, CreateBooking, ResumeBooking, DeliverWebhook,
      RefreshPayment, ReconcilePayment, RequestRefund, ReconcileRefund,
      RequestCancel, RequestNoShow, ProviderCreates, ProviderRefusesCreate,
      SaveReference, ApplyPolled, RefundLatePayment, ProviderRefunds,
      ProviderDefersRefund, CancelBooking, RefundCancelled, MarkNoShow, CheckIn,
      ExpirePayment, Crash, ProviderSettles, PaymentDeadlinePasses, TimePasses,
      vars, rows

\* An event applied to a payment that was never paid, and is no longer awaited,
\* changes nothing about it.
LEMMA AppliedEventOnlyWhilePending ==
  ASSUME IInv, NEW h \in Handlers, NEW e \in Event, Apply(h, e)
  PROVE  \/ payment' = payment
         \/ payment = "pending" /\ payment' \in {"paid", "failed", "expired", "cancelled"}
<1>1. CASE EffectOf(e) = "paid"
  <2>1. CanTransitionPayment(payment, "paid") \/ Honoured
    BY <1>1 DEF EffectOf
  <2>2. payment = "pending"
    BY <2>1
    DEF CanTransitionPayment, PaymentTransitions, Honoured, IInv, Consistent,
        PaymentMatchesBooking
  <2>3. QED
    BY <1>1, <2>2 DEF Apply
<1>2. CASE EffectOf(e) = "released"
  <2>1. CanTransitionPayment(payment, e.status) /\ e.status \notin {"pending", "paid"}
    BY <1>2 DEF EffectOf
  <2>2. e.status \in {"failed", "expired", "cancelled"}
    BY <2>1, AmountAssumption DEF Event, ProviderStatuses
  <2>3. payment = "pending"
    BY <2>1, <2>2 DEF CanTransitionPayment, PaymentTransitions
  <2>4. QED
    BY <1>2, <2>2, <2>3 DEF Apply
<1>3. CASE EffectOf(e) \notin {"paid", "released"}
  BY <1>3 DEF Apply
<1>4. QED
  BY <1>1, <1>2, <1>3

\* The steps that write payments.status, and from what to what.
LEMMA PaymentSteps ==
  ASSUME IInv, [Next]_vars, payment' # payment
  PROVE  \/ payment = "none" /\ payment' = "pending" /\ refunds' = refunds
         \/ /\ payment = "pending"
            /\ payment' \in {"paid", "failed", "expired", "cancelled"}
            /\ refunds' = refunds
         \/ \E h \in Handlers : ExecuteRefund(h) /\ ~RefundRefused(work[h].amount)
         \/ \E h \in Handlers :
              SettleRefund(h) /\ refunds[work[h].row].status = "refund_pending"
<1>1. CASE ExpirePayment
  BY <1>1 DEF ExpirePayment, Due
<1>2. ASSUME NEW h \in Handlers, CreateBooking(h)
      PROVE  payment = "none" /\ payment' = "pending" /\ refunds' = refunds
  BY <1>2 DEF CreateBooking, IInv, Consistent, PaymentMatchesBooking
<1>3. ASSUME NEW h \in Handlers, CancelBooking(h)
      PROVE  payment = "pending" /\ payment' = "cancelled" /\ refunds' = refunds
  BY <1>3 DEF CancelBooking
<1>4. ASSUME NEW h \in Handlers, NEW e \in Event, Apply(h, e), refunds' = refunds
      PROVE  /\ payment = "pending"
             /\ payment' \in {"paid", "failed", "expired", "cancelled"}
             /\ refunds' = refunds
  BY <1>4, AppliedEventOnlyWhilePending
<1>5. ASSUME NEW h \in Handlers, NEW e \in Event, DeliverWebhook(h, e)
      PROVE  /\ payment = "pending"
             /\ payment' \in {"paid", "failed", "expired", "cancelled"}
             /\ refunds' = refunds
  BY <1>4, <1>5 DEF DeliverWebhook
<1>6. ASSUME NEW h \in Handlers, ApplyPolled(h)
      PROVE  /\ payment = "pending"
             /\ payment' \in {"paid", "failed", "expired", "cancelled"}
             /\ refunds' = refunds
  <2>1. work[h].event \in Event
    BY <1>6, WorkAt DEF ApplyPolled, IInv
  <2>2. Apply(h, work[h].event) /\ refunds' = refunds
    BY <1>6 DEF ApplyPolled
  <2>3. QED
    BY <1>4, <2>1, <2>2
<1>7. ASSUME NEW h \in Handlers, ExecuteRefund(h) PROVE ~RefundRefused(work[h].amount)
  BY <1>7 DEF ExecuteRefund
<1>8. ASSUME NEW h \in Handlers, SettleRefund(h)
      PROVE  refunds[work[h].row].status = "refund_pending"
  BY <1>8 DEF SettleRefund
<1>9. QED
  BY <1>1, <1>2, <1>3, <1>5, <1>6, <1>7, <1>8, PaymentWriters

\* A charge that was paid stays as it is.
LEMMA ChargeWriters ==
  ASSUME [Next]_vars
  PROVE  charge' = charge \/ charge.status # "paid"
<1>1. ASSUME NEW h \in Handlers, ProviderCreates(h), charge' # charge
      PROVE  charge.status # "paid"
  BY <1>1 DEF ProviderCreates
<1>2. ASSUME NEW s \in Outcomes, NEW a \in PaidAmounts, ProviderSettles(s, a)
      PROVE  charge.status # "paid"
  BY <1>2 DEF ProviderSettles
<1>3. QED
  BY <1>1, <1>2
  DEF Next, Begin, Continue, CreateBooking, ResumeBooking, DeliverWebhook,
      RefreshPayment, ReconcilePayment, RequestRefund, ReconcileRefund,
      RequestCancel, RequestNoShow, ProviderRefusesCreate, SaveReference, ApplyPolled,
      RefundLatePayment, ExecuteRefund, ProviderRefunds, ProviderDefersRefund,
      SettleRefund, CancelBooking, RefundCancelled, MarkNoShow, CheckIn, ExpirePayment,
      Crash, PaymentDeadlinePasses, TimePasses, vars, provider

\* What stays true of the payment, its charge and its rows.
LEMMA NothingComesBack ==
  ASSUME IInv, [Next]_vars
  PROVE  /\ PaidStays
         /\ PaidInFull => PaidInFull'
         /\ payment # "none" => payment' # "none"
         /\ \A r \in RefundIds : Used(r) => Used(r)'
         /\ refunds' = refunds /\ payment' # payment => payment \in {"none", "pending"}
<1>1. PaidInFull => PaidInFull'
  BY ChargeWriters DEF PaidInFull
<1>2. ASSUME NEW h \in Handlers, ExecuteRefund(h), ~RefundRefused(work[h].amount)
      PROVE  /\ \A r \in RefundIds : Used(r) => Used(r)'
             /\ payment' = "refund_pending" \/ payment' = payment
             /\ refunds' # refunds
  <2>1. PICK r \in InStatus(refunds, "none") :
          /\ refunds'[r] = [status |-> "refund_pending", amount |-> work[h].amount,
                            reason |-> work[h].reason]
          /\ \A q \in RefundIds : q # r => refunds'[q] = refunds[q]
          /\ payment' = IF /\ work[h].reason # "late_payment"
                           /\ CanTransitionPayment(work[h].seen, "refund_pending")
                        THEN "refund_pending" ELSE payment
    BY <1>2, OpenedRow, Zenon
  <2>2. refunds'[r].status = "refund_pending" /\ refunds[r].status = "none"
    BY <2>1 DEF InStatus
  <2>3. QED
    BY <2>1, <2>2 DEF Used
<1>3. ASSUME NEW h \in Handlers, SettleRefund(h),
             refunds[work[h].row].status = "refund_pending"
      PROVE  /\ \A r \in RefundIds : Used(r) => Used(r)'
             /\ payment' \in GrossPaidStatuses \/ payment' = payment
             /\ refunds' # refunds
  <2>1. \A rf : StatusAfterRefunds(rf) \in GrossPaidStatuses
    BY DEF StatusAfterRefunds, GrossPaidStatuses
  <2>2. QED
    BY <1>3, <2>1, SettledRow DEF Used
<1>4. \A r \in RefundIds : Used(r) => Used(r)'
  BY <1>2, <1>3, RefundWriters DEF Used
<1>5. payment # "none" => payment' # "none"
  BY <1>2, <1>3, PaymentSteps DEF GrossPaidStatuses
<1>6. refunds' = refunds /\ payment' # payment => payment \in {"none", "pending"}
  BY <1>2, <1>3, PaymentSteps
<1>7. QED
  BY <1>1, <1>4, <1>5, <1>6, PaidIsForever

\* What a refund that is opened takes for granted: it was paid for and fits.  A
\* late refund is the payment's first row, any other one starts from a status
\* that allows it.
LEMMA OpenedFacts ==
  ASSUME MInv, NEW h \in Handlers, ExecuteRefund(h), ~RefundRefused(work[h].amount)
  PROVE  /\ work[h].amount \in 1..Amount
         /\ PaidInFull
         /\ SumOf(refunds, InStatus(refunds, "refund_pending")) = 0
         /\ SumOf(refunds, InStatus(refunds, "refunded")) \in Nat
         /\ SumOf(refunds, InStatus(refunds, "refunded")) + work[h].amount <= Amount
         /\ work[h].reason = "late_payment" =>
              Unpaid /\ \A r \in RefundIds : ~Used(r)
         /\ work[h].reason # "late_payment" =>
              /\ payment \in {"paid", "partially_refunded"}
              /\ CanTransitionPayment(work[h].seen, "refund_pending")
<1> DEFINE a == work[h].amount
           S == InStatus(refunds, "refunded")
<1>1. refunds \in [RefundIds -> Refund] /\ S \in SUBSET RefundIds
  BY DEF MInv, IInv, TypeOK, InStatus
<1>2. /\ InStatus(refunds, "refund_pending") = {} /\ ~(a > Available(refunds))
      /\ At(h, "refund_tx")
  BY DEF RefundRefused, ExecuteRefund
<1>3. a \in 0..Amount /\ Amount \in Nat
  BY <1>2, WorkAt, AmountAssumption DEF MInv, IInv
<1>4. /\ Held(refunds) = SumOf(refunds, S) /\ SumOf(refunds, S) \in Nat
      /\ SumOf(refunds, InStatus(refunds, "refund_pending")) = 0
  BY <1>1, <1>2, HeldWhenSettled, SumIsNat
<1>5. StillBacked(work[h]) /\ StillTrue(work[h])
  BY DEF MInv, MoneyIsBacked, IInv, Consistent, MemoryHolds
<1>6. a > 0
  BY <1>2, <1>3, <1>5, AmountAssumption DEF StillBacked, At
<1>7. SumOf(refunds, S) + a <= Amount
  <2> DEFINE x == SumOf(refunds, S)
  <2>1. x \in Nat /\ ~(a > IF x >= Amount THEN 0 ELSE Amount - x)
    BY <1>2, <1>4 DEF Available
  <2> HIDE DEF x, a
  <2>2. x + a <= Amount
    BY <1>3, <1>6, <2>1
  <2>3. QED
    BY <2>2 DEF x
<1>8. ASSUME work[h].reason = "late_payment"
      PROVE  Unpaid /\ \A r \in RefundIds : ~Used(r)
  <2>1. a = Amount /\ (Unpaid \/ \E r \in RefundIds : Used(r))
    BY <1>2, <1>5, <1>8 DEF StillBacked, At
  <2>2. SumOf(refunds, S) = 0
    BY <1>3, <1>4, <1>7, <2>1
  <2>3. ASSUME NEW r \in RefundIds, Used(r) PROVE FALSE
    <3>1. r \in S
      BY <1>1, <1>2, <2>3 DEF Used, InStatus, Refund
    <3>2. refunds[r].amount > 0 /\ refunds[r].amount \in Nat
      BY <1>1, <2>3, AmountAssumption DEF MInv, MoneyIsBacked, Refund
    <3>3. SumOf(refunds, S) = refunds[r].amount + SumOf(refunds, S \ {r})
      BY <1>1, <3>1, SumIsNat
    <3>4. SumOf(refunds, S \ {r}) \in Nat
      BY <1>1, SumIsNat
    <3>5. QED
      BY <2>2, <3>2, <3>3, <3>4
  <2>4. QED
    BY <2>1, <2>3
<1>9. ASSUME work[h].reason # "late_payment"
      PROVE  /\ payment \in {"paid", "partially_refunded"}
             /\ CanTransitionPayment(work[h].seen, "refund_pending")
             /\ PaidInFull
  <2>1. payment \in GrossPaidStatuses /\ work[h].seen \in RefundableStatuses
    BY <1>2, <1>5, <1>9 DEF StillBacked, StillTrue, At
  <2>2. payment = StatusAfterRefunds(refunds)
    BY <2>1 DEF MInv, RefundsMatchPayment
  <2>3. ~(SumOf(refunds, S) >= Amount)
    BY <1>3, <1>4, <1>6, <1>7
  <2>4. payment \in {"paid", "partially_refunded"}
    BY <1>2, <2>2, <2>3 DEF StatusAfterRefunds
  <2>5. QED
    BY <2>1, <2>4
    DEF MInv, MoneyIsBacked, CanTransitionPayment, PaymentTransitions, RefundableStatuses
<1>10. work[h].reason = "late_payment" => PaidInFull
  BY <1>2, <1>5 DEF StillBacked, At
<1>11. a \in 1..Amount
  BY <1>3, <1>6
<1>12. QED
  BY <1>4, <1>7, <1>8, <1>9, <1>10, <1>11

\* What a refund that is settled takes for granted.
LEMMA SettledFacts ==
  ASSUME MInv, NEW h \in Handlers, SettleRefund(h),
         refunds[work[h].row].status = "refund_pending"
  PROVE  LET r == work[h].row
             a == refunds[r].amount
         IN  /\ a \in 1..Amount
             /\ SumOf(refunds, InStatus(refunds, "refund_pending")) = a
             /\ SumOf(refunds, InStatus(refunds, "refunded")) \in Nat
             /\ InStatus(refunds', "refund_pending") = {}
             /\ SumOf(refunds', InStatus(refunds', "refund_pending")) = 0
             /\ SumOf(refunds', InStatus(refunds', "refunded"))
                  = SumOf(refunds, InStatus(refunds, "refunded")) + a
             /\ payment \in GrossPaidStatuses =>
                  payment = "refund_pending" /\ payment' = StatusAfterRefunds(refunds')
             /\ payment \notin GrossPaidStatuses => Unpaid /\ payment' = payment
             /\ StatusAfterRefunds(refunds') \in {"partially_refunded", "refunded"}
<1> DEFINE r == work[h].row
           a == refunds[r].amount
<1>1. refunds \in [RefundIds -> Refund]
  BY DEF MInv, IInv, TypeOK
<1>2. /\ r \in InStatus(refunds, "refund_pending")
      /\ refunds' \in [RefundIds -> Refund]
      /\ refunds'[r].status = "refunded"
      /\ refunds'[r].amount = a
      /\ \A q \in RefundIds : q # r => refunds'[q] = refunds[q]
      /\ payment' = IF ~work[h].skip /\ payment \in AggregateFrom
                    THEN StatusAfterRefunds(refunds') ELSE payment
  BY SettledRow DEF MInv
<1>3. \A q \in InStatus(refunds, "refund_pending") : q = r
  BY <1>2 DEF MInv, OneRefundInFlight
<1>4. /\ InStatus(refunds', "refund_pending") = {}
      /\ SumOf(refunds', InStatus(refunds', "refund_pending")) = 0
      /\ SumOf(refunds, InStatus(refunds, "refund_pending")) = a
      /\ SumOf(refunds, InStatus(refunds, "refunded")) \in Nat
      /\ SumOf(refunds', InStatus(refunds', "refunded"))
           = SumOf(refunds, InStatus(refunds, "refunded")) + a
  BY <1>1, <1>2, <1>3, SettledSums
<1>5. r \in RefundIds /\ Used(r)
  BY <1>2 DEF InStatus, Used
<1>6. a \in 1..Amount
  <2>1. a > 0 /\ a \in 0..Amount
    BY <1>1, <1>5 DEF MInv, MoneyIsBacked, Refund
  <2>2. QED
    BY <2>1, AmountAssumption
<1>7. payment \notin {"none", "pending"}
  BY <1>5 DEF MInv, MoneyIsBacked
<1>8. ASSUME payment \in GrossPaidStatuses
      PROVE  payment = "refund_pending" /\ payment' = StatusAfterRefunds(refunds')
  <2>1. payment = StatusAfterRefunds(refunds)
    BY <1>8 DEF MInv, RefundsMatchPayment
  <2>2. payment = "refund_pending"
    BY <1>2, <2>1 DEF StatusAfterRefunds
  <2>3. StillBacked(work[h]) /\ At(h, "settle_tx")
    BY DEF MInv, MoneyIsBacked, SettleRefund
  <2>4. ~work[h].skip
    BY <1>8, <2>3 DEF StillBacked, At, Unpaid, GrossPaidStatuses
  <2>5. QED
    BY <1>2, <2>2, <2>4 DEF AggregateFrom
<1>9. ASSUME payment \notin GrossPaidStatuses PROVE Unpaid /\ payment' = payment
  <2>1. Unpaid
    BY <1>7, <1>9 DEF MInv, IInv, TypeOK, PaymentStatuses, GrossPaidStatuses, Unpaid
  <2>2. QED
    BY <1>2, <2>1 DEF Unpaid, AggregateFrom
<1>10. StatusAfterRefunds(refunds') \in {"partially_refunded", "refunded"}
  <2>1. ~(SumOf(refunds', InStatus(refunds', "refunded")) <= 0)
    BY <1>4, <1>6, AmountAssumption
  <2>2. QED
    BY <1>4, <2>1 DEF StatusAfterRefunds
<1>11. QED
  BY <1>4, <1>6, <1>8, <1>9, <1>10

\* Whoever never paid never pays.
LEMMA UnpaidStays ==
  ASSUME MInv, [Next]_vars
  PROVE  Unpaid => Unpaid'
<1>1. SUFFICES ASSUME Unpaid, payment' # payment PROVE Unpaid'
  BY DEF Unpaid
<1>2. payment \notin GrossPaidStatuses \cup {"none", "pending"}
  BY <1>1 DEF Unpaid, GrossPaidStatuses
<1>3. ASSUME NEW h \in Handlers, ExecuteRefund(h), ~RefundRefused(work[h].amount)
      PROVE  FALSE
  <2>1. work[h].reason = "late_payment"
    BY <1>2, <1>3, OpenedFacts DEF GrossPaidStatuses
  <2>2. payment' = payment
    BY <1>3, <2>1 DEF ExecuteRefund
  <2>3. QED
    BY <1>1, <2>2
<1>4. ASSUME NEW h \in Handlers, SettleRefund(h),
             refunds[work[h].row].status = "refund_pending"
      PROVE  FALSE
  BY <1>1, <1>2, <1>4, SettledFacts
<1>5. QED
  BY <1>1, <1>2, <1>3, <1>4, PaymentSteps DEF MInv

\* What a handler remembers is not overtaken by what others do.
LEMMA BackingLasts ==
  ASSUME MInv, [Next]_vars, NEW w, StillBacked(w),
         w.pc \in {"settle_call", "settle_tx"} => w.row \in RefundIds
  PROVE  StillBacked(w)'
<1>1. /\ payment \in GrossPaidStatuses => payment' \in GrossPaidStatuses
      /\ PaidInFull => PaidInFull'
      /\ payment # "none" => payment' # "none"
      /\ \A r \in RefundIds : Used(r) => Used(r)'
      /\ Unpaid => Unpaid'
  BY NothingComesBack, UnpaidStays DEF MInv, PaidStays
<1>2. w.pc \in {"create_call", "create_save"} => payment' # "none"
  BY <1>1 DEF StillBacked
<1>3. w.pc = "apply" => (Success(w.event) => PaidInFull')
  BY <1>1 DEF StillBacked
<1>4. w.pc = "late" \/ (w.pc = "refund_tx" /\ w.reason = "late_payment") =>
        /\ w.amount = Amount /\ PaidInFull'
        /\ \/ Unpaid'
           \/ payment' \in GrossPaidStatuses /\ \E r \in RefundIds : Used(r)'
  BY <1>1 DEF StillBacked
<1>5. w.pc = "refund_tx" /\ w.reason # "late_payment" =>
        w.amount > 0 /\ w.seen \in RefundableStatuses
  BY DEF StillBacked
<1>6. w.pc \in {"settle_call", "settle_tx"} => Used(w.row)' /\ (w.skip => Unpaid')
  BY <1>1 DEF StillBacked
<1>7. QED
  BY <1>2, <1>3, <1>4, <1>5, <1>6 DEF StillBacked, Success

AllBacked == \A h \in Handlers : StillBacked(work[h])

LEMMA RowInHand ==
  ASSUME TypeOK, NEW h \in Handlers, work[h].pc \in {"settle_call", "settle_tx"}
  PROVE  work[h].row \in RefundIds
BY WorkAt DEF At

\* A step that leaves handler h with w.
LEMMA StepIsBacked ==
  ASSUME MInv, [Next]_vars, NEW h \in Handlers, NEW w, Goto(h, w), StillBacked(w)'
  PROVE  AllBacked'
<1>1. ASSUME NEW g \in Handlers PROVE StillBacked(work[g])'
  <2>1. CASE g = h
    <3>1. work'[g] = w
      BY <2>1 DEF Goto, MInv, IInv, TypeOK
    <3>2. QED
      BY <3>1 DEF StillBacked
  <2>2. CASE g # h
    <3>1. work'[g] = work[g]
      BY <2>2 DEF Goto, MInv, IInv, TypeOK
    <3>2. StillBacked(work[g]) /\ TypeOK
      BY DEF MInv, MoneyIsBacked, IInv
    <3> DEFINE v == work[g]
    <3>3. v.pc \in {"settle_call", "settle_tx"} => v.row \in RefundIds
      BY <3>2, RowInHand
    <3>4. \A u : /\ StillBacked(u)
                 /\ u.pc \in {"settle_call", "settle_tx"} => u.row \in RefundIds
                 => StillBacked(u)'
      BY BackingLasts
    <3>5. QED
      BY <3>1, <3>2, <3>3, <3>4 DEF StillBacked
  <2>3. QED
    BY <2>1, <2>2
<1>2. QED
  BY <1>1 DEF AllBacked

LEMMA IdleIsBacked == StillBacked(Idle)'
BY DEF StillBacked, Idle

\* A success that came too late is one the provider kept, for a payment that
\* was never paid or that is being given back already.
LEMMA LateIsBacked ==
  ASSUME MInv, [Next]_vars, NEW h \in Handlers, NEW e \in Event, Apply(h, e),
         Success(e) => PaidInFull
  PROVE  AllBacked'
<1> DEFINE w == [pc |-> "late", amount |-> e.amount]
<1>1. CASE EffectOf(e) # "late"
  <2>1. Goto(h, Idle)
    BY <1>1 DEF Apply
  <2>2. QED
    BY <2>1, StepIsBacked, IdleIsBacked
<1>2. CASE EffectOf(e) = "late"
  <2>1. Goto(h, w) /\ payment' = payment
    BY <1>2 DEF Apply
  <2>2. /\ reference /\ e.amount = Amount /\ e.status = "paid" /\ payment # "paid"
        /\ ~CanTransitionPayment(payment, "paid")
    BY <1>2 DEF EffectOf
  <2>3. PaidInFull /\ PaidInFull'
    BY <2>2, NothingComesBack DEF Success, MInv
  <2>4. payment \notin {"none", "pending", "paid"}
    BY <2>2 DEF MInv, MoneyIsBacked, CanTransitionPayment, PaymentTransitions
  <2>5. ASSUME ~Unpaid PROVE payment \in GrossPaidStatuses /\ \E r \in RefundIds : Used(r)
    <3>1. payment \in GrossPaidStatuses
      BY <2>4, <2>5 DEF MInv, IInv, TypeOK, PaymentStatuses, GrossPaidStatuses, Unpaid
    <3>2. payment = StatusAfterRefunds(refunds)
      BY <3>1 DEF MInv, RefundsMatchPayment
    <3>3. CASE InStatus(refunds, "refund_pending") # {}
      BY <3>1, <3>3 DEF InStatus, Used
    <3>4. CASE InStatus(refunds, "refund_pending") = {}
      <4>1. InStatus(refunds, "refunded") # {}
        <5>1. ASSUME InStatus(refunds, "refunded") = {} PROVE FALSE
          <6>1. SumOf(refunds, InStatus(refunds, "refunded")) = 0
            BY <5>1, SumIsNat DEF MInv, IInv, TypeOK
          <6>2. QED
            BY <2>4, <3>2, <3>4, <6>1 DEF StatusAfterRefunds
        <5>2. QED
          BY <5>1
      <4>2. QED
        BY <3>1, <4>1 DEF InStatus, Used
    <3>5. QED
      BY <3>3, <3>4
  <2>6. /\ Unpaid => Unpaid'
        /\ payment \in GrossPaidStatuses => payment' \in GrossPaidStatuses
        /\ \A r \in RefundIds : Used(r) => Used(r)'
    BY UnpaidStays, NothingComesBack DEF PaidStays, MInv
  <2>7. w.pc = "late" /\ w.amount = Amount
    BY <2>2
  <2> HIDE DEF w
  <2>8. StillBacked(w)'
    BY <2>3, <2>5, <2>6, <2>7 DEF StillBacked
  <2>9. QED
    BY <2>1, <2>8, StepIsBacked
<1>3. QED
  BY <1>1, <1>2

\* A step that changes no handler's work.
LEMMA OthersAreBacked ==
  ASSUME MInv, [Next]_vars, work' = work
  PROVE  AllBacked'
<1>1. ASSUME NEW g \in Handlers PROVE StillBacked(work[g])'
  <2>1. StillBacked(work[g]) /\ TypeOK
    BY DEF MInv, MoneyIsBacked, IInv
  <2> DEFINE v == work[g]
  <2>2. v.pc \in {"settle_call", "settle_tx"} => v.row \in RefundIds
    BY <2>1, RowInHand
  <2>3. \A u : /\ StillBacked(u)
               /\ u.pc \in {"settle_call", "settle_tx"} => u.row \in RefundIds
               => StillBacked(u)'
    BY BackingLasts
  <2>4. QED
    BY <2>1, <2>2, <2>3 DEF StillBacked
<1>2. QED
  BY <1>1 DEF AllBacked

\* Each step leaves its handler with something it may rely on.
LEMMA BackingKept ==
  ASSUME MInv, [Next]_vars
  PROVE  AllBacked'
<1> USE IdleIsBacked
<1>1. /\ PaidInFull => PaidInFull'
      /\ payment # "none" => payment' # "none"
      /\ \A r \in RefundIds : Used(r) => Used(r)'
      /\ Unpaid => Unpaid'
  BY NothingComesBack, UnpaidStays DEF MInv
<1>2. ASSUME NEW h \in Handlers, CreateBooking(h) \/ ResumeBooking(h) PROVE AllBacked'
  <2>1. payment' # "none" /\ Goto(h, [pc |-> "create_call"])
    BY <1>2 DEF CreateBooking, ResumeBooking, rows
  <2>2. StillBacked([pc |-> "create_call"])'
    BY <2>1 DEF StillBacked
  <2>3. QED
    BY <2>1, <2>2, StepIsBacked
<1>3. ASSUME NEW h \in Handlers, ProviderCreates(h) PROVE AllBacked'
  <2>1. payment # "none"
    BY <1>3 DEF ProviderCreates, At, MInv, MoneyIsBacked, StillBacked
  <2>2. StillBacked([pc |-> "create_save"])'
    BY <1>1, <2>1 DEF StillBacked
  <2>3. Goto(h, [pc |-> "create_save"]) \/ Goto(h, Idle)
    BY <1>3 DEF ProviderCreates
  <2>4. QED
    BY <2>2, <2>3, StepIsBacked
<1>4. ASSUME NEW h \in Handlers,
             \/ ProviderRefusesCreate(h) \/ SaveReference(h) \/ ProviderDefersRefund(h)
             \/ SettleRefund(h) \/ MarkNoShow(h) \/ Crash(h)
      PROVE  AllBacked'
  <2>1. Goto(h, Idle)
    BY <1>4
    DEF ProviderRefusesCreate, SaveReference, ProviderDefersRefund, SettleRefund,
        MarkNoShow, Crash
  <2>2. QED
    BY <2>1, StepIsBacked
<1>5. ASSUME NEW h \in Handlers, NEW e \in Event, DeliverWebhook(h, e) PROVE AllBacked'
  <2>1. Apply(h, e) /\ (Success(e) => PaidInFull)
    BY <1>5 DEF DeliverWebhook, MInv, MoneyIsBacked
  <2>2. QED
    BY <2>1, LateIsBacked
<1>6. ASSUME NEW h \in Handlers, RefreshPayment(h) \/ ReconcilePayment(h)
      PROVE  AllBacked'
  <2>0. PICK w : w = [pc |-> "apply", event |-> PollResult]
    OBVIOUS
  <2>1. Goto(h, w)
    BY <2>0, <1>6 DEF RefreshPayment, ReconcilePayment
  <2>2. charge \in [status: ProviderStatuses \cup {"none"}, amount: Nat]
    BY DEF MInv, IInv, TypeOK
  <2>3. Success(PollResult) => PaidInFull
    BY <2>2 DEF Success, PollResult, PaidInFull
  <2>4. w.pc = "apply" /\ w.event = PollResult
    BY <2>0
  <2>5. Success(w.event) => PaidInFull'
    BY <1>1, <2>3, <2>4
  <2>6. StillBacked(w)'
    BY <2>4, <2>5 DEF StillBacked, Success
  <2>7. QED
    BY <2>1, <2>6, StepIsBacked
<1>7. ASSUME NEW h \in Handlers, ApplyPolled(h) PROVE AllBacked'
  <2>1. work[h].event \in Event
    BY <1>7, WorkAt DEF ApplyPolled, MInv, IInv
  <2>2. Success(work[h].event) => PaidInFull
    BY <1>7 DEF ApplyPolled, At, MInv, MoneyIsBacked, StillBacked
  <2>3. Apply(h, work[h].event) \/ Goto(h, Idle)
    BY <1>7 DEF ApplyPolled
  <2>4. QED
    BY <2>1, <2>2, <2>3, LateIsBacked, StepIsBacked
<1>8. ASSUME NEW h \in Handlers, NEW a \in 1..Amount, RequestRefund(h, a)
      PROVE  AllBacked'
  <2>0. PICK w : w = [pc |-> "refund_tx", seen |-> payment, amount |-> a,
                   reason |-> "request"]
    OBVIOUS
  <2>1. Goto(h, w) /\ payment \in RefundableStatuses
    BY <2>0, <1>8 DEF RequestRefund
  <2>2. w.pc = "refund_tx" /\ w.reason = "request" /\ w.amount > 0 /\ w.seen = payment
    BY <2>0, AmountAssumption
  <2>3. StillBacked(w)'
    BY <2>1, <2>2 DEF StillBacked
  <2>4. QED
    BY <2>1, <2>3, StepIsBacked
<1>9. ASSUME NEW h \in Handlers, RefundLatePayment(h) PROVE AllBacked'
  <2>0. PICK w : w = [pc |-> "refund_tx", seen |-> payment, amount |-> work[h].amount,
                   reason |-> "late_payment"]
    OBVIOUS
  <2>1. Goto(h, w) \/ Goto(h, Idle)
    BY <2>0, <1>9 DEF RefundLatePayment
  <2>2. /\ work[h].amount = Amount /\ PaidInFull
        /\ \/ Unpaid
           \/ payment \in GrossPaidStatuses /\ \E r \in RefundIds : Used(r)
    BY <1>9 DEF RefundLatePayment, At, MInv, MoneyIsBacked, StillBacked
  <2>3. w.pc = "refund_tx" /\ w.reason = "late_payment" /\ w.amount = Amount
    BY <2>0, <2>2
  <2>4. PaidStays
    BY NothingComesBack DEF MInv
  <2>5. StillBacked(w)'
    BY <1>1, <2>2, <2>3, <2>4 DEF StillBacked, PaidStays
  <2>6. QED
    BY <2>1, <2>5, StepIsBacked
<1>10. ASSUME NEW h \in Handlers, ExecuteRefund(h) PROVE AllBacked'
  <2>1. CASE RefundRefused(work[h].amount)
    <3>1. Goto(h, Idle)
      BY <1>10, <2>1 DEF ExecuteRefund
    <3>2. QED
      BY <3>1, StepIsBacked
  <2>2. CASE ~RefundRefused(work[h].amount)
    <3>1. PICK r \in InStatus(refunds, "none") :
            /\ refunds'[r] = [status |-> "refund_pending", amount |-> work[h].amount,
                              reason |-> work[h].reason]
            /\ Goto(h, [pc |-> "settle_call", row |-> r,
                        skip |-> work[h].reason = "late_payment"])
      BY <1>10, <2>2, OpenedRow, Zenon DEF MInv
    <3>2. work[h].reason = "late_payment" => Unpaid'
      BY <1>1, <1>10, <2>2, OpenedFacts
    <3>0. PICK w : w = [pc |-> "settle_call", row |-> r,
                     skip |-> work[h].reason = "late_payment"]
      OBVIOUS
    <3>3. w.pc = "settle_call" /\ w.row = r /\ w.skip = (work[h].reason = "late_payment")
      BY <3>0
    <3>4. Used(r)'
      BY <3>1 DEF Used
    <3>5. w.skip => Unpaid'
      BY <3>0, <3>2, <3>3
    <3>6. Used(w.row)'
      BY <3>3, <3>4 DEF Used
    <3>7. StillBacked(w)'
      BY <3>3, <3>5, <3>6 DEF StillBacked
    <3>8. QED
      BY <3>0, <3>1, <3>7, StepIsBacked
  <2>3. QED
    BY <2>1, <2>2
<1>11. ASSUME NEW h \in Handlers, ProviderRefunds(h) PROVE AllBacked'
  <2>0. PICK w : w = [work[h] EXCEPT !.pc = "settle_tx"]
    OBVIOUS
  <2>1. Goto(h, w) /\ At(h, "settle_call")
    BY <2>0, <1>11 DEF ProviderRefunds
  <2>2. work[h] \in [pc: {"settle_call", "settle_tx"}, row: RefundIds, skip: BOOLEAN]
    BY <2>1, WorkAt DEF MInv, IInv
  <2>3. w.pc = "settle_tx" /\ w.row = work[h].row /\ w.skip = work[h].skip
    BY <2>0, <2>2
  <2>4. Used(work[h].row) /\ (work[h].skip => Unpaid) /\ work[h].row \in RefundIds
    BY <2>1, <2>2 DEF At, MInv, MoneyIsBacked, StillBacked
  <2>5. w.skip => Unpaid'
    BY <2>0, <1>1, <2>3, <2>4
  <2>6. StillBacked(w)'
    <3>1. Used(w.row)'
      <4>1. refunds'[work[h].row].status # "none"
        BY <1>1, <2>4 DEF Used
      <4>2. QED
        BY <2>3, <4>1 DEF Used
    <3>2. QED
      BY <2>3, <2>5, <3>1 DEF StillBacked
  <2>7. QED
    BY <2>1, <2>6, StepIsBacked
<1>12. ASSUME NEW h \in Handlers, NEW r \in RefundIds, ReconcileRefund(h, r)
       PROVE  AllBacked'
  <2>0. PICK w : w = [pc |-> "settle_call", row |-> r, skip |-> payment # "refund_pending"]
    OBVIOUS
  <2>1. Goto(h, w) /\ refunds[r].status = "refund_pending"
    BY <2>0, <1>12 DEF ReconcileRefund, Stale
  <2>2. w.pc = "settle_call" /\ w.row = r /\ w.skip = (payment # "refund_pending")
    BY <2>0
  <2>3. ASSUME payment # "refund_pending" PROVE Unpaid
    <3>1. r \in InStatus(refunds, "refund_pending") /\ Used(r)
      BY <2>1 DEF InStatus, Used
    <3>2. payment \notin GrossPaidStatuses
      BY <2>3, <3>1 DEF MInv, RefundsMatchPayment, StatusAfterRefunds
    <3>3. payment \notin {"none", "pending"}
      BY <3>1 DEF MInv, MoneyIsBacked
    <3>4. QED
      BY <3>2, <3>3 DEF MInv, IInv, TypeOK, PaymentStatuses, GrossPaidStatuses, Unpaid
  <2>4. Used(r)'
    BY <1>1, <2>1 DEF Used
  <2>5. Used(w.row)' /\ (w.skip => Unpaid')
    BY <2>0, <1>1, <2>2, <2>3, <2>4 DEF Used
  <2>6. StillBacked(w)'
    BY <2>2, <2>5 DEF StillBacked
  <2>7. QED
    BY <2>1, <2>6, StepIsBacked
<1>13. ASSUME NEW h \in Handlers, NEW by \in {"customer", "staff"}, RequestCancel(h, by)
       PROVE  AllBacked'
  <2>0. PICK w : w = [pc |-> "cancel_tx", seen |-> booking, by |-> by,
                   amount |-> IF by = "staff" THEN NetOnlinePaid
                              ELSE RefundAmount(NetOnlinePaid)]
    OBVIOUS
  <2>1. Goto(h, w)
    BY <2>0, <1>13 DEF RequestCancel
  <2>2. w.pc = "cancel_tx"
    BY <2>0
  <2>3. StillBacked(w)'
    BY <2>2 DEF StillBacked
  <2>4. QED
    BY <2>1, <2>3, StepIsBacked
<1>14. ASSUME NEW h \in Handlers, CancelBooking(h) PROVE AllBacked'
  <2>0. PICK w : w = [pc |-> "cancel_refund", amount |-> work[h].amount]
    OBVIOUS
  <2>1. Goto(h, w) \/ Goto(h, Idle)
    BY <2>0, <1>14, Zenon DEF CancelBooking
  <2>2. w.pc = "cancel_refund"
    BY <2>0
  <2>3. StillBacked(w)'
    BY <2>2 DEF StillBacked
  <2>4. QED
    BY <2>1, <2>3, StepIsBacked
<1>15. ASSUME NEW h \in Handlers, RefundCancelled(h) PROVE AllBacked'
  <2>0. PICK w : w = [pc |-> "refund_tx", seen |-> payment, amount |-> work[h].amount,
                   reason |-> "cancellation"]
    OBVIOUS
  <2>1. \/ Goto(h, w) /\ work[h].amount > 0 /\ payment \in RefundableStatuses
        \/ Goto(h, Idle)
    BY <2>0, <1>15 DEF RefundCancelled
  <2>2. /\ w.pc = "refund_tx" /\ w.reason = "cancellation"
        /\ w.amount = work[h].amount /\ w.seen = payment
    BY <2>0
  <2>3. work[h].amount > 0 /\ payment \in RefundableStatuses => StillBacked(w)'
    BY <2>2 DEF StillBacked
  <2>4. QED
    BY <2>1, <2>3, StepIsBacked
<1>16. ASSUME NEW h \in Handlers, RequestNoShow(h) PROVE AllBacked'
  <2>1. Goto(h, [pc |-> "no_show_tx"])
    BY <1>16 DEF RequestNoShow
  <2>2. StillBacked([pc |-> "no_show_tx"])'
    BY DEF StillBacked
  <2>3. QED
    BY <2>1, <2>2, StepIsBacked
<1>17. CASE \/ ExpirePayment \/ CheckIn \/ PaymentDeadlinePasses \/ TimePasses
            \/ UNCHANGED vars
            \/ \E s \in Outcomes, a \in PaidAmounts : ProviderSettles(s, a)
  BY <1>17, OthersAreBacked
  DEF ExpirePayment, CheckIn, PaymentDeadlinePasses, TimePasses, vars, ProviderSettles
<1>18. QED
  BY <1>2, <1>3, <1>4, <1>5, <1>6, <1>7, <1>8, <1>9, <1>10, <1>11, <1>12, <1>13, <1>14,
     <1>15, <1>16, <1>17 DEF Next, Begin, Continue

\* A payment becomes paid only on a success of the provider's own charge.
LEMMA PaidByTheCharge ==
  ASSUME MInv, [Next]_vars, payment = "pending", payment' = "paid"
  PROVE  PaidInFull
<1>1. ASSUME NEW h \in Handlers, NEW e \in Event, Apply(h, e), Success(e) => PaidInFull
      PROVE  PaidInFull
  <2>1. EffectOf(e) = "paid"
    <3>1. CASE EffectOf(e) = "released"
      <4>1. e.status # "paid"
        BY <3>1 DEF EffectOf
      <4>2. QED
        BY <1>1, <3>1, <4>1 DEF Apply
    <3>2. CASE EffectOf(e) \notin {"paid", "released"}
      BY <1>1, <3>2 DEF Apply
    <3>3. QED
      BY <3>1, <3>2
  <2>2. Success(e)
    BY <2>1 DEF EffectOf, Success
  <2>3. QED
    BY <1>1, <2>2
<1>2. ASSUME NEW h \in Handlers, NEW e \in Event, DeliverWebhook(h, e)
      PROVE  PaidInFull
  BY <1>1, <1>2 DEF DeliverWebhook, MInv, MoneyIsBacked
<1>3. ASSUME NEW h \in Handlers, ApplyPolled(h) PROVE PaidInFull
  <2>1. work[h].event \in Event
    BY <1>3, WorkAt DEF ApplyPolled, MInv, IInv
  <2>2. Success(work[h].event) => PaidInFull
    BY <1>3 DEF ApplyPolled, At, MInv, MoneyIsBacked, StillBacked
  <2>3. Apply(h, work[h].event)
    BY <1>3 DEF ApplyPolled
  <2>4. QED
    BY <1>1, <2>1, <2>2, <2>3
<1>4. ASSUME NEW h \in Handlers, ExecuteRefund(h) PROVE FALSE
  BY <1>4 DEF ExecuteRefund
<1>5. ASSUME NEW h \in Handlers, SettleRefund(h) PROVE FALSE
  BY <1>5, SettledFacts DEF SettleRefund, GrossPaidStatuses
<1>6. QED
  BY <1>2, <1>3, <1>4, <1>5, PaymentWriters
  DEF ExpirePayment, CreateBooking, CancelBooking

\* Payment and rows change together, and as the rows say.
LEMMA RowsKept ==
  ASSUME MInv, [Next]_vars
  PROVE  /\ RefundsMatchPayment'
         /\ \A r \in RefundIds : Used(r)' => refunds'[r].amount > 0
         /\ payment' \in {"none", "pending"} => \A r \in RefundIds : ~Used(r)'
         /\ payment' \in GrossPaidStatuses => PaidInFull'
<1> DEFINE Kept ==
             /\ RefundsMatchPayment'
             /\ \A r \in RefundIds : Used(r)' => refunds'[r].amount > 0
             /\ payment' \in {"none", "pending"} => \A r \in RefundIds : ~Used(r)'
             /\ payment' \in GrossPaidStatuses => PaidInFull'
<1>1. PaidInFull => PaidInFull'
  BY NothingComesBack DEF MInv
<1>2. refunds \in [RefundIds -> Refund]
  BY DEF MInv, IInv, TypeOK
<1>3. ASSUME NEW h \in Handlers, ExecuteRefund(h), ~RefundRefused(work[h].amount)
      PROVE  Kept
  <2>1. PICK r \in InStatus(refunds, "none") :
          /\ refunds' \in [RefundIds -> Refund]
          /\ refunds'[r] = [status |-> "refund_pending", amount |-> work[h].amount,
                            reason |-> work[h].reason]
          /\ \A q \in RefundIds : q # r => refunds'[q] = refunds[q]
          /\ payment' = IF /\ work[h].reason # "late_payment"
                           /\ CanTransitionPayment(work[h].seen, "refund_pending")
                        THEN "refund_pending" ELSE payment
    BY <1>3, OpenedRow, Zenon DEF MInv
  <2>2. /\ refunds'[r].status = "refund_pending" /\ refunds'[r].amount = work[h].amount
        /\ refunds'[r].reason = work[h].reason /\ r \in RefundIds
    BY <2>1 DEF InStatus
  <2>3. work[h].amount > 0 /\ PaidInFull
    BY <1>3, OpenedFacts, AmountAssumption
  <2>4. \A q \in RefundIds : Used(q)' => refunds'[q].amount > 0
    BY <2>1, <2>2, <2>3 DEF Used, MInv, MoneyIsBacked
  <2>5. r \in InStatus(refunds', "refund_pending")
    BY <2>2 DEF InStatus
  <2>6. StatusAfterRefunds(refunds') = "refund_pending"
    BY <2>5 DEF StatusAfterRefunds
  <2>7. CASE work[h].reason = "late_payment"
    <3>1. Unpaid /\ (\A q \in RefundIds : ~Used(q)) /\ payment' = payment
      BY <1>3, <2>1, <2>7, OpenedFacts
    <3>2. \A q \in RefundIds \ InStatus(refunds', "none") : q = r
      BY <2>1, <3>1 DEF Used, InStatus
    <3>3. payment' \notin GrossPaidStatuses /\ payment' \notin {"none", "pending"}
      BY <3>1 DEF Unpaid, GrossPaidStatuses
    <3>4. RefundsMatchPayment'
      BY <2>2, <2>7, <3>2, <3>3 DEF RefundsMatchPayment
    <3>5. QED
      BY <2>4, <3>3, <3>4
  <2>8. CASE work[h].reason # "late_payment"
    <3>1. payment' = "refund_pending"
      BY <1>3, <2>1, <2>8, OpenedFacts
    <3>2. payment' \in GrossPaidStatuses /\ payment' \notin {"none", "pending"}
      BY <3>1 DEF GrossPaidStatuses
    <3>3. RefundsMatchPayment'
      BY <2>6, <3>1, <3>2 DEF RefundsMatchPayment
    <3>4. QED
      BY <1>1, <2>3, <2>4, <3>2, <3>3
  <2>9. QED
    BY <2>7, <2>8
<1>4. ASSUME NEW h \in Handlers, SettleRefund(h),
             refunds[work[h].row].status = "refund_pending"
      PROVE  Kept
  <2> DEFINE r == work[h].row
  <2>1. /\ payment \in GrossPaidStatuses =>
             payment = "refund_pending" /\ payment' = StatusAfterRefunds(refunds')
        /\ payment \notin GrossPaidStatuses => Unpaid /\ payment' = payment
        /\ StatusAfterRefunds(refunds') \in {"partially_refunded", "refunded"}
    BY <1>4, SettledFacts
  <2>2. /\ r \in InStatus(refunds, "refund_pending")
        /\ refunds' \in [RefundIds -> Refund]
        /\ refunds'[r].status = "refunded"
        /\ refunds'[r].amount = refunds[r].amount
        /\ refunds'[r].reason = refunds[r].reason
        /\ \A q \in RefundIds : q # r => refunds'[q] = refunds[q]
    BY <1>4, SettledRow DEF MInv
  <2>3. /\ r \in RefundIds /\ Used(r)
        /\ \A q \in RefundIds : refunds'[q].amount = refunds[q].amount
                                /\ refunds'[q].reason = refunds[q].reason
                                /\ Used(q)' = Used(q)
    BY <2>2 DEF InStatus, Used
  <2>4. \A q \in RefundIds : Used(q)' => refunds'[q].amount > 0
    BY <2>3 DEF MInv, MoneyIsBacked
  <2>5. CASE payment \in GrossPaidStatuses
    <3>1. payment' \in GrossPaidStatuses /\ payment' \notin {"none", "pending"}
      BY <2>1, <2>5 DEF GrossPaidStatuses
    <3>2. RefundsMatchPayment'
      BY <2>1, <2>5, <3>1 DEF RefundsMatchPayment
    <3>3. QED
      BY <1>1, <2>4, <2>5, <3>1, <3>2 DEF MInv, MoneyIsBacked
  <2>6. CASE payment \notin GrossPaidStatuses
    <3>1. Unpaid /\ payment' = payment
      BY <2>1, <2>6
    <3>2. payment' \notin GrossPaidStatuses /\ payment' \notin {"none", "pending"}
      BY <3>1 DEF Unpaid, GrossPaidStatuses
    <3>3. \A p, q \in RefundIds : Used(p)' /\ Used(q)' =>
            p = q /\ refunds'[p].reason = "late_payment"
      BY <2>3, <2>6 DEF MInv, RefundsMatchPayment, Used, InStatus
    <3>4. RefundsMatchPayment'
      BY <3>2, <3>3 DEF RefundsMatchPayment, Used, InStatus
    <3>5. QED
      BY <2>4, <3>2, <3>4
  <2>7. QED
    BY <2>5, <2>6
<1>5. CASE refunds' = refunds /\ payment' = payment
  BY <1>1, <1>5 DEF MInv, MoneyIsBacked, RefundsMatchPayment, Used
<1>6. CASE refunds' = refunds /\ payment' # payment
  <2>1. \/ payment = "none" /\ payment' = "pending"
        \/ payment = "pending" /\ payment' \in {"paid", "failed", "expired", "cancelled"}
        \/ Kept
    BY <1>3, <1>4, <1>6, PaymentSteps DEF MInv
  <2>2. ASSUME payment \in {"none", "pending"}
        PROVE  /\ \A r \in RefundIds : ~Used(r) /\ ~Used(r)'
               /\ StatusAfterRefunds(refunds') = "paid"
    <3>1. \A r \in RefundIds : ~Used(r)
      BY <2>2 DEF MInv, MoneyIsBacked
    <3>2. InStatus(refunds, "refund_pending") = {} /\ InStatus(refunds, "refunded") = {}
      BY <3>1 DEF Used, InStatus
    <3>3. SumOf(refunds, {}) = 0
      BY <1>2, SumIsNat
    <3>4. StatusAfterRefunds(refunds) = "paid"
      BY <3>2, <3>3 DEF StatusAfterRefunds
    <3>5. QED
      BY <1>6, <3>1, <3>4 DEF Used
  <2>3. ASSUME payment \in {"none", "pending"},
               payment' \in {"pending", "paid", "failed", "expired", "cancelled"},
               payment' = "paid" => payment = "pending"
        PROVE  Kept
    <3>1. payment' \in GrossPaidStatuses => payment' = "paid"
      BY <2>3 DEF GrossPaidStatuses
    <3>2. payment' = "paid" => PaidInFull'
      BY <1>1, <2>3, PaidByTheCharge
    <3>3. RefundsMatchPayment'
      BY <2>2, <2>3, <3>1 DEF RefundsMatchPayment, Used, InStatus
    <3>4. QED
      BY <2>2, <2>3, <3>1, <3>2, <3>3
  <2>4. QED
    BY <2>1, <2>3
<1>7. QED
  BY <1>3, <1>4, <1>5, <1>6, RefundWriters

\* A success the provider reports is the charge it kept.
LEMMA EmittedKept ==
  ASSUME MInv, [Next]_vars, NEW e \in emitted', Success(e)
  PROVE  PaidInFull'
<1>1. CASE e \in emitted
  BY <1>1, NothingComesBack DEF MInv, MoneyIsBacked
<1>2. ASSUME NEW s \in Outcomes, NEW a \in PaidAmounts, ProviderSettles(s, a),
             e \notin emitted
      PROVE  PaidInFull'
  BY <1>2 DEF ProviderSettles, Success, PaidInFull
<1>3. QED
  BY <1>1, <1>2
  DEF Next, Begin, Continue, CreateBooking, ResumeBooking, DeliverWebhook,
      RefreshPayment, ReconcilePayment, RequestRefund, ReconcileRefund, RequestCancel,
      RequestNoShow, ProviderCreates, ProviderRefusesCreate, SaveReference,
      ApplyPolled, RefundLatePayment, ExecuteRefund, ProviderRefunds,
      ProviderDefersRefund, SettleRefund, CancelBooking, RefundCancelled, MarkNoShow,
      CheckIn, ExpirePayment, Crash, PaymentDeadlinePasses, TimePasses, vars, provider

\* Only a payment gets a reference.
LEMMA ReferenceKept ==
  ASSUME MInv, [Next]_vars, reference'
  PROVE  payment' # "none"
<1>1. payment # "none" => payment' # "none"
  BY NothingComesBack DEF MInv
<1>2. ASSUME NEW h \in Handlers, SaveReference(h) PROVE payment # "none"
  BY <1>2 DEF SaveReference, At, MInv, MoneyIsBacked, StillBacked
<1>3. CASE reference
  BY <1>1, <1>3 DEF MInv, MoneyIsBacked
<1>4. QED
  BY <1>1, <1>2, <1>3
  DEF Next, Begin, Continue, CreateBooking, ResumeBooking, DeliverWebhook,
      RefreshPayment, ReconcilePayment, RequestRefund, ReconcileRefund, RequestCancel,
      RequestNoShow, ProviderCreates, ProviderRefusesCreate, ProviderSettles,
      ApplyPolled, RefundLatePayment, ExecuteRefund, ProviderRefunds,
      ProviderDefersRefund, SettleRefund, CancelBooking, RefundCancelled, MarkNoShow,
      CheckIn, ExpirePayment, Crash, PaymentDeadlinePasses, TimePasses, vars, rows

LEMMA InitMoney ==
  ASSUME Init
  PROVE  MoneyIsBacked /\ RefundsMatchPayment
<1>1. /\ payment = "none" /\ ~reference /\ emitted = {}
      /\ \A r \in RefundIds : refunds[r].status = "none"
      /\ \A h \in Handlers : work[h] = Idle
  BY DEF Init, NoRefund
<1>2. \A h \in Handlers : StillBacked(work[h])
  BY <1>1 DEF StillBacked, Idle
<1>3. QED
  BY <1>1, <1>2 DEF MoneyIsBacked, RefundsMatchPayment, Used, InStatus, GrossPaidStatuses

\* The inductive invariant about money holds in every behaviour.
THEOREM MoneyInvariance == Spec => []MInv
<1>1. Init => RefundsMatchPayment /\ MoneyIsBacked
  BY InitMoney
<1>2. MInv /\ [Next]_vars => (RefundsMatchPayment /\ MoneyIsBacked)'
  BY RowsKept, BackingKept, EmittedKept, ReferenceKept DEF MoneyIsBacked, AllBacked
<1>3. MInv <=> IInv /\ OneRefundInFlight /\ (RefundsMatchPayment /\ MoneyIsBacked)
  BY DEF MInv
<1>4. QED
  BY Invariance, RefundsOneAtATime, <1>1, <1>2, <1>3, PTL DEF Spec

\* The payment's status is the one its refund rows imply, whichever of the
\* reads before the lock was stale; a payment that was never paid has at most
\* the one late refund.
THEOREM RefundsAgree == Spec => []RefundsMatchPayment
<1>1. MInv => RefundsMatchPayment
  BY DEF MInv
<1>2. QED
  BY MoneyInvariance, <1>1, PTL

\* What says paid, and every refund in hand, is backed by the provider's charge.
THEOREM MoneyStaysBacked == Spec => []MoneyIsBacked
<1>1. MInv => MoneyIsBacked
  BY DEF MInv
<1>2. QED
  BY MoneyInvariance, <1>1, PTL

\* A payment moves along the payment table.
THEOREM PaymentsFollowTheTable == Spec => PaymentLifecycle
<1>1. ASSUME MInv, [Next]_vars PROVE PaymentMoves
  <2> SUFFICES ASSUME payment' # payment, payment # "none"
               PROVE  CanTransitionPayment(payment, payment')
    BY DEF PaymentMoves
  <2>1. ASSUME NEW h \in Handlers, ExecuteRefund(h), ~RefundRefused(work[h].amount)
        PROVE  CanTransitionPayment(payment, payment')
    <3>1. work[h].reason # "late_payment" /\ payment' = "refund_pending"
      BY <2>1 DEF ExecuteRefund
    <3>2. payment \in {"paid", "partially_refunded"}
      BY <1>1, <2>1, <3>1, OpenedFacts
    <3>3. QED
      BY <3>1, <3>2 DEF CanTransitionPayment, PaymentTransitions
  <2>2. ASSUME NEW h \in Handlers, SettleRefund(h),
               refunds[work[h].row].status = "refund_pending"
        PROVE  CanTransitionPayment(payment, payment')
    <3>1. /\ payment = "refund_pending"
          /\ payment' \in {"partially_refunded", "refunded"}
      BY <1>1, <2>2, SettledFacts DEF GrossPaidStatuses
    <3>2. QED
      BY <3>1 DEF CanTransitionPayment, PaymentTransitions
  <2>3. CASE payment = "pending"
             /\ payment' \in {"paid", "failed", "expired", "cancelled"}
    BY <2>3 DEF CanTransitionPayment, PaymentTransitions
  <2>4. QED
    BY <1>1, <2>1, <2>2, <2>3, PaymentSteps DEF MInv
<1>2. QED
  BY MoneyInvariance, <1>1, PTL DEF Spec, PaymentLifecycle

-----------------------------------------------------------------------------
(* The ledger.                                                             *)

\* Every step of the rows is a step of the ledger or leaves it alone.
LEMMA LedgerStep ==
  ASSUME MInv, [Next]_vars
  PROVE  [Ledger!LedgerNext]_(Ledger!ledger)
<1> DEFINE pending == SumOf(refunds, InStatus(refunds, "refund_pending"))
           given == SumOf(refunds, InStatus(refunds, "refunded"))
           received == IF PaidInFull THEN Amount ELSE 0
<1>1. refunds \in [RefundIds -> Refund]
  BY DEF MInv, IInv, TypeOK
<1>2. ASSUME NEW h \in Handlers, ExecuteRefund(h), ~RefundRefused(work[h].amount)
      PROVE  \E a \in 1..Amount : Ledger!OpenRefund(a)
  <2> DEFINE a == work[h].amount
  <2>1. /\ a \in 1..Amount /\ PaidInFull /\ pending = 0 /\ given \in Nat
        /\ given + a <= Amount
    BY <1>2, OpenedFacts
  <2>2. PICK r \in InStatus(refunds, "none") :
          /\ refunds' \in [RefundIds -> Refund]
          /\ refunds'[r] = [status |-> "refund_pending", amount |-> work[h].amount,
                            reason |-> work[h].reason]
          /\ \A q \in RefundIds : q # r => refunds'[q] = refunds[q]
    BY <1>2, OpenedRow, Zenon DEF MInv
  <2>3. refunds'[r].status = "refund_pending" /\ refunds'[r].amount = a
    BY <2>2
  <2>4. InStatus(refunds, "refund_pending") = {}
    BY <1>2 DEF RefundRefused
  <2>5. pending' = a /\ given' = given
    BY <1>1, <2>2, <2>3, <2>4, OpenedSums
  <2>6. charge' = charge
    BY <1>2 DEF ExecuteRefund, provider
  <2>7. received = Amount /\ received' = Amount
    BY <2>1, <2>6 DEF PaidInFull
  <2>8. a <= received - given
    <3> HIDE DEF given, received, a
    <3>1. QED
      BY <2>1, <2>7, AmountAssumption
  <2>9. Ledger!OpenRefund(a)
    BY <2>1, <2>5, <2>7, <2>8 DEF Ledger!OpenRefund, PaidInFull
  <2>10. QED
    BY <2>1, <2>9
<1>3. ASSUME NEW h \in Handlers, SettleRefund(h),
             refunds[work[h].row].status = "refund_pending"
      PROVE  Ledger!CloseRefund
  <2> DEFINE a == refunds[work[h].row].amount
  <2>1. /\ a \in 1..Amount /\ pending = a /\ pending' = 0 /\ given' = given + a
    BY <1>3, SettledFacts
  <2>2. charge' = charge
    BY <1>3 DEF SettleRefund, provider
  <2>3. a > 0
    BY <2>1, AmountAssumption
  <2>4. QED
    BY <2>1, <2>2, <2>3 DEF Ledger!CloseRefund, PaidInFull
<1>4. CASE refunds' = refunds
  <2>1. pending' = pending /\ given' = given
    BY <1>4
  <2>2. PaidInFull => PaidInFull'
    BY NothingComesBack DEF MInv
  <2>3. CASE PaidInFull' <=> PaidInFull
    BY <2>1, <2>3 DEF PaidInFull, Ledger!ledger
  <2>4. CASE ~PaidInFull /\ PaidInFull'
    BY <2>1, <2>4 DEF PaidInFull, Ledger!Receive, Ledger!LedgerNext
  <2>5. QED
    BY <2>2, <2>3, <2>4
<1>5. QED
  BY <1>2, <1>3, <1>4, RefundWriters DEF Ledger!LedgerNext

\* The rows implement the ledger: every behaviour of handlers, provider and
\* clock is, to the money, a behaviour of PaymentLedger.
THEOREM RowsImplementLedger == Spec => LedgerImplemented
<1>1. Init => Ledger!LedgerInit
  <2>1. SUFFICES ASSUME Init PROVE Ledger!LedgerInit
    OBVIOUS
  <2>2. refunds \in [RefundIds -> Refund]
    BY InitIInv, <2>1 DEF IInv, TypeOK
  <2>3. InStatus(refunds, "refund_pending") = {} /\ InStatus(refunds, "refunded") = {}
    BY <2>1 DEF Init, NoRefund, InStatus
  <2>4. SumOf(refunds, {}) = 0
    BY <2>2, SumIsNat
  <2>5. charge.status = "none"
    BY <2>1 DEF Init
  <2>6. QED
    BY <2>3, <2>4, <2>5 DEF Ledger!LedgerInit, PaidInFull
<1>2. MInv /\ [Next]_vars => [Ledger!LedgerNext]_(Ledger!ledger)
  BY LedgerStep
<1>3. QED
  BY MoneyInvariance, <1>1, <1>2, PTL DEF Spec, LedgerImplemented, Ledger!LedgerSpec

\* What the ledger promises, it keeps.
LEMMA LedgerIsSafe ==
  Ledger!LedgerSpec => [](Ledger!LedgerTypeOK /\ Ledger!NeverOverRefunded)
<1> DEFINE Safe == Ledger!LedgerTypeOK /\ Ledger!NeverOverRefunded
<1> USE AmountAssumption DEF Ledger!LedgerTypeOK, Ledger!NeverOverRefunded
<1>1. Ledger!LedgerInit => Safe
  BY DEF Ledger!LedgerInit
<1>2. Safe /\ [Ledger!LedgerNext]_(Ledger!ledger) => Safe'
  BY DEF Ledger!LedgerNext, Ledger!ledger, Ledger!Receive, Ledger!OpenRefund,
         Ledger!CloseRefund
<1>3. QED
  BY <1>1, <1>2, PTL DEF Ledger!LedgerSpec

\* Completed and pending refunds of a payment never exceed what the provider
\* took for it.
THEOREM NothingIsOverRefunded == Spec => []Ledger!NeverOverRefunded
<1>1. Ledger!LedgerTypeOK /\ Ledger!NeverOverRefunded => Ledger!NeverOverRefunded
  OBVIOUS
<1>2. QED
  BY RowsImplementLedger, LedgerIsSafe, <1>1, PTL DEF LedgerImplemented

=============================================================================
