---------------------------- MODULE StatusPolicy ----------------------------
(***************************************************************************)
(* The three status machines of the bookings module, as data: the booking  *)
(* lifecycle, the payment lifecycle and the queue lifecycle, with the      *)
(* status groups the services test membership of.  Every other module      *)
(* reads a status through these tables.                                    *)
(***************************************************************************)

BookingStatuses ==
  {"draft", "pending_payment", "confirmed", "checked_in", "waiting", "called",
   "in_service", "completed", "cancelled", "expired", "no_show"}

\* The statuses whose booking holds a staff reservation.
BlockingStatuses ==
  {"pending_payment", "confirmed", "checked_in", "waiting", "called", "in_service"}

TerminalStatuses == {"completed", "cancelled", "expired", "no_show"}

BookingTransitions ==
  ({"draft"}           \X {"pending_payment", "confirmed"}) \cup
  ({"pending_payment"} \X {"confirmed", "expired", "cancelled"}) \cup
  ({"confirmed"}       \X {"checked_in", "cancelled", "no_show"}) \cup
  ({"checked_in"}      \X {"waiting"}) \cup
  ({"waiting"}         \X {"called", "no_show"}) \cup
  ({"called"}          \X {"in_service", "no_show", "waiting"}) \cup
  ({"in_service"}      \X {"completed"})

CanTransition(from, to) == <<from, to>> \in BookingTransitions

-----------------------------------------------------------------------------

PaymentStatuses ==
  {"pending", "paid", "failed", "expired", "cancelled", "refund_pending",
   "partially_refunded", "refunded"}

PaymentTransitions ==
  ({"pending"}            \X {"paid", "failed", "expired", "cancelled"}) \cup
  ({"paid"}               \X {"refund_pending"}) \cup
  ({"refund_pending"}     \X {"partially_refunded", "refunded"}) \cup
  ({"partially_refunded"} \X {"refund_pending", "refunded"})

CanTransitionPayment(from, to) == <<from, to>> \in PaymentTransitions

\* The statuses in which money was received, refunded since or not.
GrossPaidStatuses == {"paid", "refund_pending", "partially_refunded", "refunded"}

\* Deviation: a payment that is still awaited may be refunded.
RefundableWhenAwaited == {"pending", "paid", "partially_refunded"}

\* The statuses a new refund may start from.
RefundableStatuses == {"paid", "partially_refunded"}

-----------------------------------------------------------------------------

QueueStatuses ==
  {"waiting", "called", "skipped", "in_service", "completed", "cancelled", "no_show"}

TerminalQueueStatuses == {"completed", "cancelled", "no_show"}

\* The entries a customer still counts as ahead of his own.
AheadStatuses == {"waiting", "called", "in_service"}

\* The entries a reorder may touch.
ReorderableStatuses == {"waiting", "skipped"}

QueueTransitions ==
  ({"waiting"}    \X {"called", "cancelled"}) \cup
  ({"called"}     \X {"in_service", "skipped", "no_show", "cancelled"}) \cup
  ({"skipped"}    \X {"waiting", "no_show"}) \cup
  ({"in_service"} \X {"completed"})

CanTransitionQueue(from, to) == <<from, to>> \in QueueTransitions

\* The booking status a queue status stands for: skipping is invisible to the
\* booking.
BookingStatusForQueue(status) == IF status = "skipped" THEN "waiting" ELSE status

=============================================================================
