-------------------------------- MODULE Visit --------------------------------
(***************************************************************************)
(* What the outlet and the customer do around a visit: cashiers confirm    *)
(* what is paid at the location (confirmPayAtLocation), and customers      *)
(* review the bookings that were completed (createReviewRun), of one       *)
(* business.                                                               *)
(*                                                                         *)
(* A booking has the payment it was made with, and the receipts cashiers   *)
(* add for what an online deposit left open.  Both handlers read before    *)
(* their transactions, and a review's transaction holds the business row   *)
(* while it counts.                                                        *)
(***************************************************************************)
EXTENDS Integers, Sequences, FiniteSets, Functions

CONSTANTS
  Bookings, Staff, Workers, None,
  Price, Deposit,  \* the service's price and the deposit asked online
  Ratings,         \* the ratings a review may give
  MaxReceipts      \* bound: receipts added to one booking

ASSUME VisitAssumption ==
  /\ IsFiniteSet(Bookings) /\ None \notin Bookings
  /\ Price \in Nat /\ Deposit \in 1..Price
  /\ Ratings \subseteq 1..5 /\ MaxReceipts \in Nat

VARIABLES
  booking,   \* the bookings' status and staff member
  payment,   \* the payment each was made with
  receipts,  \* the amounts of the receipts added, in their order
  audited,   \* payment.pay_at_location_confirm in audit_logs: amounts summed
  review,    \* reviews: the rating, 0 for none
  rating,    \* the stored aggregates of the business (None) and of its staff
  job        \* what each request does

money == <<payment, receipts, audited>>
vars == <<booking, money, review, rating, job>>

-----------------------------------------------------------------------------
(* Helpers.                                                                *)

\* What a request read: the payment and receipts, or the reviews it counted.
Idle == [step |-> "idle", booking |-> None, rows |-> <<>>, amount |-> 0, rated |-> <<>>]

Is(w, step) == job[w].step = step
Begin(w, fields) == Is(w, "idle") /\ job' = [job EXCEPT ![w] = fields]
Finish(w) == job' = [job EXCEPT ![w] = Idle]

AtLocation(p) == p.provider = "pay_at_location"

\* summarizePayments: what was received, refunds not subtracted.
GrossPaid(b) ==
  (IF payment[b].status \in {"paid", "refunded"} THEN payment[b].amount ELSE 0)
    + SumFunction(receipts[b])

\* Deviation: only what the payment at hand is about is looked at.
PriceOpen(b) == Price

Outstanding(b) == Price - GrossPaid(b)

Rows(b) == <<payment[b], receipts[b]>>

-----------------------------------------------------------------------------
(* payments.service.ts: confirmPayAtLocation.  The booking's status is not *)
(* asked for.                                                              *)

ConfirmReads(w, b) ==
  LET pending == AtLocation(payment[b]) /\ payment[b].status = "pending" IN
  /\ pending \/ Outstanding(b) > 0
  /\ Begin(w, [Idle EXCEPT !.step = IF pending THEN "receiving" ELSE "settling",
                           !.booking = b, !.rows = Rows(b), !.amount = Outstanding(b)])
  /\ UNCHANGED <<booking, money, review, rating>>

\* Deviation: the update has no status guard.
WhateverStatus(b) == TRUE

StillPending(b) == payment[b].status = "pending"

\* The pending receipt becomes paid; a confirmation or cancellation before it
\* leaves the guarded update without a row.
ConfirmPending(w) ==
  LET b == job[w].booking IN
  /\ Is(w, "receiving")
  /\ IF StillPending(b)
     THEN /\ payment' = [payment EXCEPT ![b].status = "paid"]
          /\ audited' = [audited EXCEPT ![b] = @ + job[w].amount]
     ELSE UNCHANGED <<payment, audited>>
  /\ Finish(w)
  /\ UNCHANGED <<booking, receipts, review, rating>>

\* The remainder gets a receipt of its own: nothing guards this insert.
ConfirmRemainder(w) ==
  LET b == job[w].booking IN
  /\ Is(w, "settling") /\ Len(receipts[b]) < MaxReceipts
  /\ receipts' = [receipts EXCEPT ![b] = Append(@, job[w].amount)]
  /\ audited' = [audited EXCEPT ![b] = @ + job[w].amount]
  /\ Finish(w)
  /\ UNCHANGED <<booking, payment, review, rating>>

-----------------------------------------------------------------------------
(* What else happens to the booking and its payment.                       *)

\* The provider tells of a success, and of a refund.  (What a success that comes
\* too late does to a payment is in BookingPayment.)
OnlinePaid(b) ==
  /\ ~AtLocation(payment[b]) /\ payment[b].status = "pending"
  /\ payment' = [payment EXCEPT ![b].status = "paid"]
  /\ UNCHANGED <<booking, receipts, audited, review, rating, job>>

OnlineRefunded(b) ==
  /\ ~AtLocation(payment[b]) /\ payment[b].status = "paid"
  /\ payment' = [payment EXCEPT ![b].status = "refunded"]
  /\ UNCHANGED <<booking, receipts, audited, review, rating, job>>

\* A cancellation, with the payments that are pending.
Cancel(b) ==
  /\ booking[b].status = "open"
  /\ booking' = [booking EXCEPT ![b].status = "cancelled"]
  /\ payment' = [payment EXCEPT ![b].status = IF @ = "pending" THEN "cancelled" ELSE @]
  /\ UNCHANGED <<receipts, audited, review, rating, job>>

Complete(b) ==
  /\ booking[b].status = "open"
  /\ booking' = [booking EXCEPT ![b].status = "completed"]
  /\ UNCHANGED <<money, review, rating, job>>

-----------------------------------------------------------------------------
(* reviews.service.ts.                                                     *)

\* Only a completed booking, and only once.
ReviewReads(w, b, stars) ==
  /\ booking[b].status = "completed" /\ review[b] = 0
  /\ Begin(w, [Idle EXCEPT !.step = "reviewing", !.booking = b, !.amount = stars])
  /\ UNCHANGED <<booking, money, review, rating>>

\* Deviation: the business row is not locked.
LockNothing == TRUE

\* SELECT ... FOR UPDATE on the business.
BusinessFree == \A v \in Workers : ~Is(v, "counting")

\* The row is inserted, unless the booking got its review first, and counted
\* together with those that were committed.
ReviewCounts(w) ==
  LET b == job[w].booking IN
  /\ Is(w, "reviewing") /\ BusinessFree
  /\ IF review[b] # 0 THEN Finish(w)
     ELSE job' = [job EXCEPT ![w].step = "counting",
                             ![w].rated = [review EXCEPT ![b] = job[w].amount]]
  /\ UNCHANGED <<booking, money, review, rating>>

\* How many of the bookings B are reviewed, and the sum of their ratings; the
\* stored average is the quotient.
Aggregate(rated, B) ==
  [count |-> Cardinality({b \in B : rated[b] # 0}),
   sum |-> SumFunctionOnSet(rated, B)]

\* Who a review counts for: the business and the staff member of the booking.
BookingsOf(x) == IF x = None THEN Bookings ELSE {b \in Bookings : booking[b].staff = x}

\* Both aggregates are written and the transaction commits; a second review of
\* the booking waits for the first and hits the unique index.
ReviewCommits(w) ==
  LET b == job[w].booking IN
  /\ Is(w, "counting")
  /\ IF review[b] # 0 THEN UNCHANGED <<review, rating>>
     ELSE /\ review' = [review EXCEPT ![b] = job[w].amount]
          /\ rating' = [x \in Staff \cup {None} |->
               IF x \in {None, booking[b].staff}
               THEN Aggregate(job[w].rated, BookingsOf(x)) ELSE rating[x]]
  /\ Finish(w)
  /\ UNCHANGED <<booking, money>>

\* The process stops: what was not committed is rolled back.
Stop(w) ==
  /\ ~Is(w, "idle")
  /\ Finish(w)
  /\ UNCHANGED <<booking, money, review, rating>>

-----------------------------------------------------------------------------

AtLocationRow == [provider |-> "pay_at_location", status |-> "pending", amount |-> Price]
DepositRow == [provider |-> "online", status |-> "pending", amount |-> Deposit]

Init ==
  /\ booking \in [Bookings -> [status : {"open"}, staff : Staff]]
  /\ payment \in [Bookings -> {AtLocationRow, DepositRow}]
  /\ receipts = [b \in Bookings |-> <<>>]
  /\ audited = [b \in Bookings |-> 0]
  /\ review = [b \in Bookings |-> 0]
  /\ rating = [x \in Staff \cup {None} |-> [count |-> 0, sum |-> 0]]
  /\ job = [w \in Workers |-> Idle]

Handler(w) ==
  \/ \E b \in Bookings : ConfirmReads(w, b) \/ \E stars \in Ratings : ReviewReads(w, b, stars)
  \/ ConfirmPending(w) \/ ConfirmRemainder(w) \/ ReviewCounts(w) \/ ReviewCommits(w)

Next ==
  \/ \E w \in Workers : Handler(w) \/ Stop(w)
  \/ \E b \in Bookings : OnlinePaid(b) \/ OnlineRefunded(b) \/ Cancel(b) \/ Complete(b)

Spec == Init /\ [][Next]_vars

-----------------------------------------------------------------------------
(* Properties.                                                             *)

\* The audit log accounts for all the money taken at the location: of two
\* confirmations of one pending receipt one has an effect (the status guard).
AuditMatchesReceipts ==
  \A b \in Bookings :
    audited[b] = SumFunction(receipts[b])
      + (IF AtLocation(payment[b]) /\ payment[b].status = "paid" THEN payment[b].amount ELSE 0)

\* More than the price is only taken when a confirmation of a remainder meets
\* another change of the booking's payments between its read and its insert, or
\* when the online payment succeeds after a cashier took the whole price.
OverpaidMeansOverlap ==
  [][\A b \in Bookings :
       GrossPaid(b) <= Price /\ GrossPaid(b)' > Price =>
         \/ \E w \in Workers : Is(w, "settling") /\ job[w].booking = b /\ job[w].rows # Rows(b)
         \/ receipts[b] # <<>> /\ payment'[b] # payment[b]]_vars

\* The stored aggregates are those of the published reviews, for the business
\* and for each of its staff, however reviews overlap (ADR 0038).
RatingsMatchReviews ==
  \A x \in Staff \cup {None} : rating[x] = Aggregate(review, BookingsOf(x))

=============================================================================
