--------------------------- MODULE PaymentLedger ----------------------------
(***************************************************************************)
(* What the payment rows promise about money, without statuses, handlers   *)
(* or events: an amount is received once, and refunds give it back one at  *)
(* a time, never more than was received.                                   *)
(***************************************************************************)
EXTENDS Integers

CONSTANT Amount   \* what the booking asks for

VARIABLES
  received,   \* what the provider took for this payment
  refunding,  \* the refund the provider has not settled yet
  returned    \* what settled refunds gave back

ledger == <<received, refunding, returned>>

LedgerInit == received = 0 /\ refunding = 0 /\ returned = 0

Receive ==
  /\ received = 0
  /\ received' = Amount
  /\ UNCHANGED <<refunding, returned>>

\* A refund is opened only when no other is open.
OpenRefund(a) ==
  /\ refunding = 0
  /\ a <= received - returned
  /\ refunding' = a
  /\ UNCHANGED <<received, returned>>

CloseRefund ==
  /\ refunding > 0
  /\ returned' = returned + refunding
  /\ refunding' = 0
  /\ UNCHANGED received

LedgerNext ==
  \/ Receive
  \/ \E a \in 1..Amount : OpenRefund(a)
  \/ CloseRefund

LedgerSpec == LedgerInit /\ [][LedgerNext]_ledger

-----------------------------------------------------------------------------

LedgerTypeOK == received \in {0, Amount} /\ refunding \in Nat /\ returned \in Nat

\* Completed and pending refunds together never exceed what was received
\* (availableRefundable and the amount check of executeRefund).
NeverOverRefunded == refunding + returned <= received

=============================================================================
