--------------------------- MODULE MCBookingPayment -------------------------
(* BookingPayment on small instances. *)
EXTENDS BookingPayment, TLC

CONSTANTS h1, h2, r1, r2

TwoHandlers == {h1, h2}
OneHandler == {h1}
TwoRefunds == {r1, r2}
OneRefund == {r1}

Symmetric == Permutations(TwoHandlers) \cup Permutations(TwoRefunds)

=============================================================================
