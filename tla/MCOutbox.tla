------------------------------- MODULE MCOutbox -------------------------------
(***************************************************************************)
(* Model values for Outbox.                                                *)
(***************************************************************************)
EXTENDS Outbox

CONSTANTS r1, r2, d1, d2

TwoRows == {r1, r2}
TwoSweeps == {d1, d2}

=============================================================================
