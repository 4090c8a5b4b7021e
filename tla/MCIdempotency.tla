---------------------------- MODULE MCIdempotency ----------------------------
(***************************************************************************)
(* Model values for Idempotency.                                           *)
(***************************************************************************)
EXTENDS Idempotency, TLC

CONSTANTS r1, r2, r3, p1, p2

ThreeRequests == {r1, r2, r3}
TwoPayloads == {p1, p2}

\* Neither requests nor payloads are told apart.
Symmetry == Permutations(Requests) \cup Permutations(Payloads)

=============================================================================
