------------------------------ MODULE MCVisit ------------------------------
(***************************************************************************)
(* Model values for Visit: two bookings and two requests at a time, a price*)
(* of two with a deposit of one.                                           *)
(***************************************************************************)
EXTENDS Visit, TLC

CONSTANTS b1, b2, s1, s2, w1, w2

TheBookings == {b1, b2}
TheStaff == {s1, s2}
TheWorkers == {w1, w2}
TheRatings == {1, 5}

\* The model values of a kind are not told apart.
Symmetry ==
  Permutations(TheBookings) \cup Permutations(TheStaff) \cup Permutations(TheWorkers)

=============================================================================
