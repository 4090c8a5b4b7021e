------------------------------- MODULE MCQueue -------------------------------
(* Queue on small instances. *)
EXTENDS Queue

CONSTANTS b1, b2, b3, s1, s2, a1, a2

TwoBookings == {b1, b2}
ThreeBookings == {b1, b2, b3}
OneScheduled == {b1}
TwoScheduled == {b1, b2}
TwoStaff == {s1, s2}
OneStaff == {s1}
TwoAgents == {a1, a2}
OneAgent == {a1}

SymmetricAgents == Permutations(TwoStaff) \cup Permutations(TwoAgents)

SymmetricBookings == Permutations(TwoScheduled) \cup Permutations(TwoStaff)

=============================================================================
