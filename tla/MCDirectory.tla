---------------------------- MODULE MCDirectory ----------------------------
(***************************************************************************)
(* Model values for Directory: two businesses and two users, so that each  *)
(* can own one and work in the other, and two requests at a time.          *)
(***************************************************************************)
EXTENDS Directory, TLC

CONSTANTS b1, b2, u1, u2, s1, i1, i2, n1, w1, w2

TheBusinesses == {b1, b2}
TheUsers == {u1, u2}
TheServices == {s1}
TheInvitations == {i1, i2}
TheNames == {n1}
TheWorkers == {w1, w2}

\* The model values of a kind are not told apart.
Symmetry ==
  Permutations(TheBusinesses) \cup Permutations(TheUsers)
    \cup Permutations(TheInvitations) \cup Permutations(TheWorkers)

=============================================================================
