----------------------------- MODULE MCSessions -----------------------------
(***************************************************************************)
(* Model values for Sessions: two requests at a time.                      *)
(***************************************************************************)
EXTENDS Sessions, TLC

CONSTANTS u1, u2, a1, a2, a3, t1, t2, d1, w1, w2

TheUsers == {u1, u2}
TheSids == {a1, a2, a3}
TheTokens == {t1, t2}
TheDevices == {d1}
ThePhones == {}
TheWorkers == {w1, w2}

\* The model values of a kind are not told apart.
Symmetry ==
  {u @@ s @@ t @@ w : u \in Permutations(TheUsers), s \in Permutations(TheSids),
                      t \in Permutations(TheTokens), w \in Permutations(TheWorkers)}

=============================================================================
