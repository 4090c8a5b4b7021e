-------------------------- MODULE MCBookingCreation --------------------------
(***************************************************************************)
(* Model values for BookingCreation: two dates of six minutes, a service of*)
(* two, and weeks with a gap, an early closing and a break.                *)
(***************************************************************************)
EXTENDS BookingCreation, TLC

CONSTANTS r1, r2, r3, c1, c2, s1, s2

ThreeRequests == {r1, r2, r3}
TwoCustomers == {c1, c2}
TwoStaff == {s1, s2}
TwoDates == {0, 1}

Ask(c, t, o) == [customer |-> c, staff |-> s1, start |-> t, online |-> o]

\* Two that overlap, one of them not on the grid, and one on the other date.
SomeAsks == {Ask(c1, 2, TRUE), Ask(c2, 3, FALSE), Ask(c1, 8, FALSE)}

Week(a, b) == 0 :> a @@ 1 :> b

\* The last one is not valid: its periods overlap.
SomeHours == {Week({Period(0, 2), Period(2, 5)}, {}),
              Week({}, {Period(2, 6)}),
              Week({Period(0, 4), Period(3, 6)}, {Period(0, 6)})}

Day(periods, breaks) == [periods |-> periods, breaks |-> breaks]

\* The last one is not valid: its break reaches over the end of the period.
SomeWeeks == {Week(Day({Period(0, 6)}, {Period(2, 3), Period(4, 5)}), DayOff),
              Week(Day({Period(0, 2), Period(2, 6)}, {}), Day({Period(0, 6)}, {Period(1, 2)})),
              Week(Day({Period(0, 4)}, {Period(3, 5)}), DayOff)}

\* Requests are not told apart.
Symmetry == Permutations(Requests)

=============================================================================
