------------------------------ MODULE Schedules ------------------------------
(***************************************************************************)
(* The arithmetic of schedules (modules/schedules/slots.ts and the mapping *)
(* functions of schedules.service.ts): opening periods, breaks, and the    *)
(* slots a service of some duration can take.                              *)
(*                                                                         *)
(* Minutes are natural numbers, a period of a day is the half-open range   *)
(* [start, end), and a list of periods is the set of them: no function     *)
(* here depends on their order.                                            *)
(***************************************************************************)
EXTENDS Integers, FiniteSets, FiniteSetsExt

-----------------------------------------------------------------------------
(* Ranges.                                                                 *)

Period(a, b) == [start |-> a, end |-> b]

Overlap(p, q) == p.start < q.end /\ q.start < p.end

\* What an edit may store: no period is empty, and no two of them overlap.
ValidPeriods(periods) ==
  /\ \A p \in periods : p.start < p.end
  /\ \A p, q \in periods : p # q => ~Overlap(p, q)

\* Deviation: only what comes before the cut is kept.
KeptBefore(range, cut) ==
  IF cut.end <= range.start \/ cut.start >= range.end THEN {range}
  ELSE {p \in {Period(range.start, cut.start)} : p.start < p.end}

\* What a cut leaves of a range: the range, or what lies before and after.
Kept(range, cut) ==
  IF cut.end <= range.start \/ cut.start >= range.end THEN {range}
  ELSE {p \in {Period(range.start, cut.start), Period(cut.end, range.end)} : p.start < p.end}

CutAll(ranges, cut) == UNION {Kept(r, cut) : r \in ranges}

SubtractRanges(base, cuts) == FoldSet(LAMBDA cut, left : CutAll(left, cut), base, cuts)

Covers(ranges, slot) == \E r \in ranges : r.start <= slot.start /\ slot.end <= r.end

-----------------------------------------------------------------------------
(* The slots of a day.                                                     *)

\* The grid steps by the duration from the start of every period.
SlotGrid(periods, duration) ==
  UNION {{Period(p.start + k * duration, p.start + (k + 1) * duration) :
            k \in {i \in 0..(p.end - p.start) : p.start + (i + 1) * duration <= p.end}}
         : p \in periods}

\* Deviation: the outlet's hours are taken for the staff member's.
SlotsOfOutlet(periods, duration, availability, cutoff) ==
  {s \in SlotGrid(periods, duration) : s.start >= cutoff}

\* The available slots: from the cutoff on, and covered by the staff member.
BuildSlots(periods, duration, availability, cutoff) ==
  {s \in SlotGrid(periods, duration) : s.start >= cutoff /\ Covers(availability, s)}

-----------------------------------------------------------------------------
(* The schedule of a staff member: a day of it is its periods and breaks,  *)
(* and one who never had a schedule follows the outlet's hours.            *)

DayOff == [periods |-> {}, breaks |-> {}]

\* What an edit of a day is accepted as: breaks stay inside one period.
ValidStaffDay(day) ==
  /\ ValidPeriods(day.periods)
  /\ ValidPeriods(day.breaks)
  /\ \A b \in day.breaks : Covers(day.periods, b)

\* A staff member assigned to other outlets only is never available here.
StaffAvailability(here, configured, day, outletPeriods) ==
  IF ~here THEN {}
  ELSE IF ~configured THEN outletPeriods
  ELSE SubtractRanges(day.periods, day.breaks)

=============================================================================
