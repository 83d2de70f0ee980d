------------------------------ MODULE MCLeave ------------------------------
(***************************************************************************)
(* Small instances of Leave: one employee who asks, three users who may    *)
(* approve (the employee among them) and two requests.  Handlers one after *)
(* another: a paid type with one day a year and an unpaid one, three days  *)
(* of which the middle one is a holiday and the last is in the next year.  *)
(***************************************************************************)
EXTENDS Leave, TLC

CONSTANTS e1, u0, u1, u2, paid, unpaid, r1, r2, s1, s2

MCUserOf      == e1 :> u0
MCDefaultDays == paid :> 1 @@ unpaid :> 0
MCDates       == 1..3
MCWorkdays    == {1, 3}
MCYearOf      == [d \in MCDates |-> IF d <= 2 THEN 1 ELSE 2]

\* For handlers in flight together: one type, two working days, two days' leave.
MCTwoDays     == {1, 2}
MCSameYear    == 1 :> 1 @@ 2 :> 1
MCTwoType     == paid :> 2
Symmetry      == Permutations({r1, r2})
SymmetryPairs == Permutations({r1, r2}) \cup Permutations({s1, s2})
=============================================================================
