------------------------- MODULE MCSalesCommission -------------------------
(***************************************************************************)
(* Small instances of SalesCommission: one or two leads of one sales user  *)
(* (or two) and two months of payroll.                                     *)
(***************************************************************************)
EXTENDS SalesCommission, TLC

CONSTANTS l1, l2, u1, u2, s1, s2

MCPeriods == {1, 2}
Symmetry  == Permutations({s1, s2})
=============================================================================
