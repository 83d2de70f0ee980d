-------------------------- MODULE MCPayrollPeriod --------------------------
(***************************************************************************)
(* Small instances of PayrollPeriod: one month, an ACTIVE employee and one *)
(* on PROBATION, attendance of zero or one paid day, a preparer, a GM and  *)
(* a director who holds both permissions.                                  *)
(***************************************************************************)
EXTENDS PayrollPeriod, TLC

CONSTANTS p1, e1, e2, finance, gm, director, d1, d2, s1, s2

MCDays      == {0, 1}
MCLeastDays == e1 :> 0 @@ e2 :> 1
Symmetry    == Permutations({s1, s2})
=============================================================================
