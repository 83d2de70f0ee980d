--------------------------- MODULE MCPayrollSlips ---------------------------
(***************************************************************************)
(* Small instances of PayrollSlips: two slips, amounts of some millions    *)
(* that reach the tax brackets.                                            *)
(***************************************************************************)
EXTENDS PayrollSlips, TLC

CONSTANTS p1, p2, c1, c2, c3, c4, s1, s2

MCAmounts == {5, 45}
MCTaxes   == {45}
MCEntries == {[kind |-> "INCOME", code |-> "OTHER", amount |-> 5],
              [kind |-> "INCOME", code |-> "PPH21", amount |-> 45],
              [kind |-> "DEDUCTION", code |-> "OTHER", amount |-> 5],
              [kind |-> "DEDUCTION", code |-> "PPH21", amount |-> 5]}
Symmetry  == Permutations({p1, p2}) \cup Permutations({c1, c2, c3, c4}) \cup Permutations({s1, s2})
=============================================================================
