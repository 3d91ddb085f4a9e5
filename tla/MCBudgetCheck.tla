--------------------------- MODULE MCBudgetCheck ----------------------------
(* Instances of BudgetCheck for TLC: accounts are interchangeable. *)
EXTENDS BudgetProps, TLC

Symmetry == Permutations(Accounts)
=============================================================================
