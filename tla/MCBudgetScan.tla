---------------------------- MODULE MCBudgetScan ----------------------------
(* Instances of BudgetScan for TLC. *)
EXTENDS BudgetScan, TLC

CONSTANTS t1, t2, free

\* One record of 4 takes t1 past 80% and t2 past both thresholds.
Budgets == t1 :> 5 @@ t2 :> 4 @@ free :> 0
=============================================================================
