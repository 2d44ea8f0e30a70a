--------------------------- MODULE MCPlanBilling ---------------------------
(* PlanBilling for TLC: one plan that is sold, and the demo plan.          *)
EXTENDS PlanBilling, TLC

CONSTANTS o1, k1, k2, a1, a2, Pro

Lengths == Pro :> 2 @@ Free :> 1

Symmetry == Permutations(Calls) \cup Permutations(Attempts)
=============================================================================
