---------------------------- MODULE MCPlanReuse ----------------------------
EXTENDS PlanReuse, TLC

(* Sessions run the same code, and so do writers. *)
Symmetric == Permutations(Sessions) \cup Permutations(Writers)
=============================================================================
