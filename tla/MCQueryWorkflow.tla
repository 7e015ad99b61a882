---------------------------- MODULE MCQueryWorkflow ----------------------------
(* Instances of QueryWorkflow for TLC. *)
EXTENDS QueryWorkflowRefinement, TLC

Symmetry == Permutations(Queries) \cup Permutations(Texts) \cup Permutations(Updates)
================================================================================
