--------------------- MODULE MCDocumentLifecycleRefinement ---------------------
(* Instances of DocumentLifecycleRefinement for TLC. *)
EXTENDS DocumentLifecycleRefinement, TLC

\* Every call may break off, those of a promotion excepted: its first call may
\* still fail as long as it has no effect.
BeforePromotion      == Running \ {"promote", "retire", "activate"}
BeforeFirstPromotion == Running \ {"retire", "activate"}

Symmetry == Permutations(Docs) \cup Permutations(Versions)
              \cup Permutations(Contents) \cup Permutations(Files)
================================================================================
