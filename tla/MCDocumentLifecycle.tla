-------------------------- MODULE MCDocumentLifecycle --------------------------
(* Instances of DocumentLifecycle for TLC. *)
EXTENDS DocumentLifecycle, TLC

AllSteps == Running

\* A lost reply to the last commit leaves an active version recorded as FAILED.
AllButActivate == Running \ {"activate"}

\* The calls inside of the try block of the ingestion.
IngestionCalls == TaskSteps \ {"queued"}

\* Document, version, content and file names are interchangeable.
Symmetry == Permutations(Docs) \cup Permutations(Versions)
              \cup Permutations(Contents) \cup Permutations(Files)
================================================================================
