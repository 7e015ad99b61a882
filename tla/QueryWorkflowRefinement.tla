------------------------- MODULE QueryWorkflowRefinement -------------------------
(***************************************************************************)
(* The query graph with its cache implements AnswerService.                *)
(***************************************************************************)
EXTENDS QueryWorkflow

\* A query is answered when its answer can no longer change: at a cache hit, or
\* after the write-back.
Decided(q) == node[q] \in {"cached_response", "response", "done"}

Outcome ==
    [q \in Queries |->
        IF node[q] = "idle" THEN "none"
        ELSE IF node[q] \in Dependencies THEN "failed"
        ELSE IF ~Decided(q) THEN "pending"
        ELSE IF answer[q].kind = "abstention" THEN "abstained" ELSE "answered"]

Given == [q \in Queries |-> IF Decided(q) THEN answer[q] ELSE Plain("none")]

Service == INSTANCE AnswerService WITH outcome <- Outcome, answer <- Given, NoAnswer <- Plain("none")

\* What a query is given was generated for it, or given before, grounded, to a
\* query with the same retrieval text, or is an abstention.
ImplementsAnswerService == Service!Spec
================================================================================
