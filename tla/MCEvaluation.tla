------------------------------ MODULE MCEvaluation -----------------------------
(* Instances of Evaluation for TLC. *)
EXTENDS Evaluation

\* Two traces ask the same question.  The first lists a chunk again after the reranking
\* and a document without a chunk id; the second retrieved the relevant chunk last.
MCQuestionOf == [t \in Traces |-> "q1"]
MCDocuments  == <<<<"c1", None, "c2", "c2", "c1">>, <<"c2", "c2", "c1">>>>
\* The second list is of an id without a trace.
MCLists      == {<<1, 2, 1>>, <<3>>}
MCReviews    == {{"c1"}, {"c1", "c2"}}
MCGain       == <<1000, 631, 500>>

Symmetry == Permutations(Requests)
================================================================================
