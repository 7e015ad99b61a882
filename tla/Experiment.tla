------------------------------ MODULE Experiment -------------------------------
(***************************************************************************)
(* evaluation/run_evaluation.py: the questions of the golden dataset are   *)
(* asked anew, one by one, each answer is judged and the scores are        *)
(* published.  The program composes a query service of its own, but        *)
(* provisions nothing.                                                     *)
(***************************************************************************)
EXTENDS Naturals, Sequences, FiniteSets

CONSTANTS
    Datasets,      \* what the golden file may hold: the expected answers, or None, in order
    None,
    Resources,     \* QueryService.shutdown_resources, in their order
    MaxFailures    \* bound: calls that fail

VARIABLES
    ready,         \* whether chunks can be retrieved: the vector store is provisioned
    phase,         \* where the run is
    examples,      \* examples not evaluated yet
    results,       \* the expected answers the judged results were compared with
    opened,        \* what the finally block has still to call the close of
    tracing,       \* whether the answers have a trace, settings.langfuse_tracing
    published,     \* results whose scores are published
    failures

vars == <<phase, examples, results, opened, tracing, published, failures>>

Init ==
    /\ phase = "idle"
    /\ examples \in Datasets
    /\ results = <<>> /\ opened = <<>>
    /\ tracing \in BOOLEAN
    /\ published = 0 /\ failures = 0

Failure == failures < MaxFailures /\ failures' = failures + 1

\* The dataset is loaded, the query service and the judge's provider are created.
Load ==
    /\ phase = "idle"
    /\ examples # <<>>
    /\ phase' = "asking"
    /\ opened' = <<"judge">> \o Resources
    /\ UNCHANGED <<examples, results, tracing, published, failures>>

\* The dataset is empty or invalid, or a constructor raises: the judge's comes second.
LoadFails ==
    /\ phase = "idle"
    /\ IF examples = <<>> THEN UNCHANGED failures ELSE Failure
    /\ phase' = "closing"
    /\ opened' \in IF examples = <<>> THEN {<<>>} ELSE {<<>>, Resources}
    /\ UNCHANGED <<examples, results, tracing, published>>

\* QueryService.ask.  A cached answer needs no vector store.
Ask ==
    /\ phase = "asking" /\ examples # <<>>
    /\ phase' = "judging"
    /\ UNCHANGED <<examples, results, opened, tracing, published, failures>>

\* LLMJudge.evaluate.  Without an expected answer the judge is told that there is none.
Judge ==
    /\ phase = "judging"
    /\ phase' = "asking"
    /\ results' = Append(results, Head(examples))
    /\ examples' = Tail(examples)
    /\ UNCHANGED <<opened, tracing, published, failures>>

\* ask or the judge raises, ask also because the vector store is not provisioned, or the
\* judge's scores are not within 0 to 4: nothing is published of the run.
CallRaises ==
    /\ \/ phase = "asking" /\ examples # <<>>
       \/ phase = "judging"
    /\ IF phase = "asking" /\ ~ready THEN UNCHANGED failures ELSE Failure
    /\ phase' = "closing"
    /\ UNCHANGED <<examples, results, opened, tracing, published>>

\* publish_result of each; a result with a score that cannot be created does not count.
\* With a trace, publish_metrics is called next, with a keyword that it does not have: the
\* run ends as if a call had raised.
Publish(lost) ==
    /\ phase = "asking" /\ examples = <<>>
    /\ lost \in 0..Len(results)
    /\ IF lost = 0 THEN UNCHANGED failures ELSE Failure
    /\ published' = IF tracing THEN Len(results) - lost ELSE 0
    /\ phase' = IF tracing THEN "closing" ELSE "returning"
    /\ UNCHANGED <<examples, results, opened, tracing>>

\* Faulty variant: the resources are closed on return only.
CloseOnReturn ==
    /\ phase \in {"closing", "returning"}
    /\ opened' = IF phase = "returning" THEN <<>> ELSE opened
    /\ phase' = "ended"
    /\ UNCHANGED <<examples, results, tracing, published, failures>>

\* The finally block: the judge's provider, then the resources; errors are logged only.
Close ==
    /\ phase \in {"closing", "returning"}
    /\ IF opened = <<>> THEN phase' = "ended" /\ UNCHANGED opened
                        ELSE opened' = Tail(opened) /\ UNCHANGED phase
    /\ UNCHANGED <<examples, results, tracing, published, failures>>

Next ==
    \/ Load \/ LoadFails
    \/ Ask \/ Judge \/ CallRaises
    \/ \E lost \in 0..Len(results) : Publish(lost)
    \/ Close
================================================================================
