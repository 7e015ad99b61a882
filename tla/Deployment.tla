------------------------------ MODULE Deployment -------------------------------
(***************************************************************************)
(* The servers of the API and a run of the evaluation against the same     *)
(* vector store.                                                           *)
(***************************************************************************)
EXTENDS Provisioning

CONSTANTS Datasets, MaxFailures

VARIABLES phase, examples, results, opened, tracing, published, failures

evaluation == <<phase, examples, results, opened, tracing, published, failures>>

\* A retrieval needs the collection and the shard it falls back to.
Run == INSTANCE Experiment WITH ready <- collection /\ Default \in shards

RunStep == Run!Next /\ UNCHANGED vars

DeploymentInit == Init /\ Run!Init

DeploymentNext ==
    \/ Next /\ UNCHANGED evaluation
    \/ RunStep

Whole == <<vars, evaluation>>

\* What is awaited ends, in the servers and in the evaluation.
DeploymentSpec ==
    /\ DeploymentInit /\ [][DeploymentNext]_Whole
    /\ \A p \in Servers : WF_Whole(Step(p) /\ UNCHANGED evaluation)
    /\ WF_Whole(RunStep)

-----------------------------------------------------------------------------
\* The close (aclose, if the resource has one) of every registered resource is called, and
\* nothing waits forever.  A start ends in serving or down; a server that was stopped, and
\* did not crash, has called the close of every resource it registered before it is down; a
\* run of the evaluation that leaves its finally block, wherever it raised before, has
\* called those of the judge and of the query service, and it does leave it.  A close that
\* raises was called; what aclose itself leaves open (the synchronous clients) and what
\* is not registered (the embedding provider) is not said to be closed.
ClosesCalled ==
    /\ \A p \in Servers : step[p] = "down" /\ cause[p] = "stopped" => open[p] = <<>>
    /\ phase = "ended" => opened = <<>>

Settled == phase = "ended" /\ \A p \in Servers : step[p] \in {"serving", "down"}

EveryCloseIsCalled == []<>(Settled /\ ClosesCalled)
================================================================================
