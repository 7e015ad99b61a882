------------------------------ MODULE MCDeployment -----------------------------
(* Instances of Deployment for TLC. *)
EXTENDS Deployment

MCResources == <<"llm", "vector store">>
MCDatasets  == {<<>>, <<"answer">>}
================================================================================
