----------------------------- MODULE VersionCatalog -----------------------------
(***************************************************************************)
(* What DocumentService promises of the versions of a document, without    *)
(* the stores, sessions and jobs that keep the promise: uploads line up in *)
(* a history, retrieval is given one version, and the next version joins   *)
(* it for a moment and then takes its place (models/document.py and the    *)
(* comment in promote_document_version).                                   *)
(***************************************************************************)
EXTENDS Naturals, Sequences, SequencesExt

CONSTANTS Docs, Versions, None

VARIABLES
    history,   \* the versions of each document, oldest first
    active,    \* the version each document's readers are meant to see
    outcome,   \* what became of each version
    serving    \* the versions of each document retrieval can return

vars == <<history, active, outcome, serving>>

Outcomes == {"none", "uploaded", "active", "superseded", "failed"}

Init ==
    /\ history = [d \in Docs |-> <<>>]
    /\ active = [d \in Docs |-> None]
    /\ outcome = [u \in Versions |-> "none"]
    /\ serving = [d \in Docs |-> {}]

Meant(d) == IF active[d] = None THEN {} ELSE {active[d]}

Upload(d, u) ==
    /\ outcome[u] = "none"
    /\ outcome' = [outcome EXCEPT ![u] = "uploaded"]
    /\ history' = [history EXCEPT ![d] = Append(@, u)]
    /\ UNCHANGED <<active, serving>>

\* The new version joins the one being served, and no other.
Expose(d, u) ==
    /\ u \in ToSet(history[d]) /\ outcome[u] = "uploaded"
    /\ serving[d] = Meant(d)
    /\ serving' = [serving EXCEPT ![d] = @ \cup {u}]
    /\ UNCHANGED <<history, active, outcome>>

\* The one being served gives way to it.
Withdraw(d, u) ==
    /\ active[d] # None /\ serving[d] = {active[d], u}
    /\ outcome[u] = "uploaded"
    /\ serving' = [serving EXCEPT ![d] = {u}]
    /\ UNCHANGED <<history, active, outcome>>

Activate(d, u) ==
    /\ serving[d] = {u} /\ outcome[u] = "uploaded"
    /\ active' = [active EXCEPT ![d] = u]
    /\ outcome' = [w \in Versions |-> IF w = u THEN "active"
                                      ELSE IF w = active[d] THEN "superseded" ELSE outcome[w]]
    /\ UNCHANGED <<history, serving>>

\* Only a version that retrieval has not been given can fail.
Fail(d, u) ==
    /\ outcome[u] = "uploaded" /\ u \notin serving[d] /\ u \in ToSet(history[d])
    /\ outcome' = [outcome EXCEPT ![u] = "failed"]
    /\ UNCHANGED <<history, active, serving>>

Next == \E d \in Docs, u \in Versions :
    Upload(d, u) \/ Expose(d, u) \/ Withdraw(d, u) \/ Activate(d, u) \/ Fail(d, u)

Spec == Init /\ [][Next]_vars
================================================================================
