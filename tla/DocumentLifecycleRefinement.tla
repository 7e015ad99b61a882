---------------------- MODULE DocumentLifecycleRefinement ----------------------
(***************************************************************************)
(* DocumentLifecycle implements VersionCatalog as long as the versions of  *)
(* one document are uploaded one after the other and no call of a          *)
(* promotion breaks off half way.                                          *)
(***************************************************************************)
EXTENDS DocumentLifecycle

VersionAt(d, n) == CHOOSE u \in Rows(d) : number[u] = n

History == [d \in Docs |-> [n \in 1 .. current[d] |-> VersionAt(d, n)]]

Outcome ==
    [u \in Versions |->
        CASE status[u] = "ABSENT"                     -> "none"
          [] status[u] \in {"PENDING", "PROCESSING"}  -> "uploaded"
          [] status[u] = "ACTIVE"                     -> "active"
          [] status[u] = "SUPERSEDED"                 -> "superseded"
          [] status[u] = "FAILED"                     -> "failed"]

\* What _build_filter lets retrieval find.
Serving == [d \in Docs |-> {u \in Versions : DocOf(u) = d /\ points[u] = "ACTIVE"}]

Catalog == INSTANCE VersionCatalog
             WITH history <- History, outcome <- Outcome, serving <- Serving

\* Tables and vector store together go through the states of the catalogue:
\* numbers follow the order of the commits, a version joins the served one only
\* after it has been indexed, replaces it, and is then recorded as active; a
\* version that has been exposed never fails.
ImplementsCatalog == Catalog!Spec
================================================================================
