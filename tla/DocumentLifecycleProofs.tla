------------------------ MODULE DocumentLifecycleProofs ------------------------
(***************************************************************************)
(* Proofs about DocumentLifecycle, for any number of documents, uploads,   *)
(* faults and crashes: types; the corpus stays queryable; the version      *)
(* numbers of a document follow on; its active_version_id names a row that *)
(* is ACTIVE; its status is INDEXED only if it is served; the rows keep to *)
(* the order of their statuses; a served version keeps its file.           *)
(*                                                                         *)
(* Where the versions of one document are uploaded one after the other: a  *)
(* document with an active version is never shown as FAILED and, if no     *)
(* promotion is broken off either, retrieval finds the active version and  *)
(* no other, and the whole implements VersionCatalog.                      *)
(***************************************************************************)
EXTENDS DocumentLifecycleRefinement, SequenceTheorems, TLAPS

\* Every job that has begun has its arguments.
Assigned == \A u \in Versions : pc[u] # "idle" => req[u] \in RequestKeys

TypeInv == TypeOK /\ Assigned

-----------------------------------------------------------------------------
(* Facts about the operators the steps are built from.                     *)

LEMMA HandlerType ==
    ASSUME NEW u \in Versions, pc[u] \in Running
    PROVE  Handler(u) \in FailureSteps \cup Ended
BY DEF Handler, AfterRecord, FailureSteps, Ended, Running, RequestSteps, TaskSteps

LEMMA AfterInsertType ==
    ASSUME NEW u \in Versions
    PROVE  AfterInsert(u) \in {"ingest", "queued", "failed"}
BY DEF AfterInsert

LEMMA RowType ==
    ASSUME TypeOK, NEW d \in Docs
    PROVE  RowOf(d) \in Snapshot
BY DEF TypeOK, RowOf, Snapshot

\* A step that awaits an answer goes to the next call or to a handler.
LEMMA ReplyType ==
    ASSUME TypeOK, NEW u \in Versions, pc[u] \in Running,
           NEW step \in Running \cup Ended, Reply(u, step)
    PROVE  /\ pc' \in [Versions -> Running \cup Ended \cup {"idle"}]
           /\ faults' \in Nat
           /\ \A w \in Versions : w # u => pc'[w] = pc[w]
           /\ pc'[u] = step \/ pc'[u] = Handler(u)
           /\ pc'[u] # "idle"
<1>1. Handler(u) \in Running \cup Ended
  BY HandlerType DEF Running
<1>2. step # "idle" /\ Handler(u) # "idle"
  BY <1>1 DEF Running, Ended, RequestSteps, TaskSteps, FailureSteps
<1>3. QED
  BY <1>1, <1>2, ConstantsAssumption DEF TypeOK, Reply, Goto

LEMMA RaiseType ==
    ASSUME TypeOK, NEW u \in Versions, pc[u] \in Running, Raise(u)
    PROVE  /\ pc' \in [Versions -> Running \cup Ended \cup {"idle"}]
           /\ faults' \in Nat
           /\ \A w \in Versions : w # u => pc'[w] = pc[w]
           /\ pc'[u] = Handler(u)
           /\ pc'[u] # "idle"
<1>1. Handler(u) \in Running \cup Ended
  BY HandlerType DEF Running
<1>2. Handler(u) # "idle"
  BY <1>1 DEF Running, Ended, RequestSteps, TaskSteps, FailureSteps
<1>3. QED
  BY <1>1, <1>2 DEF TypeOK, Raise, Goto

-----------------------------------------------------------------------------
LEMMA InitType == Init => TypeInv
BY ConstantsAssumption DEF Init, TypeInv, TypeOK, Assigned, NoRow, NoRequest, Snapshot,
   DocumentStatus, VersionStatus, PointStatus, RequestKeys

LEMMA NextType == TypeInv /\ [Next]_vars => TypeInv'
<1> SUFFICES ASSUME TypeInv, [Next]_vars PROVE TypeInv'
  OBVIOUS
<1> USE DEF TypeInv, Assigned
<1>1. ASSUME NEW u \in Versions, NEW r \in RequestKeys, Begin(u, r) PROVE TypeInv'
  <2>1. r.doc \in Docs
    BY DEF RequestKeys
  <2>2. seen' \in [Versions -> Snapshot]
    BY <1>1, <2>1, RowType DEF Begin, TypeOK, NoRow, Snapshot, DocumentStatus
  <2>3. QED
    BY <1>1, <2>2 DEF Begin, TypeOK, Goto, documents, stores, Running, RequestSteps
<1>2. ASSUME NEW u \in Versions, CheckDuplicate(u) PROVE TypeInv'
  BY <1>2 DEF CheckDuplicate, TypeOK, Goto, documents, stores, memory, Running, RequestSteps,
     Ended, Snapshot
<1>3. ASSUME NEW u \in Versions, StoreBlob(u) PROVE TypeInv'
  <2>1. req[u] \in RequestKeys /\ DocOf(u) \in Docs /\ req[u].file \in Files /\ pc[u] \in Running
    BY <1>3 DEF StoreBlob, DocOf, RequestKeys, Running, RequestSteps, TaskSteps, FailureSteps
  <2>2. BlobPath(u) \in Docs \X Nat \X Files
    BY <2>1 DEF BlobPath, TypeOK
  <2>3. CASE PathTaken(u)
    BY <1>3, <2>1, <2>3, RaiseType DEF StoreBlob, TypeOK, documents
  <2>4. CASE ~PathTaken(u)
    <3>1. Reply(u, "insert") /\ "insert" \in Running
      BY <1>3, <2>4 DEF StoreBlob, Running, RequestSteps
    <3>2. QED
      BY <1>3, <2>1, <2>2, <2>4, <3>1, ReplyType DEF StoreBlob, TypeOK, documents
  <2>5. QED
    BY <2>3, <2>4
<1>4. ASSUME NEW u \in Versions, InsertVersion(u) PROVE TypeInv'
  <2>1. req[u] \in RequestKeys /\ DocOf(u) \in Docs /\ req[u].file \in Files /\ pc[u] \in Running
    BY <1>4 DEF InsertVersion, DocOf, RequestKeys, Running, RequestSteps, TaskSteps, FailureSteps
  <2>2. CASE Conflicts(u)
    BY <1>4, <2>1, <2>2, RaiseType DEF InsertVersion, TypeOK, documents, stores
  <2>3. CASE ~Conflicts(u)
    <3>1. Reply(u, AfterInsert(u)) /\ AfterInsert(u) \in Running \cup Ended
      BY <1>4, <2>3, AfterInsertType DEF InsertVersion, Running, Ended, TaskSteps
    <3>2. seen' \in [Versions -> Snapshot]
      BY <1>4, <2>3 DEF InsertVersion, TypeOK, Snapshot, DocumentStatus
    <3>3. docStatus' \in [Docs -> DocumentStatus]
      BY <1>4, <2>1, <2>3 DEF InsertVersion, TypeOK, SetDocStatus, DocumentStatus
    <3>4. status' \in [Versions -> VersionStatus] /\ current' \in [Docs -> Nat]
      BY <1>4, <2>1, <2>3 DEF InsertVersion, TypeOK, VersionStatus
    <3>5. QED
      BY <1>4, <2>1, <2>3, <3>1, <3>2, <3>3, <3>4, ReplyType DEF InsertVersion, TypeOK, stores
  <2>4. QED
    BY <2>2, <2>3
<1>5. ASSUME NEW u \in Versions, StartTask(u) PROVE TypeInv'
  <2>1. req[u] \in RequestKeys /\ DocOf(u) \in Docs /\ req[u].file \in Files /\ pc[u] \in Running
    BY <1>5 DEF StartTask, DocOf, RequestKeys, Running, RequestSteps, TaskSteps, FailureSteps
  <2>2. RowOf(DocOf(u)) \in Snapshot
    BY <2>1, RowType
  <2>3. QED
    BY <1>5, <2>1, <2>2 DEF StartTask, Remember, Goto, TypeOK, documents, stores, Running, TaskSteps,
       FailureSteps
<1>6. ASSUME NEW u \in Versions, MarkProcessing(u) PROVE TypeInv'
  <2>1. req[u] \in RequestKeys /\ DocOf(u) \in Docs /\ req[u].file \in Files /\ pc[u] \in Running
    BY <1>6 DEF MarkProcessing, DocOf, RequestKeys, Running, RequestSteps, TaskSteps, FailureSteps
  <2> DEFINE next == IF Async(u) THEN "ingest" ELSE "reload"
  <2>2. Reply(u, next) /\ next \in Running
    BY <1>6 DEF MarkProcessing, Running, TaskSteps
  <2>3. seen' \in [Versions -> Snapshot]
    BY <1>6 DEF MarkProcessing, TypeOK, Snapshot, DocumentStatus
  <2>4. docStatus' \in [Docs -> DocumentStatus] /\ status' \in [Versions -> VersionStatus]
    BY <1>6, <2>1 DEF MarkProcessing, TypeOK, SetDocStatus, DocumentStatus, VersionStatus
  <2> HIDE DEF next
  <2>5. QED
    BY <1>6, <2>1, <2>2, <2>3, <2>4, ReplyType DEF MarkProcessing, TypeOK, stores
<1>7. ASSUME NEW u \in Versions, ReloadDocument(u) PROVE TypeInv'
  <2>1. req[u] \in RequestKeys /\ DocOf(u) \in Docs /\ req[u].file \in Files /\ pc[u] \in Running
    BY <1>7 DEF ReloadDocument, DocOf, RequestKeys, Running, RequestSteps, TaskSteps, FailureSteps
  <2>2. RowOf(DocOf(u)) \in Snapshot
    BY <2>1, RowType
  <2>3. QED
    BY <1>7, <2>1, <2>2 DEF ReloadDocument, Remember, Goto, TypeOK, documents, stores, Running, TaskSteps,
       FailureSteps
<1>8. ASSUME NEW u \in Versions, Ingest(u) PROVE TypeInv'
  <2>1. req[u] \in RequestKeys /\ DocOf(u) \in Docs /\ req[u].file \in Files /\ pc[u] \in Running
    BY <1>8 DEF Ingest, DocOf, RequestKeys, Running, RequestSteps, TaskSteps, FailureSteps
  <2>2. CASE Raise(u) /\ UNCHANGED points
    BY <1>8, <2>1, <2>2, RaiseType DEF Ingest, TypeOK, documents, memory
  <2>3. CASE points' = NewPoints(u) /\ Reply(u, "bump")
    <3>1. "bump" \in Running /\ points' \in [Versions -> PointStatus]
      BY <2>3 DEF NewPoints, TypeOK, PointStatus, Running, TaskSteps
    <3>2. QED
      BY <1>8, <2>1, <2>3, <3>1, ReplyType DEF Ingest, TypeOK, documents, memory
  <2>4. QED
    BY <1>8, <2>2, <2>3 DEF Ingest
<1>9. ASSUME NEW u \in Versions, BumpGeneration(u) PROVE TypeInv'
  <2>1. req[u] \in RequestKeys /\ DocOf(u) \in Docs /\ req[u].file \in Files /\ pc[u] \in Running
    BY <1>9 DEF BumpGeneration, DocOf, RequestKeys, Running, RequestSteps, TaskSteps, FailureSteps
  <2>2. Reply(u, "promote") /\ "promote" \in Running
    BY <1>9 DEF BumpGeneration, Running, TaskSteps
  <2>3. QED
    BY <1>9, <2>1, <2>2, ReplyType DEF BumpGeneration, TypeOK, documents, memory
<1>10. ASSUME NEW u \in Versions, Promote(u) PROVE TypeInv'
  <2>1. req[u] \in RequestKeys /\ DocOf(u) \in Docs /\ req[u].file \in Files /\ pc[u] \in Running
    BY <1>10 DEF Promote, DocOf, RequestKeys, Running, RequestSteps, TaskSteps, FailureSteps
  <2>2. Reply(u, AfterPromotion(u)) /\ AfterPromotion(u) \in Running
    BY <1>10 DEF Promote, AfterPromotion, Running, TaskSteps
  <2>3. points' \in [Versions -> PointStatus]
    BY <1>10 DEF Promote, PromotedPoints, TypeOK, PointStatus
  <2>4. QED
    BY <1>10, <2>1, <2>2, <2>3, ReplyType DEF Promote, TypeOK, documents, memory
<1>11. ASSUME NEW u \in Versions, Retire(u) PROVE TypeInv'
  <2>1. req[u] \in RequestKeys /\ DocOf(u) \in Docs /\ req[u].file \in Files /\ pc[u] \in Running
    BY <1>11 DEF Retire, DocOf, RequestKeys, Running, RequestSteps, TaskSteps, FailureSteps
  <2>2. Reply(u, "activate") /\ "activate" \in Running
    BY <1>11 DEF Retire, Running, TaskSteps
  <2>3. points' \in [Versions -> PointStatus]
    BY <1>11 DEF Retire, TypeOK, PointStatus
  <2>4. QED
    BY <1>11, <2>1, <2>2, <2>3, ReplyType DEF Retire, TypeOK, documents, memory
<1>12. ASSUME NEW u \in Versions, Activate(u) PROVE TypeInv'
  <2>1. req[u] \in RequestKeys /\ DocOf(u) \in Docs /\ req[u].file \in Files /\ pc[u] \in Running
    BY <1>12 DEF Activate, DocOf, RequestKeys, Running, RequestSteps, TaskSteps, FailureSteps
  <2>2. Reply(u, "done") /\ "done" \in Ended
    BY <1>12 DEF Activate, Ended
  <2>3. status' \in [Versions -> VersionStatus]
    BY <1>12 DEF Activate, ActivatedRows, TypeOK, VersionStatus
  <2>4. active' \in [Docs -> Versions \cup {None}] /\ docStatus' \in [Docs -> DocumentStatus]
    BY <1>12, <2>1 DEF Activate, ActivatedId, ActivatedStatus, SetDocStatus, TypeOK, DocumentStatus
  <2>5. QED
    BY <1>12, <2>1, <2>2, <2>3, <2>4, ReplyType DEF Activate, TypeOK, stores, memory
<1>13. ASSUME NEW u \in Versions, Undo(u) PROVE TypeInv'
  <2>1. req[u] \in RequestKeys /\ DocOf(u) \in Docs /\ req[u].file \in Files /\ pc[u] \in Running
    BY <1>13 DEF Undo, DocOf, RequestKeys, Running, RequestSteps, TaskSteps, FailureSteps
  <2>2. RowOf(DocOf(u)) \in Snapshot
    BY <2>1, RowType
  <2>3. QED
    BY <1>13, <2>1, <2>2 DEF Undo, Remember, Goto, TypeOK, documents, stores, Running, TaskSteps,
       FailureSteps
<1>14. ASSUME NEW u \in Versions, RecordFailure(u) PROVE TypeInv'
  <2>1. req[u] \in RequestKeys /\ DocOf(u) \in Docs /\ req[u].file \in Files /\ pc[u] \in Running
    BY <1>14 DEF RecordFailure, DocOf, RequestKeys, Running, RequestSteps, TaskSteps, FailureSteps
  <2>2. status' \in [Versions -> VersionStatus]
    BY <1>14 DEF RecordFailure, FailedRows, TypeOK, VersionStatus
  <2>3. docStatus' \in [Docs -> DocumentStatus]
    BY <1>14, <2>1 DEF RecordFailure, StatusAfterFailure, SetDocStatus, TypeOK, DocumentStatus
  <2>4. pc' \in [Versions -> Running \cup Ended \cup {"idle"}] /\ pc'[u] # "idle"
    BY <1>14 DEF RecordFailure, AfterRecord, Goto, TypeOK, Running, FailureSteps, Ended
  <2>5. QED
    BY <1>14, <2>1, <2>2, <2>3, <2>4 DEF RecordFailure, Goto, TypeOK, stores, memory
<1>15. ASSUME NEW u \in Versions, DeleteBlob(u) PROVE TypeInv'
  <2>1. req[u] \in RequestKeys /\ DocOf(u) \in Docs /\ req[u].file \in Files /\ pc[u] \in Running
    BY <1>15 DEF DeleteBlob, DocOf, RequestKeys, Running, RequestSteps, TaskSteps, FailureSteps
  <2>2. QED
    BY <1>15, <2>1 DEF DeleteBlob, Goto, TypeOK, documents, memory, Ended
<1>16. ASSUME NEW u \in Versions, CallFails(u) PROVE TypeInv'
  <2>1. Handler(u) \in Running \cup Ended /\ req[u] \in RequestKeys
    BY <1>16, HandlerType DEF CallFails, Running, RequestSteps, TaskSteps, FailureSteps
  <2>2. QED
    BY <1>16, <2>1 DEF CallFails, Goto, TypeOK, documents, stores, memory
<1>17. ASSUME Crash PROVE TypeInv'
  BY <1>17 DEF Crash, TypeOK, documents, stores, memory, Ended, Running, RequestSteps, TaskSteps,
     FailureSteps
<1>18. ASSUME UNCHANGED vars PROVE TypeInv'
  BY <1>18 DEF vars, TypeOK, documents, stores, memory
<1>19. QED
  BY <1>1, <1>2, <1>3, <1>4, <1>5, <1>6, <1>7, <1>8, <1>9,
     <1>10, <1>11, <1>12, <1>13, <1>14, <1>15, <1>16, <1>17, <1>18 DEF Next, Step

\* Every variable keeps its type whatever the jobs, the failures and the crashes do.
THEOREM TypeCorrect == Spec => []TypeOK
<1>1. TypeInv => TypeOK
  BY DEF TypeInv
<1>2. QED
  BY <1>1, InitType, NextType, PTL DEF Spec

-----------------------------------------------------------------------------
(***************************************************************************)
(* The inductive invariant.  The value a job remembers in seen[u].active   *)
(* may be stale, but it always names a version whose own job is past its   *)
(* last commit: such a job never touches the status of its points again,   *)
(* and the version it names can be retired without leaving the document    *)
(* without a retrievable version.                                          *)
(***************************************************************************)
PastActivation == {"done", "undo", "record", "cleanup", "failed", "lost"}
Exposed(u)     == points[u] \in {"ACTIVE", "SUPERSEDED"}

RowByStep ==
    \A u \in Versions : /\ pc[u] \in RequestSteps \cup {"idle"} => ~HasRow(u)
                        /\ pc[u] \in TaskSteps => HasRow(u)

SeenPast ==
    \A u \in Versions : seen[u].active # None =>
        /\ pc[seen[u].active] \in PastActivation
        /\ HasRow(seen[u].active)
        /\ DocOf(seen[u].active) = DocOf(u)
        /\ active[DocOf(u)] # None
        /\ pc[u] # "idle"

ActivePast ==
    \A d \in Docs : active[d] # None =>
        /\ pc[active[d]] \in PastActivation
        /\ HasRow(active[d])
        /\ DocOf(active[d]) = d
        /\ Exposed(active[d])

PromotedIsServed == \A u \in Versions : pc[u] \in {"retire", "activate"} => points[u] = "ACTIVE"

ExposedLate ==
    \A u \in Versions : Exposed(u) => pc[u] \in {"retire", "activate"} \cup PastActivation

PointsInv == TypeInv /\ RowByStep /\ SeenPast /\ ActivePast /\ PromotedIsServed /\ ExposedLate

\* What no step takes back.
Kept(u) ==
    /\ pc[u] \in PastActivation => pc'[u] \in PastActivation
    /\ pc[u] = "done" => pc'[u] = "done"
    /\ pc[u] # "idle" => pc'[u] # "idle" /\ DocOf(u)' = DocOf(u)
    /\ HasRow(u) => HasRow(u)'

LEMMA HandlerPast ==
    ASSUME NEW u \in Versions, pc[u] \in Running, pc[u] # "check"
    PROVE  Handler(u) \in PastActivation
BY DEF Handler, AfterRecord, FailureSteps, Running, RequestSteps, TaskSteps, PastActivation

LEMMA StepsKeep ==
    ASSUME TypeInv, [Next]_vars, NEW w \in Versions
    PROVE  Kept(w)
<1> USE DEF TypeInv, Kept, HasRow, DocOf
<1>1. ASSUME NEW u \in Versions, NEW r \in RequestKeys, Begin(u, r) PROVE Kept(w)
  BY <1>1 DEF Begin, TypeOK, Goto, PastActivation
<1>2. ASSUME NEW u \in Versions,
             \/ CheckDuplicate(u) \/ StartTask(u) \/ ReloadDocument(u) \/ Undo(u)
      PROVE  Kept(w)
  BY <1>2 DEF CheckDuplicate, StartTask, ReloadDocument, Undo, TypeOK, Goto, PastActivation, memory
<1>3. ASSUME NEW u \in Versions,
             \/ StoreBlob(u) \/ Ingest(u) \/ BumpGeneration(u) \/ Promote(u) \/ Retire(u)
      PROVE  Kept(w)
  <2>1. pc[u] \in Running /\ pc[u] \notin PastActivation
    BY <1>3 DEF StoreBlob, Ingest, BumpGeneration, Promote, Retire, Running, RequestSteps,
       TaskSteps, PastActivation
  <2>2. AfterPromotion(u) \in Running
    BY DEF AfterPromotion, Running, TaskSteps
  <2>3. \/ Raise(u)
        \/ \E step \in Running : Reply(u, step)
    BY <1>3, <2>2 DEF StoreBlob, Ingest, BumpGeneration, Promote, Retire, Running, RequestSteps,
       TaskSteps
  <2>4. UNCHANGED <<status, req>>
    BY <1>3 DEF StoreBlob, Ingest, BumpGeneration, Promote, Retire, memory
  <2>5. CASE Raise(u)
    BY <2>1, <2>4, <2>5, RaiseType DEF PastActivation
  <2>6. ASSUME NEW step \in Running, Reply(u, step) PROVE Kept(w)
    BY <2>1, <2>4, <2>6, ReplyType DEF PastActivation
  <2>7. QED
    BY <2>3, <2>5, <2>6
<1>4. ASSUME NEW u \in Versions, InsertVersion(u) PROVE Kept(w)
  <2>1. pc[u] \in Running /\ pc[u] \notin PastActivation
    BY <1>4 DEF InsertVersion, Running, RequestSteps, PastActivation
  <2>2. Raise(u) \/ \E step \in {"ingest", "queued", "failed"} : Reply(u, step)
    BY <1>4, AfterInsertType DEF InsertVersion
  <2>3. req' = req /\ (HasRow(w) => HasRow(w)')
    BY <1>4 DEF InsertVersion, TypeOK
  <2>4. CASE Raise(u)
    BY <2>1, <2>3, <2>4, RaiseType DEF PastActivation
  <2>5. ASSUME NEW step \in {"ingest", "queued", "failed"}, Reply(u, step) PROVE Kept(w)
    <3>1. step \in Running \cup Ended
      BY DEF Running, Ended, TaskSteps
    <3>2. QED
      BY <2>1, <2>3, <2>5, <3>1, ReplyType DEF PastActivation
  <2>6. QED
    BY <2>2, <2>4, <2>5
<1>5. ASSUME NEW u \in Versions, MarkProcessing(u) PROVE Kept(w)
  <2>1. pc[u] \in Running /\ pc[u] \notin PastActivation
    BY <1>5 DEF MarkProcessing, Running, TaskSteps, PastActivation
  <2>2. \E step \in Running : Reply(u, step)
    BY <1>5 DEF MarkProcessing, Running, TaskSteps
  <2>3. req' = req /\ (HasRow(w) => HasRow(w)')
    BY <1>5 DEF MarkProcessing, TypeOK
  <2>4. ASSUME NEW step \in Running, Reply(u, step) PROVE Kept(w)
    BY <2>1, <2>3, <2>4, ReplyType DEF PastActivation
  <2>5. QED
    BY <2>2, <2>4
<1>6. ASSUME NEW u \in Versions, Activate(u) PROVE Kept(w)
  <2>1. pc[u] \in Running /\ pc[u] \notin PastActivation
    BY <1>6 DEF Activate, Running, TaskSteps, PastActivation
  <2>2. Reply(u, "done") /\ "done" \in Ended
    BY <1>6 DEF Activate, Ended
  <2>3. req' = req /\ (HasRow(w) => HasRow(w)')
    BY <1>6 DEF Activate, ActivatedRows, memory
  <2>4. QED
    BY <2>1, <2>2, <2>3, ReplyType DEF PastActivation
<1>7. ASSUME NEW u \in Versions, RecordFailure(u) \/ DeleteBlob(u) PROVE Kept(w)
  BY <1>7 DEF RecordFailure, DeleteBlob, FailedRows, AfterRecord, Goto, TypeOK, PastActivation, memory
<1>8. ASSUME NEW u \in Versions, CallFails(u) PROVE Kept(w)
  <2>1. pc[u] \in Running
    BY <1>8 DEF CallFails
  <2>2. pc[u] \in PastActivation => Handler(u) \in PastActivation
    BY <2>1, HandlerPast DEF PastActivation
  <2>3. Handler(u) # "idle" /\ pc[u] # "done"
    BY <2>1, HandlerType DEF FailureSteps, Ended, Running, RequestSteps, TaskSteps
  <2>4. QED
    BY <1>8, <2>2, <2>3 DEF CallFails, Goto, TypeOK, memory
<1>9. ASSUME Crash PROVE Kept(w)
  BY <1>9 DEF Crash, TypeOK, memory, Running, RequestSteps, TaskSteps, FailureSteps, PastActivation
<1>10. ASSUME UNCHANGED vars PROVE Kept(w)
  BY <1>10 DEF vars, memory
<1>11. QED
  BY <1>1, <1>2, <1>3, <1>4, <1>5, <1>6, <1>7, <1>8, <1>9, <1>10 DEF Next, Step

-----------------------------------------------------------------------------
LEMMA InitPoints == Init => PointsInv
BY InitType DEF Init, PointsInv, RowByStep, SeenPast, ActivePast, PromotedIsServed, ExposedLate,
   Exposed, HasRow, NoRow, RequestSteps, TaskSteps

\* A row appears only in the insert step of its own job.
LEMMA RowAppears ==
    ASSUME PointsInv, [Next]_vars, NEW w \in Versions
    PROVE  \/ HasRow(w)' = HasRow(w)
           \/ InsertVersion(w) /\ ~Conflicts(w) /\ HasRow(w)'
<1> USE DEF PointsInv, TypeInv, HasRow
<1>1. ASSUME NEW u \in Versions, InsertVersion(u)
      PROVE  \/ HasRow(w)' = HasRow(w)
             \/ InsertVersion(w) /\ ~Conflicts(w) /\ HasRow(w)'
  BY <1>1 DEF InsertVersion, TypeOK
<1>2. ASSUME NEW u \in Versions, MarkProcessing(u) PROVE HasRow(w)' = HasRow(w)
  BY <1>2 DEF MarkProcessing, TypeOK, RowByStep, TaskSteps
<1>3. ASSUME NEW u \in Versions, Activate(u) PROVE HasRow(w)' = HasRow(w)
  BY <1>3, ConstantsAssumption DEF Activate, ActivatedRows, RowByStep, TaskSteps, SeenPast
<1>4. ASSUME NEW u \in Versions, RecordFailure(u) PROVE HasRow(w)' = HasRow(w)
  BY <1>4 DEF RecordFailure, FailedRows, TypeOK
<1>5. ASSUME NEW u \in Versions, CallFails(u) \/ \E r \in RequestKeys : Begin(u, r)
      PROVE  status' = status
  BY <1>5 DEF Begin, CallFails
<1>6. ASSUME NEW u \in Versions,
             \/ CheckDuplicate(u) \/ StoreBlob(u) \/ StartTask(u) \/ ReloadDocument(u) \/ Ingest(u)
             \/ BumpGeneration(u) \/ Promote(u) \/ Retire(u) \/ Undo(u) \/ DeleteBlob(u)
      PROVE  status' = status
  BY <1>6 DEF CheckDuplicate, StoreBlob, StartTask, ReloadDocument, Ingest, BumpGeneration, Promote,
     Retire, Undo, DeleteBlob
<1>7. CASE Crash \/ UNCHANGED vars
  BY <1>7 DEF Crash, vars
<1>8. QED
  BY <1>1, <1>2, <1>3, <1>4, <1>5, <1>6, <1>7 DEF Next, Step

\* Where a job can be after its next step.
LEMMA NextStep ==
    ASSUME TypeInv, [Next]_vars, NEW w \in Versions
    PROVE  \/ pc'[w] = pc[w]
           \/ pc[w] = "idle" /\ pc'[w] = "check"
           \/ pc[w] = "check" /\ pc'[w] = "store"
           \/ pc[w] = "store" /\ pc'[w] = "insert"
           \/ InsertVersion(w) /\ ~Conflicts(w) /\ pc'[w] \in {"ingest", "queued"}
           \/ /\ pc[w] \in TaskSteps \ {"retire", "activate"}
              /\ pc'[w] \in TaskSteps \ {"retire", "activate"}
           \/ Promote(w) /\ pc'[w] \in {"retire", "activate"}
           \/ Retire(w) /\ pc'[w] = "activate"
           \/ pc[w] = "check" /\ pc'[w] = "rejected"
           \/ pc'[w] \in PastActivation
<1> DEFINE Goal ==
           \/ pc'[w] = pc[w]
           \/ pc[w] = "idle" /\ pc'[w] = "check"
           \/ pc[w] = "check" /\ pc'[w] = "store"
           \/ pc[w] = "store" /\ pc'[w] = "insert"
           \/ InsertVersion(w) /\ ~Conflicts(w) /\ pc'[w] \in {"ingest", "queued"}
           \/ /\ pc[w] \in TaskSteps \ {"retire", "activate"}
              /\ pc'[w] \in TaskSteps \ {"retire", "activate"}
           \/ Promote(w) /\ pc'[w] \in {"retire", "activate"}
           \/ Retire(w) /\ pc'[w] = "activate"
           \/ pc[w] = "check" /\ pc'[w] = "rejected"
           \/ pc'[w] \in PastActivation
<1> USE DEF TypeInv
<1>0. \A u \in Versions : pc[u] = "check" => Handler(u) = "rejected"
  BY DEF Handler
<1>01. \A u \in Versions : pc[u] \in Running /\ pc[u] # "check" => Handler(u) \in PastActivation
  BY HandlerPast
<1>1. ASSUME NEW u \in Versions, NEW r \in RequestKeys, Begin(u, r) PROVE Goal
  BY <1>1 DEF Begin, Goto, TypeOK
<1>2. ASSUME NEW u \in Versions,
             CheckDuplicate(u) \/ Undo(u) \/ RecordFailure(u) \/ DeleteBlob(u) \/ CallFails(u)
      PROVE  Goal
  BY <1>0, <1>01, <1>2 DEF CheckDuplicate, Undo, RecordFailure, DeleteBlob, CallFails, Goto, TypeOK,
     AfterRecord, FailureSteps, PastActivation, Running, RequestSteps
<1>3. ASSUME NEW u \in Versions, StartTask(u) \/ ReloadDocument(u) PROVE Goal
  BY <1>3 DEF StartTask, ReloadDocument, Goto, TypeOK, TaskSteps
<1>4. ASSUME NEW u \in Versions, StoreBlob(u) \/ Ingest(u) \/ BumpGeneration(u) PROVE Goal
  BY <1>01, <1>4 DEF StoreBlob, Ingest, BumpGeneration, Raise, Reply, Goto, TypeOK, Running,
     RequestSteps, TaskSteps
<1>5. ASSUME NEW u \in Versions, InsertVersion(u) PROVE Goal
  BY <1>01, <1>5, AfterInsertType DEF InsertVersion, Raise, Reply, Goto, TypeOK, Running, Ended,
     RequestSteps, TaskSteps, PastActivation
<1>6. ASSUME NEW u \in Versions, MarkProcessing(u) \/ Activate(u) PROVE Goal
  BY <1>01, <1>6 DEF MarkProcessing, Activate, Reply, Goto, TypeOK, Running, TaskSteps, PastActivation
<1>7. ASSUME NEW u \in Versions, Promote(u) \/ Retire(u) PROVE Goal
  BY <1>01, <1>7 DEF Promote, Retire, AfterPromotion, Reply, Goto, TypeOK, Running, TaskSteps
<1>8. CASE Crash
  BY <1>8 DEF Crash, TypeOK, PastActivation
<1>9. CASE UNCHANGED vars
  BY <1>9 DEF vars
<1>10. QED
  BY <1>1, <1>2, <1>3, <1>4, <1>5, <1>6, <1>7, <1>8, <1>9 DEF Next, Step

LEMMA NextRowByStep == PointsInv /\ [Next]_vars => RowByStep'
<1> SUFFICES ASSUME PointsInv, [Next]_vars, NEW w \in Versions
             PROVE  /\ pc'[w] \in RequestSteps \cup {"idle"} => ~HasRow(w)'
                    /\ pc'[w] \in TaskSteps => HasRow(w)'
  BY DEF RowByStep
<1>1. CASE InsertVersion(w) /\ ~Conflicts(w)
  <2>1. HasRow(w)'
    BY <1>1 DEF InsertVersion, HasRow, PointsInv, TypeInv, TypeOK
  <2>2. pc'[w] \notin RequestSteps \cup {"idle"}
    <3>1. \E step \in {"ingest", "queued", "failed"} : Reply(w, step)
      BY <1>1, AfterInsertType DEF InsertVersion
    <3>2. /\ pc[w] \in Running /\ pc[w] # "check"
          /\ {"ingest", "queued", "failed"} \subseteq Running \cup Ended
      BY <1>1 DEF InsertVersion, Running, Ended, RequestSteps, TaskSteps
    <3>3. pc'[w] \in {"ingest", "queued", "failed", Handler(w)}
      BY <3>1, <3>2, ReplyType DEF PointsInv, TypeInv
    <3>4. QED
      BY <3>2, <3>3, HandlerPast DEF PastActivation, RequestSteps
  <2>3. QED
    BY <2>1, <2>2
<1>2. CASE ~(InsertVersion(w) /\ ~Conflicts(w))
  <2>1. HasRow(w)' = HasRow(w)
    BY <1>2, RowAppears
  <2>2. QED
    BY <1>2, <2>1, NextStep DEF PointsInv, RowByStep, RequestSteps, TaskSteps, PastActivation,
       Promote, Retire
<1>3. QED
  BY <1>1, <1>2

-----------------------------------------------------------------------------
\* The three steps that write the version_status of points.
LEMMA PointStep ==
    ASSUME TypeInv, [Next]_vars
    PROVE  \/ points' = points
           \/ \E u \in Versions : \/ Ingest(u) /\ points' = NewPoints(u)
                                  \/ Promote(u) /\ points' = PromotedPoints(u)
                                  \/ Retire(u)
<1>1. ASSUME NEW u \in Versions, CallFails(u) \/ \E r \in RequestKeys : Begin(u, r)
      PROVE  points' = points
  BY <1>1 DEF Begin, CallFails, stores
<1>2. ASSUME NEW u \in Versions,
             \/ CheckDuplicate(u) \/ StoreBlob(u) \/ InsertVersion(u) \/ StartTask(u)
             \/ MarkProcessing(u) \/ ReloadDocument(u) \/ BumpGeneration(u) \/ Activate(u)
             \/ Undo(u) \/ RecordFailure(u) \/ DeleteBlob(u)
      PROVE  points' = points
  BY <1>2 DEF CheckDuplicate, StoreBlob, InsertVersion, StartTask, MarkProcessing, ReloadDocument,
     BumpGeneration, Activate, Undo, RecordFailure, DeleteBlob, stores
<1>3. ASSUME NEW u \in Versions, Ingest(u) \/ Promote(u)
      PROVE  \/ points' = points
             \/ Ingest(u) /\ points' = NewPoints(u)
             \/ Promote(u) /\ points' = PromotedPoints(u)
  BY <1>3 DEF Ingest, Promote
<1>4. CASE Crash \/ UNCHANGED vars
  BY <1>4 DEF Crash, vars, stores
<1>5. QED
  BY <1>1, <1>2, <1>3, <1>4 DEF Next, Step

LEMMA NextPromotedIsServed == PointsInv /\ [Next]_vars => PromotedIsServed'
<1> SUFFICES ASSUME PointsInv, [Next]_vars, NEW w \in Versions, pc'[w] \in {"retire", "activate"}
             PROVE  points'[w] = "ACTIVE"
  BY DEF PromotedIsServed
<1> USE DEF PointsInv, TypeInv
<1>1. \/ Promote(w)
      \/ pc[w] \in {"retire", "activate"}
      \/ pc[w] = "insert"
  BY NextStep DEF PastActivation, Retire, InsertVersion
<1>2. pc[w] # "insert"
  BY NextStep DEF PastActivation, Retire, Promote, InsertVersion, TaskSteps
<1>3. CASE Promote(w)
  BY <1>3 DEF Promote, PromotedPoints, TypeOK
<1>4. CASE pc[w] \in {"retire", "activate"}
  <2>1. points[w] = "ACTIVE"
    BY <1>4 DEF PromotedIsServed
  <2>2. \A u \in Versions : seen[u].active # w
    BY <1>4, ConstantsAssumption DEF SeenPast, PastActivation
  <2>3. QED
    BY <1>4, <2>1, <2>2, PointStep DEF Ingest, Promote, Retire, NewPoints, PromotedPoints, TypeOK
<1>5. QED
  BY <1>1, <1>2, <1>3, <1>4

LEMMA NextExposedLate == PointsInv /\ [Next]_vars => ExposedLate'
<1> SUFFICES ASSUME PointsInv, [Next]_vars, NEW w \in Versions, Exposed(w)'
             PROVE  pc'[w] \in {"retire", "activate"} \cup PastActivation
  BY DEF ExposedLate
<1> USE DEF PointsInv, TypeInv
<1>1. CASE Exposed(w)
  BY <1>1, NextStep, StepsKeep DEF ExposedLate, Kept, Promote, Retire, InsertVersion, PastActivation
<1>2. CASE ~Exposed(w)
  <2>1. \/ Promote(w)
        \/ \E u \in Versions : Retire(u) /\ seen[u].active = w
    BY <1>2, PointStep DEF Exposed, Ingest, Promote, Retire, NewPoints, PromotedPoints, TypeOK
  <2>2. CASE Promote(w)
    <3>1. pc[w] \in Running /\ AfterPromotion(w) \in Running
      BY <2>2 DEF Promote, AfterPromotion, Running, TaskSteps
    <3>2. Reply(w, AfterPromotion(w)) /\ pc[w] # "check"
      BY <2>2 DEF Promote
    <3>3. pc'[w] \in {AfterPromotion(w), Handler(w)}
      BY <3>1, <3>2, ReplyType
    <3>4. QED
      BY <3>1, <3>2, <3>3, HandlerPast DEF AfterPromotion
  <2>3. ASSUME NEW u \in Versions, seen[u].active = w PROVE pc'[w] \in PastActivation
    BY <2>3, StepsKeep, ConstantsAssumption DEF SeenPast, Kept
  <2>4. QED
    BY <2>1, <2>2, <2>3
<1>3. QED
  BY <1>1, <1>2

\* Only Activate writes active_version_id.
LEMMA ActiveStep ==
    ASSUME TypeInv, [Next]_vars
    PROVE  \/ active' = active
           \/ \E u \in Versions : Activate(u)
<1>1. ASSUME NEW u \in Versions, CallFails(u) \/ \E r \in RequestKeys : Begin(u, r)
      PROVE  active' = active
  BY <1>1 DEF Begin, CallFails, documents
<1>2. ASSUME NEW u \in Versions,
             \/ CheckDuplicate(u) \/ StoreBlob(u) \/ InsertVersion(u) \/ StartTask(u)
             \/ MarkProcessing(u) \/ ReloadDocument(u) \/ Ingest(u) \/ BumpGeneration(u)
             \/ Promote(u) \/ Retire(u) \/ Undo(u) \/ RecordFailure(u) \/ DeleteBlob(u)
      PROVE  active' = active
  BY <1>2 DEF CheckDuplicate, StoreBlob, InsertVersion, StartTask, MarkProcessing, ReloadDocument,
     Ingest, BumpGeneration, Promote, Retire, Undo, RecordFailure, DeleteBlob, documents
<1>3. CASE Crash \/ UNCHANGED vars
  BY <1>3 DEF Crash, vars, documents
<1>4. QED
  BY <1>1, <1>2, <1>3 DEF Next, Step

\* A job learns of an active version only from the documents row.
LEMMA SeenStep ==
    ASSUME TypeInv, [Next]_vars, NEW w \in Versions
    PROVE  \/ seen'[w].active = seen[w].active
           \/ seen'[w].active = None
           \/ /\ pc'[w] # "idle" /\ req'[w].doc \in Docs
              /\ seen'[w].active = active[req'[w].doc]
              /\ active' = active
<1> USE DEF TypeInv
<1>1. ASSUME NEW u \in Versions, NEW r \in RequestKeys, Begin(u, r)
      PROVE  \/ seen'[w].active = seen[w].active
             \/ seen'[w].active = None
             \/ /\ pc'[w] # "idle" /\ req'[w].doc \in Docs
                /\ seen'[w].active = active[req'[w].doc]
                /\ active' = active
  <2>1. r.doc \in Docs /\ active' = active
    BY <1>1 DEF Begin, RequestKeys, documents
  <2>2. QED
    BY <1>1, <2>1 DEF Begin, TypeOK, Goto, NoRow, RowOf, DocOf
<1>2. ASSUME NEW u \in Versions, StartTask(u) \/ ReloadDocument(u) \/ Undo(u)
      PROVE  \/ seen'[w].active = seen[w].active
             \/ /\ pc'[w] # "idle" /\ req'[w].doc \in Docs
                /\ seen'[w].active = active[req'[w].doc]
                /\ active' = active
  <2>1. DocOf(u) \in Docs /\ DocOf(u)' = DocOf(u) /\ active' = active
    BY <1>2 DEF StartTask, ReloadDocument, Undo, Assigned, DocOf, RequestKeys, documents
  <2>2. QED
    BY <1>2, <2>1 DEF StartTask, ReloadDocument, Undo, TypeOK, Goto, Remember, RowOf, DocOf
<1>3. ASSUME NEW u \in Versions, InsertVersion(u) \/ MarkProcessing(u)
      PROVE  seen'[w].active = seen[w].active
  BY <1>3 DEF InsertVersion, MarkProcessing, TypeOK, Snapshot
<1>4. ASSUME NEW u \in Versions,
             \/ CheckDuplicate(u) \/ StoreBlob(u) \/ Ingest(u) \/ BumpGeneration(u)
             \/ Promote(u) \/ Retire(u) \/ Activate(u) \/ RecordFailure(u) \/ DeleteBlob(u)
             \/ CallFails(u)
      PROVE  seen' = seen
  BY <1>4 DEF CheckDuplicate, StoreBlob, Ingest, BumpGeneration, Promote, Retire, Activate,
     RecordFailure, DeleteBlob, CallFails, memory
<1>5. CASE Crash \/ UNCHANGED vars
  BY <1>5 DEF Crash, vars, memory
<1>6. QED
  BY <1>1, <1>2, <1>3, <1>4, <1>5 DEF Next, Step

\* active_version_id is never reset.
LEMMA ActiveStays ==
    ASSUME TypeInv, [Next]_vars, NEW d \in Docs, active[d] # None
    PROVE  active'[d] # None
BY ActiveStep, ConstantsAssumption DEF Activate, ActivatedId, TypeInv, TypeOK

LEMMA NextSeenPast == PointsInv /\ [Next]_vars => SeenPast'
<1> SUFFICES ASSUME PointsInv, [Next]_vars, NEW w \in Versions, seen'[w].active # None
             PROVE  /\ pc'[seen'[w].active] \in PastActivation
                    /\ status'[seen'[w].active] # "ABSENT"
                    /\ req'[seen'[w].active].doc = req'[w].doc
                    /\ active'[req'[w].doc] # None
                    /\ pc'[w] # "idle"
  BY DEF SeenPast, DocOf, HasRow
<1> USE DEF PointsInv
<1>1. seen[w].active \in Versions \cup {None}
  BY DEF TypeInv, TypeOK, Snapshot
<1>2. CASE seen'[w].active = seen[w].active
  <2> DEFINE v == seen[w].active
  <2>1. v \in Versions /\ v # None
    BY <1>1, <1>2
  <2>2. /\ pc[v] \in PastActivation /\ HasRow(v)
        /\ DocOf(v) = DocOf(w) /\ active[DocOf(w)] # None /\ pc[w] # "idle"
    BY <2>1 DEF SeenPast
  <2>3. pc[v] # "idle"
    BY <2>2 DEF PastActivation
  <2>4. DocOf(w) \in Docs
    BY <2>2 DEF TypeInv, Assigned, DocOf, RequestKeys
  <2>5. Kept(v) /\ Kept(w)
    BY <2>1, StepsKeep
  <2>6. active'[DocOf(w)] # None
    BY <2>2, <2>4, ActiveStays
  <2>7. HasRow(v)' /\ DocOf(v)' = DocOf(w)' /\ DocOf(w)' = DocOf(w)
    BY <2>2, <2>3, <2>5 DEF Kept
  <2>8. pc'[v] \in PastActivation /\ pc'[w] # "idle"
    BY <2>2, <2>5 DEF Kept
  <2>9. QED
    BY <1>2, <2>6, <2>7, <2>8 DEF HasRow, DocOf
<1>3. CASE /\ pc'[w] # "idle" /\ req'[w].doc \in Docs
           /\ seen'[w].active = active[req'[w].doc]
           /\ active' = active
  <2>1. PICK d \in Docs : d = req'[w].doc
    BY <1>3
  <2>2. PICK v \in Versions : v = active[d] /\ v # None
    BY <1>3, <2>1 DEF TypeInv, TypeOK
  <2>3. pc[v] \in PastActivation /\ HasRow(v) /\ DocOf(v) = d
    BY <2>1, <2>2 DEF ActivePast
  <2>4. Kept(v) /\ pc[v] # "idle"
    BY <2>3, StepsKeep DEF PastActivation
  <2>5. pc'[v] \in PastActivation /\ HasRow(v)' /\ DocOf(v)' = d
    BY <2>3, <2>4 DEF Kept
  <2>6. QED
    BY <1>3, <2>1, <2>2, <2>5 DEF HasRow, DocOf
<1>4. QED
  BY <1>2, <1>3, SeenStep DEF TypeInv

\* Points that retrieval has been given are never rewritten as PENDING.
LEMMA ExposedStays ==
    ASSUME PointsInv, [Next]_vars, NEW w \in Versions, Exposed(w)
    PROVE  Exposed(w)'
<1>1. pc[w] # "ingest"
  BY DEF PointsInv, ExposedLate, PastActivation
<1>2. QED
  BY <1>1, PointStep DEF PointsInv, TypeInv, TypeOK, Exposed, Ingest, Promote, Retire, NewPoints,
     PromotedPoints

LEMMA NextActivePast == PointsInv /\ [Next]_vars => ActivePast'
<1> SUFFICES ASSUME PointsInv, [Next]_vars, NEW d \in Docs, active'[d] # None
             PROVE  /\ pc'[active'[d]] \in PastActivation
                    /\ status'[active'[d]] # "ABSENT"
                    /\ req'[active'[d]].doc = d
                    /\ points'[active'[d]] \in {"ACTIVE", "SUPERSEDED"}
  BY DEF ActivePast, HasRow, DocOf, Exposed
<1> USE DEF PointsInv
<1>1. CASE active'[d] = active[d]
  <2>1. PICK v \in Versions : v = active[d] /\ v # None
    BY <1>1 DEF TypeInv, TypeOK
  <2>2. pc[v] \in PastActivation /\ HasRow(v) /\ DocOf(v) = d /\ Exposed(v)
    BY <2>1 DEF ActivePast
  <2>3. Kept(v) /\ pc[v] # "idle" /\ Exposed(v)'
    BY <2>2, StepsKeep, ExposedStays DEF PastActivation
  <2>4. pc'[v] \in PastActivation /\ HasRow(v)' /\ DocOf(v)' = d
    BY <2>2, <2>3 DEF Kept
  <2>5. QED
    BY <1>1, <2>1, <2>3, <2>4 DEF HasRow, DocOf, Exposed
<1>2. ASSUME NEW u \in Versions, Activate(u), active'[d] # active[d]
      PROVE  /\ pc'[active'[d]] \in PastActivation
             /\ status'[active'[d]] # "ABSENT"
             /\ req'[active'[d]].doc = d
             /\ points'[active'[d]] \in {"ACTIVE", "SUPERSEDED"}
  <2>1. active'[d] = u /\ DocOf(u) = d
    BY <1>2 DEF Activate, ActivatedId, TypeInv, TypeOK
  <2>2. pc[u] = "activate" /\ points' = points
    BY <1>2 DEF Activate, stores
  <2>3. points'[u] = "ACTIVE" /\ HasRow(u)
    BY <2>2 DEF PromotedIsServed, RowByStep, TaskSteps
  <2>4. Kept(u)
    BY StepsKeep
  <2>5. pc[u] \in Running /\ Reply(u, "done") /\ "done" \in Ended
    BY <1>2, <2>2 DEF Activate, Running, TaskSteps, Ended
  <2>6. pc'[u] \in {"done", Handler(u)}
    BY <2>5, ReplyType DEF TypeInv
  <2>7. pc'[u] \in PastActivation
    BY <2>2, <2>5, <2>6, HandlerPast DEF PastActivation
  <2>8. QED
    BY <2>1, <2>2, <2>3, <2>4, <2>7 DEF Kept, HasRow, DocOf
<1>3. QED
  BY <1>1, <1>2, ActiveStep DEF TypeInv

LEMMA NextPoints == PointsInv /\ [Next]_vars => PointsInv'
BY NextType, NextRowByStep, NextSeenPast, NextActivePast, NextPromotedIsServed, NextExposedLate
   DEF PointsInv

-----------------------------------------------------------------------------
(* The corpus stays queryable.                                             *)

\* A version stops being retrievable only in favour of another of its document.
LEMMA ServedOrReplaced ==
    ASSUME PointsInv, [Next]_vars, NEW x \in Versions, points[x] = "ACTIVE"
    PROVE  \E y \in Versions : DocOf(y)' = DocOf(x) /\ points'[y] = "ACTIVE"
<1> USE DEF PointsInv
<1>1. pc[x] \in {"retire", "activate"} \cup PastActivation
  BY DEF ExposedLate, Exposed
<1>2. pc[x] \notin {"idle", "ingest"}
  BY <1>1 DEF PastActivation
<1>3. DocOf(x)' = DocOf(x)
  BY <1>2, StepsKeep DEF Kept
<1>4. CASE points'[x] = "ACTIVE"
  BY <1>3, <1>4
<1>5. ASSUME NEW u \in Versions, Retire(u), points'[x] # "ACTIVE"
      PROVE  \E y \in Versions : DocOf(y)' = DocOf(x) /\ points'[y] = "ACTIVE"
  <2>1. seen[u].active = x /\ pc[u] = "retire" /\ points' = [points EXCEPT ![x] = "SUPERSEDED"]
    BY <1>5 DEF Retire, TypeInv, TypeOK
  <2>2. x # None
    BY ConstantsAssumption
  <2>3. DocOf(u) = DocOf(x) /\ pc[x] \in PastActivation
    BY <2>1, <2>2 DEF SeenPast
  <2>4. u # x /\ points[u] = "ACTIVE"
    BY <2>1, <2>3 DEF PromotedIsServed, PastActivation
  <2>5. DocOf(u)' = DocOf(u)
    BY <2>1, StepsKeep DEF Kept
  <2>6. QED
    BY <2>1, <2>3, <2>4, <2>5 DEF TypeInv, TypeOK
<1>6. points'[x] = "ACTIVE" \/ \E u \in Versions : Retire(u)
  BY <1>2, PointStep DEF Ingest, Promote, NewPoints, PromotedPoints, TypeInv, TypeOK
<1>7. QED
  BY <1>4, <1>5, <1>6

LEMMA NextQueryable ==
    PointsInv /\ CorpusStaysQueryable /\ [Next]_vars => CorpusStaysQueryable'
<1> SUFFICES ASSUME PointsInv, CorpusStaysQueryable, [Next]_vars, NEW w \in Versions,
                    points'[w] \in {"ACTIVE", "SUPERSEDED"}
             PROVE  \E y \in Versions : DocOf(y)' = DocOf(w)' /\ points'[y] = "ACTIVE"
  BY DEF CorpusStaysQueryable
<1> USE DEF PointsInv
<1>1. CASE Exposed(w)
  <2>1. PICK x \in Versions : DocOf(x) = DocOf(w) /\ points[x] = "ACTIVE"
    BY <1>1 DEF CorpusStaysQueryable, Exposed
  <2>2. DocOf(w)' = DocOf(w)
    BY <1>1, StepsKeep DEF Kept, ExposedLate, PastActivation
  <2>3. QED
    BY <2>1, <2>2, ServedOrReplaced
<1>2. CASE ~Exposed(w)
  <2>1. \/ Promote(w) /\ points'[w] = "ACTIVE"
        \/ \E u \in Versions : Retire(u) /\ seen[u].active = w
    BY <1>2, PointStep DEF Exposed, Ingest, Promote, Retire, NewPoints, PromotedPoints, TypeInv, TypeOK
  <2>2. ASSUME NEW u \in Versions, Retire(u), seen[u].active = w
        PROVE  \E y \in Versions : DocOf(y)' = DocOf(w)' /\ points'[y] = "ACTIVE"
    <3>1. pc[u] = "retire" /\ points[u] = "ACTIVE"
      BY <2>2 DEF Retire, PromotedIsServed
    <3>2. DocOf(u) = DocOf(w) /\ pc[w] \in PastActivation
      BY <2>2, ConstantsAssumption DEF SeenPast
    <3>3. DocOf(w)' = DocOf(w)
      BY <3>2, StepsKeep DEF Kept, PastActivation
    <3>4. QED
      BY <3>1, <3>2, <3>3, ServedOrReplaced
  <2>3. QED
    BY <2>1, <2>2
<1>3. QED
  BY <1>1, <1>2

\* Once retrieval could find a version of a document it can always find one, whatever
\* concurrent promotions, failing calls and crashes do.
THEOREM CorpusQueryable == Spec => []CorpusStaysQueryable
<1>1. Init => CorpusStaysQueryable
  BY DEF Init, CorpusStaysQueryable
<1>2. QED
  BY <1>1, InitPoints, NextPoints, NextQueryable, PTL DEF Spec

-----------------------------------------------------------------------------
(* Version numbers.                                                        *)

\* The number a request has drawn, or will draw, follows one the document has reached:
\* the Document a request loaded may be stale, but is never ahead of its row.
DrawnBehind ==
    \A u \in Versions :
        /\ pc[u] = "check" => seen[u].current <= current[DocOf(u)]
        /\ pc[u] \in {"store", "insert"} => number[u] \in 1 .. current[DocOf(u)] + 1

NumbersInv == PointsInv /\ DrawnBehind /\ VersionNumbersFollowOn

LEMMA RunsForDoc ==
    ASSUME TypeInv, NEW u \in Versions, pc[u] # "idle"
    PROVE  DocOf(u) \in Docs
BY DEF TypeInv, Assigned, DocOf, RequestKeys

\* A row keeps its document and its number.
LEMMA RowStays ==
    ASSUME PointsInv, [Next]_vars, NEW w \in Versions, HasRow(w)
    PROVE  HasRow(w)' /\ DocOf(w)' = DocOf(w) /\ number'[w] = number[w]
<1>1. pc[w] \notin RequestSteps \cup {"idle"}
  BY DEF PointsInv, RowByStep
<1>2. HasRow(w)' /\ DocOf(w)' = DocOf(w)
  BY <1>1, StepsKeep DEF Kept, PointsInv
<1>3. number'[w] = number[w] \/ \E u \in Versions : CheckDuplicate(u)
  BY DEF Next, Step, Begin, StoreBlob, InsertVersion, StartTask, MarkProcessing, ReloadDocument,
     Ingest, BumpGeneration, Promote, Retire, Activate, Undo, RecordFailure, DeleteBlob, CallFails,
     Crash, vars
<1>4. ASSUME NEW u \in Versions, CheckDuplicate(u) PROVE number'[w] = number[w]
  BY <1>1, <1>4 DEF CheckDuplicate, PointsInv, TypeInv, TypeOK, RequestSteps
<1>5. QED
  BY <1>2, <1>3, <1>4

\* Only a commit that creates a row writes current_version.
LEMMA CurrentStep ==
    ASSUME [Next]_vars
    PROVE  \/ current' = current
           \/ \E u \in Versions : InsertVersion(u) /\ ~Conflicts(u)
BY DEF Next, Step, Begin, CheckDuplicate, StoreBlob, InsertVersion, StartTask, MarkProcessing,
   ReloadDocument, Ingest, BumpGeneration, Promote, Retire, Activate, Undo, RecordFailure,
   DeleteBlob, CallFails, Crash, vars, documents

\* The number of a row that is inserted is the next one: the table refuses a number in
\* use, and those in use are all up to current_version.
LEMMA InsertsNext ==
    ASSUME NumbersInv, NEW u \in Versions, InsertVersion(u), ~Conflicts(u)
    PROVE  /\ DocOf(u) \in Docs
           /\ number[u] = current[DocOf(u)] + 1
           /\ current' = [current EXCEPT ![DocOf(u)] = number[u]]
<1> USE DEF NumbersInv, PointsInv
<1>1. pc[u] = "insert" /\ DocOf(u) \in Docs
  BY RunsForDoc DEF InsertVersion
<1>2. number[u] \in 1 .. current[DocOf(u)] + 1 /\ current[DocOf(u)] \in Nat
  BY <1>1 DEF DrawnBehind, TypeInv, TypeOK
<1>3. number[u] \notin {number[w] : w \in Rows(DocOf(u))}
  BY DEF Conflicts
<1>4. number[u] \notin 1 .. current[DocOf(u)]
  BY <1>1, <1>3 DEF VersionNumbersFollowOn
<1>5. QED
  BY <1>1, <1>2, <1>4 DEF InsertVersion

\* current_version never goes back.
LEMMA CurrentGrows ==
    ASSUME NumbersInv, [Next]_vars, NEW d \in Docs
    PROVE  current[d] \in Nat /\ current'[d] \in Nat /\ current[d] <= current'[d]
<1>1. current \in [Docs -> Nat]
  BY DEF NumbersInv, PointsInv, TypeInv, TypeOK
<1>2. CASE current' = current
  BY <1>1, <1>2
<1>3. ASSUME NEW u \in Versions, InsertVersion(u), ~Conflicts(u)
      PROVE  current'[d] \in Nat /\ current[d] <= current'[d]
  <2>1. DocOf(u) \in Docs /\ current' = [current EXCEPT ![DocOf(u)] = current[DocOf(u)] + 1]
    BY <1>3, InsertsNext
  <2>2. QED
    BY <1>1, <2>1
<1>4. QED
  BY <1>1, <1>2, <1>3, CurrentStep

LEMMA InitNumbers == Init => NumbersInv
<1> SUFFICES ASSUME Init PROVE NumbersInv
  OBVIOUS
<1>1. PointsInv
  BY InitPoints
<1>2. DrawnBehind
  <2>1. \A u \in Versions : pc[u] = "idle"
    BY DEF Init
  <2>2. QED
    BY <2>1 DEF DrawnBehind
<1>3. \A d \in Docs : Rows(d) = {} /\ 1 .. current[d] = {}
  <2>1. \A d \in Docs : current[d] = 0
    BY DEF Init
  <2>2. 1 .. 0 = {}
    OBVIOUS
  <2>3. \A u \in Versions : ~HasRow(u)
    BY DEF Init, HasRow
  <2>4. QED
    BY <2>1, <2>2, <2>3 DEF Rows
<1>4. QED
  BY <1>1, <1>2, <1>3 DEF NumbersInv, VersionNumbersFollowOn

\* A request goes from its begin to the check and from there to the store.
LEMMA RequestStep ==
    ASSUME TypeInv, [Next]_vars, NEW w \in Versions
    PROVE  /\ \/ \E r \in RequestKeys : Begin(w, r)
              \/ CheckDuplicate(w)
              \/ pc'[w] = pc[w]
              \/ pc[w] \notin {"idle", "check"} /\ pc'[w] # "check"
              \/ pc'[w] \notin {"check", "store", "insert"}
           /\ number'[w] = number[w] \/ CheckDuplicate(w)
<1> DEFINE Goal ==
           /\ \/ \E r \in RequestKeys : Begin(w, r)
              \/ CheckDuplicate(w)
              \/ pc'[w] = pc[w]
              \/ pc[w] \notin {"idle", "check"} /\ pc'[w] # "check"
              \/ pc'[w] \notin {"check", "store", "insert"}
           /\ number'[w] = number[w] \/ CheckDuplicate(w)
<1> USE DEF TypeInv, TypeOK
<1>1. ASSUME NEW u \in Versions, NEW r \in RequestKeys, Begin(u, r) PROVE Goal
  BY <1>1 DEF Begin, Goto
<1>2. ASSUME NEW u \in Versions, CheckDuplicate(u) PROVE Goal
  BY <1>2 DEF CheckDuplicate, Goto
<1>3. ASSUME NEW u \in Versions,
             \/ StartTask(u) \/ ReloadDocument(u) \/ Undo(u) \/ RecordFailure(u) \/ DeleteBlob(u)
      PROVE  Goal
  BY <1>3 DEF StartTask, ReloadDocument, Undo, RecordFailure, DeleteBlob, Goto, AfterRecord
<1>4. ASSUME NEW u \in Versions,
             \/ StoreBlob(u) \/ InsertVersion(u) \/ MarkProcessing(u) \/ Ingest(u)
             \/ BumpGeneration(u) \/ Promote(u) \/ Retire(u) \/ Activate(u) \/ CallFails(u)
      PROVE  Goal
  <2>1. pc[u] \in Running /\ number' = number
    BY <1>4 DEF StoreBlob, InsertVersion, MarkProcessing, Ingest, BumpGeneration, Promote, Retire,
       Activate, CallFails, Running, RequestSteps, TaskSteps
  <2>2. pc'[w] = pc[w] \/ u = w
    BY <1>4 DEF StoreBlob, InsertVersion, MarkProcessing, Ingest, BumpGeneration, Promote, Retire,
       Activate, CallFails, Goto, Raise, Reply
  <2>3. Handler(u) \notin {"check", "store", "insert"}
    BY <2>1, HandlerType DEF FailureSteps, Ended
  <2>4. CASE CallFails(u)
    BY <2>1, <2>2, <2>3, <2>4 DEF CallFails, Goto
  <2>5. CASE ~CallFails(u)
    <3>1. pc[u] \notin {"idle", "check"}
      BY <1>4, <2>5 DEF StoreBlob, InsertVersion, MarkProcessing, Ingest, BumpGeneration, Promote,
         Retire, Activate
    <3>2. pc'[u] # "check"
      BY <1>4, <2>3, <2>5, AfterInsertType DEF StoreBlob, InsertVersion, MarkProcessing, Ingest,
         BumpGeneration, Promote, Retire, Activate, Goto, Raise, Reply, AfterPromotion
    <3>3. QED
      BY <2>1, <2>2, <3>1, <3>2
  <2>6. QED
    BY <2>4, <2>5
<1>5. CASE Crash
  BY <1>5 DEF Crash
<1>6. CASE UNCHANGED vars
  BY <1>6 DEF vars
<1>7. QED
  BY <1>1, <1>2, <1>3, <1>4, <1>5, <1>6 DEF Next, Step

LEMMA NextDrawnBehind == NumbersInv /\ [Next]_vars => DrawnBehind'
<1> SUFFICES ASSUME NumbersInv, [Next]_vars, NEW w \in Versions
             PROVE  /\ pc'[w] = "check" => seen'[w].current <= current'[DocOf(w)']
                    /\ pc'[w] \in {"store", "insert"} => number'[w] \in 1 .. current'[DocOf(w)'] + 1
  BY DEF DrawnBehind, DocOf
<1> USE DEF NumbersInv, PointsInv
<1> DEFINE Drawn == /\ pc'[w] = "check" => seen'[w].current <= current'[DocOf(w)']
                    /\ pc'[w] \in {"store", "insert"} => number'[w] \in 1 .. current'[DocOf(w)'] + 1
<1>1. ASSUME NEW r \in RequestKeys, Begin(w, r) PROVE Drawn
  <2>1. pc'[w] = "check" /\ DocOf(w)' = r.doc /\ r.doc \in Docs /\ current' = current
    BY <1>1 DEF Begin, Goto, DocOf, TypeInv, TypeOK, RequestKeys, documents
  <2>2. seen'[w].current \in {0, current[r.doc]}
    BY <1>1 DEF Begin, NoRow, RowOf, TypeInv, TypeOK
  <2>3. current[r.doc] \in Nat
    BY <2>1 DEF TypeInv, TypeOK
  <2>4. QED
    BY <2>1, <2>2, <2>3
<1>2. ASSUME CheckDuplicate(w) PROVE Drawn
  <2>1. pc[w] = "check" /\ DocOf(w)' = DocOf(w) /\ current' = current /\ DocOf(w) \in Docs
    BY <1>2, RunsForDoc DEF CheckDuplicate, DocOf, memory, documents
  <2>2. seen[w].current \in Nat /\ seen[w].current <= current[DocOf(w)] /\ current[DocOf(w)] \in Nat
    BY <2>1 DEF DrawnBehind, TypeInv, TypeOK, Snapshot
  <2>3. \/ pc'[w] = "rejected"
        \/ pc'[w] = "store" /\ number'[w] = seen[w].current + 1
    BY <1>2 DEF CheckDuplicate, Goto, TypeInv, TypeOK
  <2>4. QED
    BY <2>1, <2>2, <2>3
<1>3. ASSUME ~(\E r \in RequestKeys : Begin(w, r)), ~CheckDuplicate(w),
             pc'[w] \in {"check", "store", "insert"}
      PROVE  Drawn
  <2>1. /\ pc[w] \in {"check", "store", "insert"}
        /\ pc[w] = "check" <=> pc'[w] = "check"
        /\ number'[w] = number[w]
    <3>1. \/ pc'[w] = pc[w]
          \/ pc[w] = "store" /\ pc'[w] = "insert"
      <4>1. \/ pc'[w] = pc[w]
            \/ pc[w] \notin {"idle", "check"} /\ pc'[w] # "check"
        BY <1>3, RequestStep DEF PointsInv
      <4>2. \/ pc'[w] = pc[w]
            \/ pc[w] = "idle" /\ pc'[w] = "check"
            \/ pc[w] = "check" /\ pc'[w] = "store"
            \/ pc[w] = "store" /\ pc'[w] = "insert"
        BY <1>3, NextStep DEF PointsInv, TaskSteps, PastActivation
      <4>3. QED
        BY <4>1, <4>2
    <3>2. number'[w] = number[w]
      BY <1>3, RequestStep DEF PointsInv
    <3>3. QED
      BY <1>3, <3>1, <3>2
  <2>2. DocOf(w)' = DocOf(w) /\ DocOf(w) \in Docs
    BY <2>1, StepsKeep, RunsForDoc DEF Kept
  <2>3. current[DocOf(w)] \in Nat /\ current'[DocOf(w)] \in Nat
        /\ current[DocOf(w)] <= current'[DocOf(w)]
    BY <2>2, CurrentGrows
  <2>4. CASE pc[w] = "check"
    <3>1. seen'[w] = seen[w]
      BY <1>3, <2>1, <2>4 DEF Next, Step, Begin, CheckDuplicate, StoreBlob, InsertVersion, StartTask,
         MarkProcessing, ReloadDocument, Ingest, BumpGeneration, Promote, Retire, Activate, Undo,
         RecordFailure, DeleteBlob, CallFails, Crash, vars, memory, Remember, TypeInv, TypeOK
    <3>2. seen[w].current \in Nat /\ seen[w].current <= current[DocOf(w)]
      BY <2>4 DEF DrawnBehind, TypeInv, TypeOK, Snapshot
    <3>3. QED
      BY <2>1, <2>2, <2>3, <2>4, <3>1, <3>2
  <2>5. CASE pc[w] \in {"store", "insert"}
    <3>1. number[w] \in 1 .. current[DocOf(w)] + 1
      BY <2>5 DEF DrawnBehind
    <3>2. QED
      BY <2>1, <2>2, <2>3, <2>5, <3>1
  <2>6. QED
    BY <2>1, <2>4, <2>5
<1>4. QED
  BY <1>1, <1>2, <1>3

LEMMA NextNumbers == NumbersInv /\ [Next]_vars => VersionNumbersFollowOn'
<1> SUFFICES ASSUME NumbersInv, [Next]_vars, NEW d \in Docs
             PROVE  /\ {number'[u] : u \in Rows(d)'} = 1 .. current'[d]
                    /\ \A u, w \in Rows(d)' : number'[u] = number'[w] => u = w
  BY DEF VersionNumbersFollowOn
<1> USE DEF NumbersInv
<1>1. /\ {number[u] : u \in Rows(d)} = 1 .. current[d]
      /\ \A u, w \in Rows(d) : number[u] = number[w] => u = w
      /\ current[d] \in Nat
  BY DEF VersionNumbersFollowOn, PointsInv, TypeInv, TypeOK
<1>2. \A w \in Rows(d) : w \in Rows(d)' /\ number'[w] = number[w]
  BY RowStays DEF Rows
<1>3. ASSUME NEW u \in Versions, InsertVersion(u), ~Conflicts(u), DocOf(u) = d
      PROVE  /\ {number'[w] : w \in Rows(d)'} = 1 .. current'[d]
             /\ \A v, w \in Rows(d)' : number'[v] = number'[w] => v = w
  <2>1. number[u] = current[d] + 1 /\ current'[d] = current[d] + 1
    <3>1. number[u] = current[d] + 1 /\ current' = [current EXCEPT ![d] = number[u]]
      BY <1>3, InsertsNext
    <3>2. QED
      BY <3>1 DEF PointsInv, TypeInv, TypeOK
  <2>2. number' = number /\ req' = req
        /\ status' = [status EXCEPT ![u] = "PENDING"]
    BY <1>3 DEF InsertVersion
  <2>3. Rows(d)' = Rows(d) \cup {u}
    BY <1>3, <2>2 DEF Rows, HasRow, DocOf, PointsInv, TypeInv, TypeOK
  <2>4. {number'[w] : w \in Rows(d)'} = {number[w] : w \in Rows(d)} \cup {number[u]}
    BY <2>2, <2>3
  <2>5. 1 .. current'[d] = (1 .. current[d]) \cup {current[d] + 1}
    BY <1>1, <2>1
  <2>6. \A w \in Rows(d) : number[w] # number[u]
    BY <1>3 DEF Conflicts
  <2>7. QED
    BY <1>1, <2>1, <2>2, <2>3, <2>4, <2>5, <2>6
<1>4. ASSUME ~(\E u \in Versions : InsertVersion(u) /\ ~Conflicts(u) /\ DocOf(u) = d)
      PROVE  /\ {number'[w] : w \in Rows(d)'} = 1 .. current'[d]
             /\ \A v, w \in Rows(d)' : number'[v] = number'[w] => v = w
  <2>1. current'[d] = current[d]
    <3>1. ASSUME NEW u \in Versions, InsertVersion(u), ~Conflicts(u) PROVE current'[d] = current[d]
      BY <1>4, <3>1, InsertsNext DEF PointsInv, TypeInv, TypeOK
    <3>2. QED
      BY <3>1, CurrentStep
  <2>2. ASSUME NEW w \in Rows(d)' PROVE w \in Rows(d)
    <3>1. w \in Versions /\ HasRow(w)' /\ DocOf(w)' = d
      BY DEF Rows
    <3>2. CASE HasRow(w)
      BY <3>1, <3>2, RowStays DEF Rows
    <3>3. CASE InsertVersion(w) /\ ~Conflicts(w)
      BY <1>4, <3>1, <3>3 DEF InsertVersion, DocOf
    <3>4. QED
      BY <3>1, <3>2, <3>3, RowAppears DEF HasRow
  <2>3. Rows(d)' = Rows(d)
    BY <1>2, <2>2
  <2>4. QED
    BY <1>1, <1>2, <2>1, <2>3
<1>5. QED
  BY <1>3, <1>4

\* The version numbers of a document are 1, 2, ... current_version, each held by one
\* row, however many uploads compute theirs from the same Document.
THEOREM NumbersFollowOn == Spec => []VersionNumbersFollowOn
<1>1. NumbersInv /\ [Next]_vars => NumbersInv'
  BY NextPoints, NextDrawnBehind, NextNumbers DEF NumbersInv
<1>2. NumbersInv => VersionNumbersFollowOn
  BY DEF NumbersInv
<1>3. QED
  BY <1>1, <1>2, InitNumbers, PTL DEF Spec

-----------------------------------------------------------------------------
(* The active row.                                                         *)

\* The job whose version is the active one has ended well: no handler of its own will
\* record it as failed.
ActiveDone == \A d \in Docs : active[d] # None => pc[active[d]] = "done"

ActiveInv == PointsInv /\ ActiveDone /\ ActiveRowIsActive

\* What becomes of the status of a row that is ACTIVE and whose job is done.
LEMMA ActiveStatusStep ==
    ASSUME PointsInv, [Next]_vars, NEW w \in Versions, status[w] = "ACTIVE", pc[w] = "done"
    PROVE  \/ status'[w] = "ACTIVE"
           \/ \E u \in Versions : Activate(u) /\ seen[u].active = w
<1> USE DEF PointsInv, TypeInv, TypeOK
<1>1. ASSUME NEW u \in Versions, InsertVersion(u) \/ MarkProcessing(u) \/ RecordFailure(u)
      PROVE  status'[w] = status[w]
  BY <1>1 DEF InsertVersion, MarkProcessing, RecordFailure, FailedRows
<1>2. ASSUME NEW u \in Versions, Activate(u), seen[u].active # w
      PROVE  status'[w] \in {"ACTIVE", status[w]}
  BY <1>2 DEF Activate, ActivatedRows
<1>3. ASSUME NEW u \in Versions,
             \/ CheckDuplicate(u) \/ StoreBlob(u) \/ StartTask(u) \/ ReloadDocument(u) \/ Ingest(u)
             \/ BumpGeneration(u) \/ Promote(u) \/ Retire(u) \/ Undo(u) \/ DeleteBlob(u)
             \/ CallFails(u) \/ \E r \in RequestKeys : Begin(u, r)
      PROVE  status' = status
  BY <1>3 DEF CheckDuplicate, StoreBlob, StartTask, ReloadDocument, Ingest, BumpGeneration, Promote,
     Retire, Undo, DeleteBlob, Begin, CallFails
<1>4. CASE Crash \/ UNCHANGED vars
  BY <1>4 DEF Crash, vars
<1>5. QED
  BY <1>1, <1>2, <1>3, <1>4 DEF Next, Step

LEMMA NextActive ==
    ASSUME "activate" \notin LostReplies
    PROVE  ActiveInv /\ [Next]_vars => ActiveDone' /\ ActiveRowIsActive'
<1> SUFFICES ASSUME ActiveInv, [Next]_vars, NEW d \in Docs, active'[d] # None
             PROVE  /\ pc'[active'[d]] = "done"
                    /\ active'[d] \in Rows(d)'
                    /\ status'[active'[d]] = "ACTIVE"
  BY DEF ActiveDone, ActiveRowIsActive
<1> USE DEF ActiveInv
<1>1. ASSUME NEW u \in Versions, Activate(u), DocOf(u) = d
      PROVE  /\ pc'[active'[d]] = "done"
             /\ active'[d] \in Rows(d)'
             /\ status'[active'[d]] = "ACTIVE"
  <2>1. active'[d] = u /\ status'[u] = "ACTIVE" /\ req' = req
    BY <1>1 DEF Activate, ActivatedId, ActivatedRows, PointsInv, TypeInv, TypeOK, memory
  <2>2. pc'[u] = "done"
    BY <1>1 DEF Activate, Reply, Goto, PointsInv, TypeInv, TypeOK
  <2>3. u \in Rows(d)'
    BY <1>1, <2>1 DEF Rows, HasRow, DocOf
  <2>4. QED
    BY <2>1, <2>2, <2>3
<1>2. ASSUME ~(\E u \in Versions : Activate(u) /\ DocOf(u) = d)
      PROVE  /\ pc'[active'[d]] = "done"
             /\ active'[d] \in Rows(d)'
             /\ status'[active'[d]] = "ACTIVE"
  <2>1. active'[d] = active[d]
    <3>1. ASSUME NEW u \in Versions, Activate(u) PROVE active'[d] = active[d]
      BY <1>2, <3>1 DEF Activate, ActivatedId, PointsInv, TypeInv, TypeOK
    <3>2. QED
      BY <3>1, ActiveStep DEF PointsInv
  <2>2. PICK w \in Versions : w = active[d]
    BY <2>1 DEF PointsInv, TypeInv, TypeOK
  <2>3. pc[w] = "done" /\ w \in Rows(d) /\ status[w] = "ACTIVE"
    BY <2>1, <2>2 DEF ActiveDone, ActiveRowIsActive
  <2>4. pc'[w] = "done"
    BY <2>3, StepsKeep DEF Kept, PointsInv
  <2>5. w \in Rows(d)'
    BY <2>3, RowStays DEF Rows
  <2>6. ASSUME NEW u \in Versions, Activate(u), seen[u].active = w PROVE FALSE
    BY <1>2, <2>3, <2>6, ConstantsAssumption DEF PointsInv, SeenPast, Rows
  <2>7. status'[w] = "ACTIVE"
    BY <2>3, <2>6, ActiveStatusStep
  <2>8. QED
    BY <2>1, <2>2, <2>4, <2>5, <2>7
<1>3. QED
  BY <1>1, <1>2

\* Where the reply to the last commit is not lost, active_version_id names a row of the
\* document whose status is ACTIVE, whatever superseding and failing other jobs commit.
THEOREM ActiveRow ==
    ASSUME "activate" \notin LostReplies
    PROVE  Spec => []ActiveRowIsActive
<1>1. Init => ActiveInv
  BY InitPoints DEF Init, ActiveInv, ActiveDone, ActiveRowIsActive
<1>2. ActiveInv /\ [Next]_vars => ActiveInv'
  BY NextPoints, NextActive DEF ActiveInv
<1>3. ActiveInv => ActiveRowIsActive
  BY DEF ActiveInv
<1>4. QED
  BY <1>1, <1>2, <1>3, PTL DEF Spec

-----------------------------------------------------------------------------
(* What the document panel shows as INDEXED.                               *)

IndexedActive == \A d \in Docs : docStatus[d] = "INDEXED" => active[d] # None

\* Two commits write INDEXED: the activation, and the record of a failure by a handler that
\* has seen an active version.
LEMMA IndexedStep ==
    ASSUME TypeInv, [Next]_vars, NEW d \in Docs, docStatus'[d] = "INDEXED"
    PROVE  \/ docStatus[d] = "INDEXED"
           \/ \E u \in Versions : DocOf(u) = d /\ Activate(u)
           \/ \E u \in Versions : DocOf(u) = d /\ seen[u].active # None
<1> DEFINE Goal == \/ docStatus[d] = "INDEXED"
                   \/ \E u \in Versions : DocOf(u) = d /\ Activate(u)
                   \/ \E u \in Versions : DocOf(u) = d /\ seen[u].active # None
<1> USE DEF TypeInv, TypeOK, SetDocStatus
<1>1. ASSUME NEW u \in Versions, InsertVersion(u) PROVE Goal
  BY <1>1 DEF InsertVersion, documents
<1>2. ASSUME NEW u \in Versions, MarkProcessing(u) PROVE Goal
  BY <1>2 DEF MarkProcessing
<1>3. ASSUME NEW u \in Versions, Activate(u) PROVE Goal
  BY <1>3 DEF Activate
<1>4. ASSUME NEW u \in Versions, RecordFailure(u) PROVE Goal
  BY <1>4 DEF RecordFailure, StatusAfterFailure
<1>5. ASSUME NEW u \in Versions,
             \/ CheckDuplicate(u) \/ StoreBlob(u) \/ StartTask(u) \/ ReloadDocument(u) \/ Ingest(u)
             \/ BumpGeneration(u) \/ Promote(u) \/ Retire(u) \/ Undo(u) \/ DeleteBlob(u)
             \/ CallFails(u) \/ \E r \in RequestKeys : Begin(u, r)
      PROVE  docStatus' = docStatus
  BY <1>5 DEF CheckDuplicate, StoreBlob, StartTask, ReloadDocument, Ingest, BumpGeneration, Promote,
     Retire, Undo, DeleteBlob, Begin, CallFails, documents
<1>6. CASE Crash \/ UNCHANGED vars
  BY <1>6 DEF Crash, vars, documents
<1>7. QED
  BY <1>1, <1>2, <1>3, <1>4, <1>5, <1>6 DEF Next, Step

LEMMA NextIndexed == PointsInv /\ IndexedActive /\ [Next]_vars => IndexedActive'
<1> SUFFICES ASSUME PointsInv, IndexedActive, [Next]_vars, NEW d \in Docs, docStatus'[d] = "INDEXED"
             PROVE  active'[d] # None
  BY DEF IndexedActive
<1> USE DEF PointsInv
<1>1. CASE active[d] # None
  BY <1>1, ActiveStays
<1>2. CASE \E u \in Versions : DocOf(u) = d /\ Activate(u)
  BY <1>2, ConstantsAssumption DEF Activate, ActivatedId, TypeInv, TypeOK
<1>3. ASSUME NEW u \in Versions, DocOf(u) = d, seen[u].active # None PROVE active[d] # None
  BY <1>3 DEF SeenPast
<1>4. QED
  BY <1>1, <1>2, <1>3, IndexedStep DEF IndexedActive

\* The document panel says INDEXED only of a document with an active version that
\* retrieval has been given, whatever commits of stale sessions overwrite the status.
THEOREM IndexedServed == Spec => []IndexedIsServed
<1>1. Init => IndexedActive
  BY DEF Init, IndexedActive
<1>2. PointsInv /\ IndexedActive => IndexedIsServed
  <2> SUFFICES ASSUME PointsInv, NEW d \in Docs, active[d] # None
               PROVE  \E u \in Rows(d) : active[d] = u /\ points[u] \in {"ACTIVE", "SUPERSEDED"}
    BY DEF IndexedActive, IndexedIsServed
  <2>1. active[d] \in Versions
    BY DEF PointsInv, TypeInv, TypeOK
  <2>2. QED
    BY <2>1 DEF PointsInv, ActivePast, Exposed, Rows
<1>3. QED
  BY <1>1, <1>2, InitPoints, NextPoints, NextIndexed, PTL DEF Spec

-----------------------------------------------------------------------------
(* The order of a row's statuses.                                          *)

Served == {"ACTIVE", "SUPERSEDED"}

\* Which statuses a row can have while its job is where it is.
StatusByStep ==
    \A u \in Versions :
        /\ pc[u] \in {"queued", "mark"} => status[u] = "PENDING"
        /\ pc[u] \in TaskSteps => status[u] \in {"PENDING", "PROCESSING"}
        /\ pc[u] \in {"undo", "record"} => status[u] \in {"ABSENT", "PENDING", "PROCESSING"}
        /\ status[u] \in Served <=> pc[u] = "done"

SeenDone == \A u \in Versions : seen[u].active # None => pc[seen[u].active] = "done"

OrderInv == ActiveInv /\ StatusByStep /\ SeenDone

\* The commits that change the status of a row.
LEMMA StatusStep ==
    ASSUME TypeInv, [Next]_vars, NEW w \in Versions
    PROVE  \/ status'[w] = status[w]
           \/ InsertVersion(w) /\ ~Conflicts(w) /\ status'[w] = "PENDING"
           \/ MarkProcessing(w) /\ status'[w] = "PROCESSING"
           \/ Activate(w) /\ status'[w] = "ACTIVE"
           \/ RecordFailure(w) /\ HasRow(w) /\ status'[w] = "FAILED"
           \/ \E u \in Versions : /\ Activate(u) /\ u # w /\ seen[u].active = w
                                  /\ status'[w] = "SUPERSEDED"
<1> DEFINE Goal ==
           \/ status'[w] = status[w]
           \/ InsertVersion(w) /\ ~Conflicts(w) /\ status'[w] = "PENDING"
           \/ MarkProcessing(w) /\ status'[w] = "PROCESSING"
           \/ Activate(w) /\ status'[w] = "ACTIVE"
           \/ RecordFailure(w) /\ HasRow(w) /\ status'[w] = "FAILED"
           \/ \E u \in Versions : /\ Activate(u) /\ u # w /\ seen[u].active = w
                                  /\ status'[w] = "SUPERSEDED"
<1> USE DEF TypeInv, TypeOK
<1>1. ASSUME NEW u \in Versions, InsertVersion(u) PROVE Goal
  BY <1>1 DEF InsertVersion, documents
<1>2. ASSUME NEW u \in Versions, MarkProcessing(u) PROVE Goal
  BY <1>2 DEF MarkProcessing
<1>3. ASSUME NEW u \in Versions, Activate(u) PROVE Goal
  BY <1>3 DEF Activate, ActivatedRows
<1>4. ASSUME NEW u \in Versions, RecordFailure(u) PROVE Goal
  BY <1>4 DEF RecordFailure, FailedRows
<1>5. ASSUME NEW u \in Versions,
             \/ CheckDuplicate(u) \/ StoreBlob(u) \/ StartTask(u) \/ ReloadDocument(u) \/ Ingest(u)
             \/ BumpGeneration(u) \/ Promote(u) \/ Retire(u) \/ Undo(u) \/ DeleteBlob(u)
             \/ CallFails(u) \/ \E r \in RequestKeys : Begin(u, r)
      PROVE  status' = status
  BY <1>5 DEF CheckDuplicate, StoreBlob, StartTask, ReloadDocument, Ingest, BumpGeneration, Promote,
     Retire, Undo, DeleteBlob, Begin, CallFails
<1>6. CASE Crash \/ UNCHANGED vars
  BY <1>6 DEF Crash, vars
<1>7. QED
  BY <1>1, <1>2, <1>3, <1>4, <1>5, <1>6 DEF Next, Step

\* The handlers of a running job.
LEMMA Handlers ==
    ASSUME NEW u \in Versions, pc[u] \in Running
    PROVE  /\ Handler(u) \in {"undo", "cleanup", "failed", "rejected"}
           /\ Handler(u) = "undo" => pc[u] \in {"store", "insert"} \cup TaskSteps
           /\ Handler(u) = "cleanup" => u \in stored /\ pc[u] \in {"undo", "record"}
BY DEF Handler, AfterRecord, FailureSteps, Running, RequestSteps, TaskSteps

\* How a job gets to the queue and to its mark, to its end, and to its handler.
LEMMA Arrivals ==
    ASSUME TypeInv, [Next]_vars, NEW w \in Versions
    PROVE  /\ pc'[w] \in {"queued", "mark"} =>
                \/ pc'[w] = pc[w] \/ pc[w] = "queued"
                \/ InsertVersion(w) /\ ~Conflicts(w)
           /\ pc'[w] = "done" => pc[w] = "done" \/ Activate(w)
           /\ pc'[w] \in {"undo", "record"} =>
                pc[w] \in {"store", "insert", "undo", "record"} \cup TaskSteps
<1> DEFINE Goal ==
           /\ pc'[w] \in {"queued", "mark"} =>
                \/ pc'[w] = pc[w] \/ pc[w] = "queued"
                \/ InsertVersion(w) /\ ~Conflicts(w)
           /\ pc'[w] = "done" => pc[w] = "done" \/ Activate(w)
           /\ pc'[w] \in {"undo", "record"} =>
                pc[w] \in {"store", "insert", "undo", "record"} \cup TaskSteps
<1> USE DEF TypeInv, TypeOK
<1>1. ASSUME NEW u \in Versions, NEW r \in RequestKeys, Begin(u, r) PROVE Goal
  BY <1>1 DEF Begin, Goto
<1>2. ASSUME NEW u \in Versions,
             \/ CheckDuplicate(u) \/ StartTask(u) \/ ReloadDocument(u) \/ Undo(u)
             \/ RecordFailure(u) \/ DeleteBlob(u)
      PROVE  Goal
  BY <1>2 DEF CheckDuplicate, StartTask, ReloadDocument, Undo, RecordFailure, DeleteBlob,
     Goto, AfterRecord, TaskSteps
<1>3. ASSUME NEW u \in Versions,
             StoreBlob(u) \/ Ingest(u) \/ BumpGeneration(u) \/ Promote(u) \/ Retire(u)
      PROVE  Goal
  <2>1. /\ pc[u] \in {"store", "ingest", "bump", "promote", "retire"}
        /\ pc'[u] \in {"insert", "bump", "promote", "retire", "activate", Handler(u)}
        /\ \A v \in Versions : v # u => pc'[v] = pc[v]
    <3>1. CASE StoreBlob(u)
      BY <3>1 DEF StoreBlob, Raise, Reply, Goto
    <3>2. CASE Ingest(u) \/ BumpGeneration(u)
      BY <3>2 DEF Ingest, BumpGeneration, Raise, Reply, Goto
    <3>3. CASE Promote(u) \/ Retire(u)
      BY <3>3 DEF Promote, Retire, Reply, Goto, AfterPromotion
    <3>4. QED
      BY <1>3, <3>1, <3>2, <3>3
  <2>2. pc[u] \in Running
    BY <2>1 DEF Running, RequestSteps, TaskSteps
  <2>3. pc'[u] \notin {"queued", "mark", "done", "record"}
    BY <2>1, <2>2, Handlers
  <2>4. QED
    BY <2>1, <2>2, <2>3, Handlers DEF TaskSteps
<1>4. ASSUME NEW u \in Versions, InsertVersion(u) PROVE Goal
  <2>1. pc[u] = "insert" /\ pc[u] \in Running
    BY <1>4 DEF InsertVersion, Running, RequestSteps
  <2>2. /\ pc'[u] \in {"queued", "ingest", "failed", Handler(u)}
        /\ pc'[u] = "queued" => ~Conflicts(u)
        /\ \A v \in Versions : v # u => pc'[v] = pc[v]
    <3>1. CASE Conflicts(u)
      BY <1>4, <2>1, <3>1, Handlers DEF InsertVersion, Raise, Goto
    <3>2. CASE ~Conflicts(u)
      BY <1>4, <3>2, AfterInsertType DEF InsertVersion, Reply, Goto
    <3>3. QED
      BY <3>1, <3>2
  <2>3. pc'[u] \notin {"mark", "done", "record"}
    BY <2>1, <2>2, Handlers
  <2>4. QED
    BY <1>4, <2>1, <2>2, <2>3
<1>5. ASSUME NEW u \in Versions, MarkProcessing(u) \/ Activate(u) PROVE Goal
  <2>1. /\ pc[u] \in {"mark", "activate"}
        /\ pc'[u] \in {"ingest", "reload", "done", Handler(u)}
        /\ pc'[u] = "done" => Activate(u) \/ Handler(u) = "done"
        /\ \A v \in Versions : v # u => pc'[v] = pc[v]
    <3>1. CASE MarkProcessing(u)
      BY <3>1 DEF MarkProcessing, Reply, Goto
    <3>2. CASE Activate(u)
      BY <3>2 DEF Activate, Reply, Goto
    <3>3. QED
      BY <1>5, <3>1, <3>2
  <2>2. pc[u] \in Running
    BY <2>1 DEF Running, TaskSteps
  <2>3. QED
    BY <2>1, <2>2, Handlers DEF TaskSteps
<1>6. ASSUME NEW u \in Versions, CallFails(u) PROVE Goal
  <2>1. /\ pc[u] \in Running /\ pc'[u] = Handler(u)
        /\ \A v \in Versions : v # u => pc'[v] = pc[v]
    BY <1>6 DEF CallFails, Goto
  <2>2. QED
    BY <2>1, Handlers
<1>7. CASE Crash \/ UNCHANGED vars
  BY <1>7 DEF Crash, vars, Running, FailureSteps
<1>8. QED
  BY <1>1, <1>2, <1>3, <1>4, <1>5, <1>6, <1>7 DEF Next, Step

\* How a job leaves its mark, its last commit and the record of its failure.
LEMMA Departures ==
    ASSUME TypeInv, NEW w \in Versions
    PROVE  /\ MarkProcessing(w) => pc'[w] \notin {"queued", "mark"}
           /\ Activate(w) /\ "activate" \notin LostReplies => pc'[w] = "done"
           /\ RecordFailure(w) => pc'[w] \in {"cleanup", "failed"}
<1> USE DEF TypeInv, TypeOK
<1>1. ASSUME MarkProcessing(w) PROVE pc'[w] \notin {"queued", "mark"}
  <2>1. pc[w] \in Running /\ pc'[w] \in {"ingest", "reload", Handler(w)}
    BY <1>1 DEF MarkProcessing, Reply, Goto, Running, TaskSteps
  <2>2. QED
    BY <2>1, Handlers
<1>2. ASSUME Activate(w), "activate" \notin LostReplies PROVE pc'[w] = "done"
  BY <1>2 DEF Activate, Reply, Goto
<1>3. ASSUME RecordFailure(w) PROVE pc'[w] \in {"cleanup", "failed"}
  BY <1>3 DEF RecordFailure, AfterRecord, Goto
<1>4. QED
  BY <1>1, <1>2, <1>3

LEMMA NextStatusByStep ==
    ASSUME "activate" \notin LostReplies
    PROVE  OrderInv /\ [Next]_vars => StatusByStep'
<1> SUFFICES ASSUME OrderInv, [Next]_vars, NEW w \in Versions
             PROVE  /\ pc'[w] \in {"queued", "mark"} => status'[w] = "PENDING"
                    /\ pc'[w] \in TaskSteps => status'[w] \in {"PENDING", "PROCESSING"}
                    /\ pc'[w] \in {"undo", "record"} => status'[w] \in {"ABSENT", "PENDING", "PROCESSING"}
                    /\ status'[w] \in Served <=> pc'[w] = "done"
  BY DEF StatusByStep
<1> DEFINE Fits == /\ pc'[w] \in {"queued", "mark"} => status'[w] = "PENDING"
                   /\ pc'[w] \in TaskSteps => status'[w] \in {"PENDING", "PROCESSING"}
                   /\ pc'[w] \in {"undo", "record"} => status'[w] \in {"ABSENT", "PENDING", "PROCESSING"}
                   /\ status'[w] \in Served <=> pc'[w] = "done"
<1>0. /\ TypeInv /\ PointsInv
      /\ pc[w] \in {"queued", "mark"} => status[w] = "PENDING"
      /\ pc[w] \in TaskSteps => status[w] \in {"PENDING", "PROCESSING"}
      /\ pc[w] \in {"undo", "record"} => status[w] \in {"ABSENT", "PENDING", "PROCESSING"}
      /\ status[w] \in Served <=> pc[w] = "done"
      /\ pc[w] \in RequestSteps \cup {"idle"} => status[w] = "ABSENT"
  BY DEF OrderInv, ActiveInv, PointsInv, StatusByStep, RowByStep, HasRow
<1>1. CASE InsertVersion(w) /\ ~Conflicts(w) /\ status'[w] = "PENDING"
  <2>1. pc[w] = "insert"
    BY <1>1 DEF InsertVersion
  <2>2. pc'[w] # "done"
    BY <1>0, <2>1, Arrivals DEF Activate
  <2>3. QED
    BY <1>1, <2>2 DEF Served
<1>2. CASE MarkProcessing(w) /\ status'[w] = "PROCESSING"
  <2>1. pc[w] = "mark" /\ pc'[w] \notin {"queued", "mark"}
    BY <1>0, <1>2, Departures DEF MarkProcessing
  <2>2. pc'[w] # "done"
    BY <1>0, <2>1, Arrivals DEF Activate
  <2>3. QED
    BY <1>2, <2>1, <2>2 DEF Served
<1>3. CASE Activate(w) /\ status'[w] = "ACTIVE"
  BY <1>0, <1>3, Departures DEF Served, TaskSteps
<1>4. CASE RecordFailure(w) /\ status'[w] = "FAILED"
  BY <1>0, <1>4, Departures DEF Served, TaskSteps
<1>5. ASSUME NEW u \in Versions, Activate(u), u # w, seen[u].active = w, status'[w] = "SUPERSEDED"
      PROVE  Fits
  <2>1. pc[w] = "done"
    BY <1>5, ConstantsAssumption DEF OrderInv, SeenDone
  <2>2. pc'[w] = "done"
    BY <1>0, <2>1, StepsKeep DEF Kept
  <2>3. QED
    BY <1>5, <2>2 DEF Served, TaskSteps
<1>6. CASE status'[w] = status[w]
  <2>1. CASE InsertVersion(w) /\ ~Conflicts(w)
    <3>1. status'[w] = "PENDING"
      BY <1>0, <2>1 DEF InsertVersion, TypeInv, TypeOK
    <3>2. QED
      BY <1>1, <2>1, <3>1
  <2>2. CASE Activate(w)
    <3>1. status'[w] = "ACTIVE"
      BY <2>2 DEF Activate, ActivatedRows
    <3>2. QED
      BY <1>3, <2>2, <3>1
  <2>3. CASE ~Activate(w) /\ ~(InsertVersion(w) /\ ~Conflicts(w))
    <3>1. pc'[w] = "done" <=> pc[w] = "done"
      BY <1>0, <2>3, Arrivals, StepsKeep DEF Kept
    <3>2. pc'[w] \in {"queued", "mark"} => pc[w] \in {"queued", "mark"}
      BY <1>0, <2>3, Arrivals
    <3>3. pc'[w] \in {"undo", "record"} => status[w] \in {"ABSENT", "PENDING", "PROCESSING"}
      BY <1>0, Arrivals DEF RequestSteps
    <3>4. pc'[w] \in TaskSteps => pc[w] \in TaskSteps
      BY <1>0, <2>3, NextStep DEF Promote, Retire, TaskSteps, PastActivation
    <3>5. QED
      BY <1>0, <1>6, <3>1, <3>2, <3>3, <3>4
  <2>4. QED
    BY <2>1, <2>2, <2>3
<1>7. QED
  BY <1>0, <1>1, <1>2, <1>3, <1>4, <1>5, <1>6, StatusStep

\* A session learns of an active version from the documents row, and the job of that
\* version has ended well.
LEMMA NextSeenDone == OrderInv /\ [Next]_vars => SeenDone'
<1> SUFFICES ASSUME OrderInv, [Next]_vars, NEW w \in Versions, seen'[w].active # None
             PROVE  pc'[seen'[w].active] = "done"
  BY DEF SeenDone
<1>0. TypeInv
  BY DEF OrderInv, ActiveInv, PointsInv
<1>1. seen[w].active \in Versions \cup {None}
  BY <1>0 DEF TypeInv, TypeOK, Snapshot
<1>2. CASE seen'[w].active = seen[w].active
  BY <1>0, <1>1, <1>2, StepsKeep DEF OrderInv, SeenDone, Kept
<1>3. CASE req'[w].doc \in Docs /\ seen'[w].active = active[req'[w].doc]
  <2>1. PICK v \in Versions : v = seen'[w].active /\ pc[v] = "done"
    BY <1>0, <1>3 DEF OrderInv, ActiveInv, ActiveDone, TypeInv, TypeOK
  <2>2. QED
    BY <1>0, <2>1, StepsKeep DEF Kept
<1>4. QED
  BY <1>0, <1>2, <1>3, SeenStep

LEMMA InitOrder == Init => OrderInv
<1> HAVE Init
<1>1. ActiveInv
  BY InitPoints DEF Init, ActiveInv, ActiveDone, ActiveRowIsActive
<1>2. \A u \in Versions : pc[u] = "idle" /\ status[u] = "ABSENT" /\ seen[u].active = None
  BY DEF Init, NoRow
<1>3. QED
  BY <1>1, <1>2 DEF OrderInv, StatusByStep, SeenDone, Served, TaskSteps

LEMMA NextOrder ==
    ASSUME "activate" \notin LostReplies
    PROVE  OrderInv /\ [Next]_vars => OrderInv'
<1> SUFFICES ASSUME OrderInv, [Next]_vars PROVE OrderInv'
  OBVIOUS
<1>1. ActiveInv'
  BY NextPoints, NextActive DEF OrderInv, ActiveInv
<1>2. QED
  BY <1>1, NextStatusByStep, NextSeenDone DEF OrderInv

\* Where the reply to the last commit is not lost, a row goes from PENDING to PROCESSING to
\* ACTIVE or FAILED and from ACTIVE to SUPERSEDED, whichever job commits.
THEOREM OrderOfStatuses ==
    ASSUME "activate" \notin LostReplies
    PROVE  Spec => LifecycleOrder
<1> DEFINE InOrder == \A u \in Versions : status'[u] # status[u] =>
                         \/ Progress(status[u], status'[u])
                         \/ /\ status[u] = "ACTIVE" /\ status'[u] = "SUPERSEDED"
                            /\ active'[DocOf(u)] \notin {u, None}
<1>1. ASSUME OrderInv, [Next]_vars PROVE [InOrder]_vars
  <2> SUFFICES ASSUME NEW w \in Versions, status'[w] # status[w]
               PROVE  \/ Progress(status[w], status'[w])
                      \/ /\ status[w] = "ACTIVE" /\ status'[w] = "SUPERSEDED"
                         /\ active'[DocOf(w)] \notin {w, None}
    OBVIOUS
  <2>0. TypeInv /\ RowByStep
    BY <1>1 DEF OrderInv, ActiveInv, PointsInv
  <2>1. CASE InsertVersion(w) /\ status'[w] = "PENDING"
    BY <2>0, <2>1 DEF InsertVersion, RowByStep, HasRow, RequestSteps, Progress
  <2>2. CASE MarkProcessing(w) /\ status'[w] = "PROCESSING"
    BY <1>1, <2>2 DEF MarkProcessing, OrderInv, StatusByStep, Progress
  <2>3. CASE Activate(w) /\ status'[w] = "ACTIVE"
    BY <1>1, <2>3 DEF Activate, OrderInv, StatusByStep, TaskSteps, Progress
  <2>4. CASE RecordFailure(w) /\ HasRow(w) /\ status'[w] = "FAILED"
    BY <1>1, <2>4 DEF RecordFailure, HasRow, OrderInv, StatusByStep, Progress
  <2>5. ASSUME NEW u \in Versions, Activate(u), u # w, seen[u].active = w, status'[w] = "SUPERSEDED"
        PROVE  status[w] = "ACTIVE" /\ active'[DocOf(w)] \notin {w, None}
    <3>1. pc[w] = "done" /\ DocOf(w) = DocOf(u)
      BY <1>1, <2>5, ConstantsAssumption DEF OrderInv, ActiveInv, PointsInv, SeenDone, SeenPast
    <3>2. status[w] = "ACTIVE"
      BY <1>1, <2>5, <3>1 DEF OrderInv, StatusByStep, Served
    <3>3. DocOf(u) \in Docs
      BY <2>0, <2>5, RunsForDoc DEF Activate
    <3>4. active'[DocOf(w)] = u
      BY <2>0, <2>5, <3>1, <3>3 DEF Activate, ActivatedId, TypeInv, TypeOK
    <3>5. QED
      BY <2>5, <3>2, <3>4, ConstantsAssumption
  <2>6. QED
    BY <2>0, <1>1, <2>1, <2>2, <2>3, <2>4, <2>5, StatusStep
<1>2. OrderInv /\ [Next]_vars => OrderInv'
  BY NextOrder
<1>3. QED
  BY <1>1, <1>2, InitOrder, PTL DEF Spec, LifecycleOrder

-----------------------------------------------------------------------------
(* The files of the versions.                                              *)

\* The jobs that own a blob: no handler will delete it, or their own is about to.
Keeps(u) == \/ pc[u] \in {"insert", "done"} \cup TaskSteps
            \/ pc[u] \in FailureSteps /\ u \in stored

StoredLate ==
    \A u \in Versions : /\ pc[u] \in {"idle", "check", "store"} => u \notin stored
                        /\ pc[u] = "cleanup" => u \in stored

KeptBlobs == \A u \in Versions : Keeps(u) => BlobPath(u) \in blobs

OwnPaths == \A u, w \in Versions : Keeps(u) /\ Keeps(w) /\ u # w => BlobPath(u) # BlobPath(w)

BlobInv == OrderInv /\ StoredLate /\ KeptBlobs /\ OwnPaths

\* Only a request stores and deletes blobs, and only its own.
LEMMA BlobStep ==
    ASSUME TypeInv, [Next]_vars
    PROVE  \/ blobs' = blobs
           \/ \E u \in Versions : /\ StoreBlob(u) /\ ~PathTaken(u)
                                  /\ blobs' = blobs \cup {BlobPath(u)}
           \/ \E u \in Versions : DeleteBlob(u) /\ blobs' = blobs \ {BlobPath(u)}
<1>1. ASSUME NEW u \in Versions, StoreBlob(u)
      PROVE  \/ blobs' = blobs
             \/ ~PathTaken(u) /\ blobs' = blobs \cup {BlobPath(u)}
  BY <1>1 DEF StoreBlob
<1>2. ASSUME NEW u \in Versions, DeleteBlob(u) PROVE blobs' = blobs \ {BlobPath(u)}
  BY <1>2 DEF DeleteBlob
<1>3. ASSUME NEW u \in Versions,
             \/ CheckDuplicate(u) \/ InsertVersion(u) \/ StartTask(u) \/ MarkProcessing(u)
             \/ ReloadDocument(u) \/ Ingest(u) \/ BumpGeneration(u) \/ Promote(u) \/ Retire(u)
             \/ Activate(u) \/ Undo(u) \/ RecordFailure(u) \/ CallFails(u)
             \/ \E r \in RequestKeys : Begin(u, r)
      PROVE  blobs' = blobs
  BY <1>3 DEF CheckDuplicate, InsertVersion, StartTask, MarkProcessing, ReloadDocument, Ingest,
     BumpGeneration, Promote, Retire, Activate, Undo, RecordFailure, CallFails, Begin, stores
<1>4. CASE Crash \/ UNCHANGED vars
  BY <1>4 DEF Crash, vars, stores
<1>5. QED
  BY <1>1, <1>2, <1>3, <1>4 DEF Next, Step

\* A job joins those whose request owns a blob when it goes on from its store, and leaves
\* them when its task is queued.
LEMMA StoredStep ==
    ASSUME TypeInv, [Next]_vars, NEW w \in Versions
    PROVE  \/ w \in stored' <=> w \in stored
           \/ StoreBlob(w) /\ ~PathTaken(w) /\ pc'[w] = "insert" /\ w \in stored'
           \/ InsertVersion(w) /\ pc'[w] = "queued" /\ w \notin stored'
<1> USE DEF TypeInv, TypeOK
<1>1. ASSUME NEW u \in Versions, StoreBlob(u)
      PROVE  \/ w \in stored' <=> w \in stored
             \/ u = w /\ ~PathTaken(w) /\ pc'[w] = "insert" /\ w \in stored'
  BY <1>1 DEF StoreBlob
<1>2. ASSUME NEW u \in Versions, InsertVersion(u)
      PROVE  \/ w \in stored' <=> w \in stored
             \/ u = w /\ pc'[w] = "queued" /\ w \notin stored'
  BY <1>2 DEF InsertVersion
<1>3. ASSUME NEW u \in Versions,
             \/ CheckDuplicate(u) \/ StartTask(u) \/ MarkProcessing(u)
             \/ ReloadDocument(u) \/ Ingest(u) \/ BumpGeneration(u) \/ Promote(u) \/ Retire(u)
             \/ Activate(u) \/ Undo(u) \/ RecordFailure(u) \/ DeleteBlob(u) \/ CallFails(u)
             \/ \E r \in RequestKeys : Begin(u, r)
      PROVE  stored' = stored
  BY <1>3 DEF CheckDuplicate, StartTask, MarkProcessing, ReloadDocument, Ingest, BumpGeneration,
     Promote, Retire, Activate, Undo, RecordFailure, DeleteBlob, CallFails, Begin, memory
<1>4. CASE Crash \/ UNCHANGED vars
  BY <1>4 DEF Crash, vars, memory
<1>5. QED
  BY <1>1, <1>2, <1>3, <1>4 DEF Next, Step

\* Where a job comes from that inserts its row, that starts over, or that cleans up.
LEMMA RequestArrivals ==
    ASSUME TypeInv, [Next]_vars, NEW w \in Versions
    PROVE  /\ pc'[w] = "insert" =>
                \/ pc[w] = "insert"
                \/ StoreBlob(w) /\ ~PathTaken(w) /\ w \in stored'
           /\ pc'[w] \in {"idle", "check", "store"} => pc[w] \in {"idle", "check", "store"}
           /\ pc'[w] = "cleanup" =>
                /\ pc[w] \in FailureSteps
                /\ pc[w] = "cleanup" \/ w \in stored
<1> DEFINE Goal ==
           /\ pc'[w] = "insert" =>
                \/ pc[w] = "insert"
                \/ StoreBlob(w) /\ ~PathTaken(w) /\ w \in stored'
           /\ pc'[w] \in {"idle", "check", "store"} => pc[w] \in {"idle", "check", "store"}
           /\ pc'[w] = "cleanup" =>
                /\ pc[w] \in FailureSteps
                /\ pc[w] = "cleanup" \/ w \in stored
<1> USE DEF TypeInv, TypeOK
<1>1. ASSUME NEW u \in Versions, NEW r \in RequestKeys, Begin(u, r) PROVE Goal
  BY <1>1 DEF Begin, Goto, FailureSteps
<1>2. ASSUME NEW u \in Versions,
             \/ CheckDuplicate(u) \/ StartTask(u) \/ ReloadDocument(u) \/ Undo(u)
             \/ RecordFailure(u) \/ DeleteBlob(u)
      PROVE  Goal
  BY <1>2 DEF CheckDuplicate, StartTask, ReloadDocument, Undo, RecordFailure, DeleteBlob,
     Goto, AfterRecord, FailureSteps
<1>3. ASSUME NEW u \in Versions, StoreBlob(u) PROVE Goal
  <2>1. pc[u] = "store" /\ pc[u] \in Running
    BY <1>3 DEF StoreBlob, Running, RequestSteps
  <2>2. /\ \/ pc'[u] = Handler(u)
           \/ pc'[u] = "insert" /\ ~PathTaken(u) /\ u \in stored'
        /\ \A v \in Versions : v # u => pc'[v] = pc[v]
    BY <1>3 DEF StoreBlob, Raise, Reply, Goto
  <2>3. QED
    BY <1>3, <2>1, <2>2, Handlers DEF FailureSteps
<1>4. ASSUME NEW u \in Versions,
             \/ InsertVersion(u) \/ MarkProcessing(u) \/ Ingest(u) \/ BumpGeneration(u)
             \/ Promote(u) \/ Retire(u) \/ Activate(u) \/ CallFails(u)
      PROVE  Goal
  <2>1. /\ pc[u] \in Running
        /\ pc'[u] \in {"queued", "ingest", "reload", "bump", "promote", "retire", "activate", "done",
                       "failed", Handler(u)}
        /\ \A v \in Versions : v # u => pc'[v] = pc[v]
    <3>1. CASE InsertVersion(u) \/ MarkProcessing(u)
      BY <3>1, AfterInsertType DEF InsertVersion, MarkProcessing, Raise, Reply, Goto, Running,
         RequestSteps, TaskSteps
    <3>2. CASE Ingest(u) \/ BumpGeneration(u)
      BY <3>2 DEF Ingest, BumpGeneration, Raise, Reply, Goto, Running, TaskSteps
    <3>3. CASE Promote(u) \/ Retire(u) \/ Activate(u)
      BY <3>3 DEF Promote, Retire, Activate, Reply, Goto, AfterPromotion, Running, TaskSteps
    <3>4. CASE CallFails(u)
      BY <3>4 DEF CallFails, Goto
    <3>5. QED
      BY <1>4, <3>1, <3>2, <3>3, <3>4
  <2>2. QED
    BY <2>1, Handlers DEF FailureSteps
<1>5. CASE Crash \/ UNCHANGED vars
  BY <1>5 DEF Crash, vars, Running, FailureSteps
<1>6. QED
  BY <1>1, <1>2, <1>3, <1>4, <1>5 DEF Next, Step

LEMMA NextStoredLate == BlobInv /\ [Next]_vars => StoredLate'
<1> SUFFICES ASSUME BlobInv, [Next]_vars, NEW w \in Versions
             PROVE  /\ pc'[w] \in {"idle", "check", "store"} => w \notin stored'
                    /\ pc'[w] = "cleanup" => w \in stored'
  BY DEF StoredLate
<1>0. TypeInv
  BY DEF BlobInv, OrderInv, ActiveInv, PointsInv
<1>1. QED
  BY <1>0, StoredStep, RequestArrivals DEF BlobInv, StoredLate

\* A job that has stored its blob keeps its path.
LEMMA PathStays ==
    ASSUME TypeInv, [Next]_vars, NEW w \in Versions, pc[w] \notin {"idle", "check"}
    PROVE  BlobPath(w)' = BlobPath(w)
<1>1. DocOf(w)' = DocOf(w) /\ number'[w] = number[w]
  BY StepsKeep, RequestStep DEF Kept, CheckDuplicate
<1>2. req'[w].file = req[w].file
  <2>1. req' = req \/ \E u \in Versions, r \in RequestKeys : Begin(u, r)
    BY DEF Next, Step, CheckDuplicate, StoreBlob, InsertVersion, StartTask, MarkProcessing,
       ReloadDocument, Ingest, BumpGeneration, Promote, Retire, Activate, Undo, RecordFailure,
       DeleteBlob, CallFails, Crash, vars, memory
  <2>2. QED
    BY <2>1 DEF Begin, TypeInv, TypeOK
<1>3. QED
  BY <1>1, <1>2 DEF BlobPath

\* A job comes to own a blob by storing it where there was none.
LEMMA KeepsSince ==
    ASSUME TypeInv, StoredLate, [Next]_vars, NEW w \in Versions, Keeps(w)'
    PROVE  \/ Keeps(w)
           \/ StoreBlob(w) /\ ~PathTaken(w) /\ pc'[w] = "insert"
<1>1. CASE pc'[w] = "insert"
  BY <1>1, RequestArrivals DEF Keeps
<1>2. CASE pc'[w] = "done"
  BY <1>2, Arrivals DEF Keeps, Activate, TaskSteps
<1>3. CASE pc'[w] \in TaskSteps
  BY <1>3, NextStep DEF Keeps, InsertVersion, Promote, Retire, TaskSteps, PastActivation
<1>4. CASE pc'[w] \in FailureSteps /\ w \in stored'
  <2>1. w \in stored
    BY <1>4, StoredStep DEF FailureSteps
  <2>2. pc[w] \in {"insert"} \cup TaskSteps \cup FailureSteps
    BY <1>4, <2>1, Arrivals, RequestArrivals DEF StoredLate, FailureSteps
  <2>3. QED
    BY <2>1, <2>2 DEF Keeps
<1>5. QED
  BY <1>1, <1>2, <1>3, <1>4 DEF Keeps

LEMMA NextBlobs == BlobInv /\ [Next]_vars => KeptBlobs' /\ OwnPaths'
<1> SUFFICES ASSUME BlobInv, [Next]_vars PROVE KeptBlobs' /\ OwnPaths'
  OBVIOUS
<1>0. TypeInv /\ StoredLate
  BY DEF BlobInv, OrderInv, ActiveInv, PointsInv
<1>1. ASSUME NEW w \in Versions, Keeps(w)
      PROVE  BlobPath(w)' = BlobPath(w) /\ BlobPath(w) \in blobs
  BY <1>0, <1>1, PathStays DEF BlobInv, KeptBlobs, Keeps, TaskSteps, FailureSteps
<1>2. ASSUME NEW w \in Versions, Keeps(w)', ~Keeps(w)
      PROVE  /\ StoreBlob(w) /\ BlobPath(w)' = BlobPath(w) /\ BlobPath(w) \notin blobs
             /\ blobs' = blobs \cup {BlobPath(w)} /\ pc[w] = "store" /\ pc'[w] = "insert"
  <2>1. StoreBlob(w) /\ ~PathTaken(w) /\ pc'[w] = "insert"
    BY <1>0, <1>2, KeepsSince
  <2>2. pc[w] = "store" /\ blobs' = blobs \cup {BlobPath(w)} /\ BlobPath(w) \notin blobs
    BY <2>1 DEF StoreBlob, PathTaken
  <2>3. QED
    BY <1>0, <2>1, <2>2, PathStays
<1>3. ASSUME NEW w \in Versions, Keeps(w)' PROVE BlobPath(w)' \in blobs'
  <2>1. CASE ~Keeps(w)
    BY <1>2, <1>3, <2>1
  <2>2. CASE Keeps(w)
    <3>1. ASSUME NEW u \in Versions, DeleteBlob(u), blobs' = blobs \ {BlobPath(u)}
          PROVE  BlobPath(w) \in blobs'
      <4>1. Keeps(u)
        BY <1>0, <3>1 DEF DeleteBlob, StoredLate, Keeps, FailureSteps
      <4>2. u # w
        BY <1>0, <1>3, <3>1 DEF DeleteBlob, Goto, TypeInv, TypeOK, Keeps, TaskSteps, FailureSteps
      <4>3. BlobPath(u) # BlobPath(w)
        BY <2>2, <4>1, <4>2 DEF BlobInv, OwnPaths
      <4>4. QED
        BY <1>1, <2>2, <3>1, <4>3
    <3>2. QED
      BY <1>0, <1>1, <2>2, <3>1, BlobStep
  <2>3. QED
    BY <2>1, <2>2
<1>4. ASSUME NEW u \in Versions, NEW w \in Versions, Keeps(u)', Keeps(w)', u # w
      PROVE  BlobPath(u)' # BlobPath(w)'
  <2>1. CASE Keeps(u) /\ Keeps(w)
    BY <1>1, <1>4, <2>1 DEF BlobInv, OwnPaths
  <2>2. CASE Keeps(u) /\ ~Keeps(w)
    BY <1>1, <1>2, <1>4, <2>2
  <2>3. CASE ~Keeps(u) /\ Keeps(w)
    BY <1>1, <1>2, <1>4, <2>3
  <2>4. CASE ~Keeps(u) /\ ~Keeps(w)
    <3>1. pc[u] = "store" /\ pc'[u] = "insert" /\ StoreBlob(w)
      BY <1>2, <1>4, <2>4
    <3>2. pc'[u] = pc[u]
      BY <1>0, <1>4, <3>1 DEF StoreBlob, Raise, Reply, Goto, TypeInv, TypeOK
    <3>3. QED
      BY <3>1, <3>2
  <2>5. QED
    BY <2>1, <2>2, <2>3, <2>4
<1>5. QED
  BY <1>3, <1>4 DEF KeptBlobs, OwnPaths

\* Where the reply to the last commit is not lost: no failed upload deletes, and no
\* concurrent upload replaces, the file of a version that is or was active.
THEOREM ServedFiles ==
    ASSUME "activate" \notin LostReplies
    PROVE  Spec => []ServedVersionHasBlob
<1>1. Init => BlobInv
  <2> HAVE Init
  <2>1. \A u \in Versions : pc[u] = "idle" /\ u \notin stored
    BY DEF Init
  <2>2. \A u \in Versions : ~Keeps(u)
    BY <2>1 DEF Keeps, TaskSteps, FailureSteps
  <2>3. QED
    BY <2>1, <2>2, InitOrder DEF BlobInv, StoredLate, KeptBlobs, OwnPaths
<1>2. BlobInv /\ [Next]_vars => BlobInv'
  BY NextOrder, NextStoredLate, NextBlobs DEF BlobInv
<1>3. BlobInv => ServedVersionHasBlob
  BY DEF BlobInv, OrderInv, StatusByStep, Served, KeptBlobs, Keeps, ServedVersionHasBlob
<1>4. QED
  BY <1>1, <1>2, <1>3, PTL DEF Spec

-----------------------------------------------------------------------------
(* Uploads one after the other.                                            *)

\* While a job runs, the other jobs of its document have ended.
Alone ==
    /\ \A u, w \in Versions :
          u # w /\ pc[u] \in Running /\ DocOf(w) = DocOf(u) => pc[w] \in Ended
    /\ \A u \in Versions : pc[u] = "idle" => DocOf(u) = None

\* What a job remembers of the Document is what the row holds, except where a lost reply
\* or a recorded failure has just made it stale.
SeenNow ==
    \A u \in Versions : pc[u] \in Running \ {"undo", "cleanup"} =>
        /\ seen[u].active = active[DocOf(u)]
        /\ seen[u].status = docStatus[DocOf(u)]

\* A document without uploads has no row.
Fresh == \A d \in Docs : (\A u \in Versions : DocOf(u) # d) => docStatus[d] = "ABSENT"

RowsInv ==
    /\ NumbersInv
    /\ Alone /\ SeenNow /\ Fresh
    /\ ActiveDocumentNotFailed

\* The steps of one job.
Acts(v) == Step(v) \/ CallFails(v)

LEMMA WhoActs ==
    ASSUME [Next]_vars
    PROVE  \/ \E v \in Versions : Acts(v)
           \/ \E v \in Versions, r \in RequestKeys : Begin(v, r)
           \/ Crash
           \/ UNCHANGED vars
BY DEF Next, Acts

LEMMA ActsRuns ==
    ASSUME NEW v \in Versions, Acts(v)
    PROVE  pc[v] \in Running
BY DEF Acts, Step, CheckDuplicate, StoreBlob, InsertVersion, StartTask, MarkProcessing,
   ReloadDocument, Ingest, BumpGeneration, Promote, Retire, Activate, Undo, RecordFailure,
   DeleteBlob, CallFails, Running, RequestSteps, TaskSteps, FailureSteps

\* A job touches its own program counter and memory, and the row of its own document.
LEMMA ActsLocally ==
    ASSUME TypeInv, NEW v \in Versions, Acts(v)
    PROVE  /\ req' = req
           /\ \A w \in Versions : w # v => pc'[w] = pc[w] /\ seen'[w] = seen[w]
           /\ \A d \in Docs : d # DocOf(v) => active'[d] = active[d] /\ docStatus'[d] = docStatus[d]
<1> USE DEF TypeInv, TypeOK
<1>1. req' = req
  BY DEF Acts, Step, CheckDuplicate, StoreBlob, InsertVersion, StartTask, MarkProcessing,
     ReloadDocument, Ingest, BumpGeneration, Promote, Retire, Activate, Undo, RecordFailure,
     DeleteBlob, CallFails, memory
<1>2. ASSUME NEW w \in Versions, w # v PROVE pc'[w] = pc[w]
  BY <1>2 DEF Acts, Step, CheckDuplicate, StoreBlob, InsertVersion, StartTask, MarkProcessing,
     ReloadDocument, Ingest, BumpGeneration, Promote, Retire, Activate, Undo, RecordFailure,
     DeleteBlob, CallFails, Goto, Raise, Reply
<1>3. ASSUME NEW w \in Versions, w # v PROVE seen'[w] = seen[w]
  BY <1>3 DEF Acts, Step, CheckDuplicate, StoreBlob, InsertVersion, StartTask, MarkProcessing,
     ReloadDocument, Ingest, BumpGeneration, Promote, Retire, Activate, Undo, RecordFailure,
     DeleteBlob, CallFails, memory, Remember
<1>4. ASSUME NEW d \in Docs, d # DocOf(v) PROVE active'[d] = active[d]
  BY <1>4 DEF Acts, Step, CheckDuplicate, StoreBlob, InsertVersion, StartTask, MarkProcessing,
     ReloadDocument, Ingest, BumpGeneration, Promote, Retire, Activate, Undo, RecordFailure,
     DeleteBlob, CallFails, documents, ActivatedId
<1>5. ASSUME NEW d \in Docs, d # DocOf(v) PROVE docStatus'[d] = docStatus[d]
  BY <1>5 DEF Acts, Step, CheckDuplicate, StoreBlob, InsertVersion, StartTask, MarkProcessing,
     ReloadDocument, Ingest, BumpGeneration, Promote, Retire, Activate, Undo, RecordFailure,
     DeleteBlob, CallFails, documents, SetDocStatus
<1>6. QED
  BY <1>1, <1>2, <1>3, <1>4, <1>5

\* A job that acts comes to another running step, or to an end.
LEMMA ActsOn ==
    ASSUME TypeInv, NEW v \in Versions, Acts(v)
    PROVE  pc'[v] \in Running \cup Ended
<1>1. TypeInv'
  BY NextType DEF Next, Acts
<1>2. pc'[v] # "idle"
  <2>1. pc[v] # "idle" /\ [Next]_vars
    BY ActsRuns DEF Next, Acts, Running, RequestSteps, TaskSteps, FailureSteps
  <2>2. QED
    BY <2>1, StepsKeep DEF Kept
<1>3. QED
  BY <1>1, <1>2 DEF TypeInv, TypeOK

LEMMA NextAlone ==
    ASSUME SerialUploads, TypeInv, Alone, [Next]_vars
    PROVE  Alone'
<1>1. CASE UNCHANGED vars
  BY <1>1 DEF vars, memory, Alone, DocOf
<1>2. ASSUME NEW v \in Versions, NEW r \in RequestKeys, Begin(v, r) PROVE Alone'
  <2>1. /\ pc[v] = "idle" /\ pc' = [pc EXCEPT ![v] = "check"] /\ req' = [req EXCEPT ![v] = r]
        /\ \A w \in Versions : DocOf(w) = r.doc => pc[w] \in Ended
    BY <1>2 DEF Begin, Goto
  <2>2. /\ \A w \in Versions : w # v => pc'[w] = pc[w] /\ DocOf(w)' = DocOf(w)
        /\ pc'[v] = "check" /\ DocOf(v)' = r.doc
    BY <2>1 DEF TypeInv, TypeOK, DocOf
  <2>3. \A w \in Versions : DocOf(w) = r.doc => pc[w] \notin Running
    BY <2>1 DEF Running, Ended, RequestSteps, TaskSteps, FailureSteps
  <2>4. QED
    BY <2>1, <2>2, <2>3 DEF Alone
<1>3. ASSUME NEW v \in Versions, Acts(v) PROVE Alone'
  <2>1. /\ pc[v] \in Running /\ pc'[v] \in Running \cup Ended /\ req' = req
        /\ \A w \in Versions : w # v => pc'[w] = pc[w]
    BY <1>3, ActsRuns, ActsOn, ActsLocally
  <2>2. \A w \in Versions : DocOf(w)' = DocOf(w)
    BY <2>1 DEF DocOf
  <2>3. \A w \in Versions : w # v /\ DocOf(w) = DocOf(v) => pc[w] \in Ended
    BY <2>1 DEF Alone
  <2>4. \A w \in Versions : pc[w] \in Ended => pc[w] \notin Running
    BY DEF Running, Ended, RequestSteps, TaskSteps, FailureSteps
  <2>5. pc'[v] # "idle"
    BY <2>1 DEF Running, Ended, RequestSteps, TaskSteps, FailureSteps
  <2>6. QED
    BY <2>1, <2>2, <2>3, <2>4, <2>5 DEF Alone
<1>4. CASE Crash
  BY <1>4 DEF Crash, memory, Alone, DocOf, Running, Ended, RequestSteps, TaskSteps, FailureSteps,
     TypeInv, TypeOK
<1>5. QED
  BY <1>1, <1>2, <1>3, <1>4, WhoActs

\* The status a running job leaves in the row of its document.
LEMMA StatusWritten ==
    ASSUME RowsInv, NEW v \in Versions, Acts(v), NEW d \in Docs, d = DocOf(v)
    PROVE  \/ docStatus'[d] = docStatus[d] /\ active' = active
           \/ docStatus'[d] \in {"QUEUED", "PROCESSING", "INDEXED"}
           \/ pc[v] = "record" /\ active[d] = None /\ active' = active
<1> USE DEF RowsInv, NumbersInv, PointsInv, TypeInv, TypeOK, SetDocStatus
<1>1. pc[v] \in Running \ {"undo", "cleanup"} =>
        /\ seen[v].active = active[d]
        /\ seen[v].status = docStatus[d]
  BY DEF SeenNow
<1>2. CASE InsertVersion(v)
  BY <1>1, <1>2 DEF InsertVersion, documents, Running, RequestSteps
<1>3. CASE MarkProcessing(v)
  BY <1>1, <1>3 DEF MarkProcessing, Running, TaskSteps
<1>4. CASE Activate(v)
  BY <1>1, <1>4 DEF Activate, ActivatedStatus, Running, TaskSteps
<1>5. CASE RecordFailure(v)
  BY <1>1, <1>5 DEF RecordFailure, StatusAfterFailure, Running, FailureSteps
<1>6. CASE \/ CheckDuplicate(v) \/ StoreBlob(v) \/ StartTask(v) \/ ReloadDocument(v) \/ Ingest(v)
           \/ BumpGeneration(v) \/ Promote(v) \/ Retire(v) \/ Undo(v) \/ DeleteBlob(v) \/ CallFails(v)
  BY <1>6 DEF CheckDuplicate, StoreBlob, StartTask, ReloadDocument, Ingest, BumpGeneration, Promote,
     Retire, Undo, DeleteBlob, CallFails, documents
<1>7. QED
  BY <1>2, <1>3, <1>4, <1>5, <1>6 DEF Acts, Step

LEMMA NextNotFailed ==
    ASSUME SerialUploads, RowsInv, [Next]_vars
    PROVE  ActiveDocumentNotFailed'
<1> SUFFICES ASSUME NEW d \in Docs, active'[d] # None PROVE docStatus'[d] # "FAILED"
  BY DEF ActiveDocumentNotFailed
<1>0. TypeInv /\ (active[d] # None => docStatus[d] # "FAILED")
  BY DEF RowsInv, NumbersInv, PointsInv, ActiveDocumentNotFailed
<1>1. CASE UNCHANGED documents
  BY <1>0, <1>1 DEF documents
<1>2. ASSUME NEW v \in Versions, Acts(v), d = DocOf(v) PROVE docStatus'[d] # "FAILED"
  BY <1>0, <1>2, StatusWritten
<1>3. ASSUME NEW v \in Versions, Acts(v), d # DocOf(v) PROVE docStatus'[d] # "FAILED"
  BY <1>0, <1>3, ActsLocally
<1>4. QED
  BY <1>0, <1>1, <1>2, <1>3, WhoActs DEF Begin, Crash, vars

LEMMA NextFresh ==
    ASSUME SerialUploads, RowsInv, [Next]_vars
    PROVE  Fresh'
<1> SUFFICES ASSUME NEW d \in Docs, \A u \in Versions : DocOf(u)' # d PROVE docStatus'[d] = "ABSENT"
  BY DEF Fresh
<1>0. TypeInv /\ Alone /\ Fresh
  BY DEF RowsInv, NumbersInv, PointsInv
<1>1. ASSUME NEW u \in Versions PROVE DocOf(u) # d
  <2>1. CASE pc[u] = "idle"
    BY <1>0, <2>1, ConstantsAssumption DEF Alone
  <2>2. CASE pc[u] # "idle"
    BY <1>0, <2>2, StepsKeep DEF Kept
  <2>3. QED
    BY <2>1, <2>2
<1>2. docStatus[d] = "ABSENT"
  BY <1>0, <1>1 DEF Fresh
<1>3. CASE UNCHANGED documents
  BY <1>2, <1>3 DEF documents
<1>4. ASSUME NEW v \in Versions, Acts(v) PROVE docStatus'[d] = docStatus[d]
  BY <1>0, <1>1, <1>4, ActsLocally
<1>5. QED
  BY <1>0, <1>2, <1>3, <1>4, WhoActs DEF Begin, Crash, vars

LEMMA NextSeenNow ==
    ASSUME SerialUploads, RowsInv, [Next]_vars
    PROVE  SeenNow'
<1> SUFFICES ASSUME NEW w \in Versions, pc'[w] \in Running \ {"undo", "cleanup"}
             PROVE  /\ seen'[w].active = active'[DocOf(w)']
                    /\ seen'[w].status = docStatus'[DocOf(w)']
  BY DEF SeenNow
<1> DEFINE Now == /\ seen'[w].active = active'[DocOf(w)']
                  /\ seen'[w].status = docStatus'[DocOf(w)']
<1>0. TypeInv /\ Alone /\ Fresh /\ SeenNow /\ PointsInv
  BY DEF RowsInv, NumbersInv, PointsInv
<1>1. CASE UNCHANGED vars
  BY <1>0, <1>1 DEF vars, documents, memory, SeenNow, DocOf
<1>2. ASSUME NEW r \in RequestKeys, Begin(w, r) PROVE Now
  <2>1. DocOf(w)' = r.doc /\ r.doc \in Docs /\ UNCHANGED documents
    BY <1>0, <1>2 DEF Begin, DocOf, TypeInv, TypeOK, RequestKeys
  <2>2. CASE r.kind # "version"
    <3>1. \A u \in Versions : DocOf(u) # r.doc
      BY <1>2, <2>2 DEF Begin
    <3>2. docStatus[r.doc] = "ABSENT"
      BY <1>0, <2>1, <3>1 DEF Fresh
    <3>3. active[r.doc] = None
      BY <1>0, <2>1, <3>1 DEF PointsInv, ActivePast, TypeInv, TypeOK
    <3>4. seen'[w] = NoRow
      BY <1>0, <1>2, <2>2 DEF Begin, TypeInv, TypeOK
    <3>5. QED
      BY <2>1, <3>2, <3>3, <3>4 DEF NoRow, documents
  <2>3. CASE r.kind = "version"
    BY <1>0, <1>2, <2>1, <2>3 DEF Begin, RowOf, documents, TypeInv, TypeOK
  <2>4. QED
    BY <2>2, <2>3
<1>3. ASSUME NEW v \in Versions, NEW r \in RequestKeys, Begin(v, r), v # w PROVE Now
  <2>1. pc'[w] = pc[w] /\ DocOf(w)' = DocOf(w) /\ seen'[w] = seen[w] /\ UNCHANGED documents
    BY <1>0, <1>3 DEF Begin, Goto, DocOf, TypeInv, TypeOK
  <2>2. QED
    BY <1>0, <2>1 DEF SeenNow, documents
<1>4. ASSUME NEW v \in Versions, Acts(v), v # w PROVE Now
  <2>1. pc'[w] = pc[w] /\ DocOf(w)' = DocOf(w) /\ seen'[w] = seen[w] /\ pc[v] \in Running
    BY <1>0, <1>4, ActsLocally, ActsRuns DEF DocOf
  <2>2. DocOf(w) \in Docs /\ DocOf(w) # DocOf(v)
    <3>1. pc[w] \notin Ended /\ pc[w] # "idle"
      BY <2>1 DEF Running, Ended, RequestSteps, TaskSteps, FailureSteps
    <3>2. QED
      BY <1>0, <1>4, <2>1, <3>1, RunsForDoc DEF Alone
  <2>3. QED
    BY <1>0, <1>4, <2>1, <2>2, ActsLocally DEF SeenNow
<1>5. ASSUME Acts(w) PROVE Now
  <2>1. pc[w] \in Running /\ DocOf(w)' = DocOf(w) /\ DocOf(w) \in Docs
    <3>1. pc[w] \in Running /\ pc[w] # "idle"
      BY <1>5, ActsRuns DEF Running, RequestSteps, TaskSteps, FailureSteps
    <3>2. QED
      BY <1>0, <1>5, <3>1, RunsForDoc, ActsLocally DEF DocOf
  <2>2. pc[w] \notin {"undo", "cleanup"} => /\ seen[w].active = active[DocOf(w)]
                             /\ seen[w].status = docStatus[DocOf(w)]
    BY <1>0, <2>1 DEF SeenNow
  <2> USE <1>0 DEF TypeInv, TypeOK
  <2>3. CASE StartTask(w) \/ ReloadDocument(w) \/ Undo(w)
    BY <2>1, <2>3 DEF StartTask, ReloadDocument, Undo, Remember, RowOf, documents
  <2>4. CASE \/ CheckDuplicate(w) \/ StoreBlob(w) \/ Ingest(w) \/ BumpGeneration(w) \/ Promote(w)
             \/ Retire(w)
    BY <2>1, <2>2, <2>4 DEF CheckDuplicate, StoreBlob, Ingest, BumpGeneration, Promote, Retire,
       documents, memory
  <2>5. CASE InsertVersion(w)
    <3>1. CASE Conflicts(w)
      BY <2>1, <2>2, <2>5, <3>1 DEF InsertVersion, documents
    <3>2. CASE ~Conflicts(w)
      BY <2>1, <2>2, <2>5, <3>2 DEF InsertVersion, SetDocStatus, Snapshot
    <3>3. QED
      BY <3>1, <3>2
  <2>6. CASE MarkProcessing(w)
    BY <2>1, <2>2, <2>6 DEF MarkProcessing, SetDocStatus, Snapshot
  <2>7. CASE Activate(w)
    <3>1. pc'[w] \in {"done", Handler(w)}
      BY <2>7 DEF Activate, Reply, Goto
    <3>2. QED
      BY <2>1, <3>1, Handlers DEF Running, RequestSteps, TaskSteps, FailureSteps
  <2>8. CASE RecordFailure(w) \/ DeleteBlob(w)
    <3>1. pc'[w] \in {"cleanup", "failed"}
      BY <2>8, Departures DEF DeleteBlob, Goto
    <3>2. QED
      BY <3>1 DEF Running, RequestSteps, TaskSteps, FailureSteps
  <2>9. CASE CallFails(w)
    <3>1. pc[w] \notin {"undo", "cleanup"}
      <4>1. pc[w] \in {"undo", "cleanup"} => Handler(w) \in {"cleanup", "failed"}
        BY DEF Handler, AfterRecord
      <4>2. QED
        BY <2>9, <4>1 DEF CallFails, Goto, Running, RequestSteps, TaskSteps, FailureSteps
    <3>2. UNCHANGED <<documents, seen>>
      BY <2>9 DEF CallFails, memory
    <3>3. QED
      BY <2>1, <2>2, <3>1, <3>2 DEF documents
  <2>10. QED
    BY <1>5, <2>3, <2>4, <2>5, <2>6, <2>7, <2>8, <2>9 DEF Acts, Step
<1>6. ~Crash
  BY <1>0 DEF Crash, Running, RequestSteps, TaskSteps, FailureSteps, TypeInv, TypeOK
<1>7. QED
  BY <1>0, <1>1, <1>2, <1>3, <1>4, <1>5, <1>6, WhoActs

LEMMA InitRows == Init => RowsInv
<1> HAVE Init
<1>1. NumbersInv
  BY InitNumbers
<1>2. \A u \in Versions : pc[u] = "idle" /\ DocOf(u) = None
  BY DEF Init, DocOf, NoRequest
<1>3. "idle" \notin Running
  BY DEF Running, RequestSteps, TaskSteps, FailureSteps
<1>4. Alone /\ SeenNow
  BY <1>2, <1>3 DEF Alone, SeenNow
<1>5. Fresh /\ ActiveDocumentNotFailed
  BY DEF Init, Fresh, ActiveDocumentNotFailed
<1>6. QED
  BY <1>1, <1>4, <1>5 DEF RowsInv

LEMMA NextRows ==
    ASSUME SerialUploads
    PROVE  RowsInv /\ [Next]_vars => RowsInv'
<1> SUFFICES ASSUME RowsInv, [Next]_vars PROVE RowsInv'
  OBVIOUS
<1>1. NumbersInv'
  BY NextPoints, NextDrawnBehind, NextNumbers DEF RowsInv, NumbersInv
<1>2. Alone'
  BY NextAlone DEF RowsInv, NumbersInv, PointsInv
<1>3. QED
  BY <1>1, <1>2, NextSeenNow, NextFresh, NextNotFailed DEF RowsInv

\* Where the uploads of a document take turns, it is never shown as FAILED while it has an
\* active version, whatever calls fail, replies are lost and processes stop.
THEOREM ActiveNotFailed ==
    ASSUME SerialUploads
    PROVE  Spec => []ActiveDocumentNotFailed
<1>1. RowsInv => ActiveDocumentNotFailed
  BY DEF RowsInv
<1>2. RowsInv /\ [Next]_vars => RowsInv'
  BY NextRows
<1>3. QED
  BY <1>1, <1>2, InitRows, PTL DEF Spec

-----------------------------------------------------------------------------
(* What retrieval is given meanwhile.                                      *)

\* Under which circumstances retrieval finds exactly the active version: the versions of
\* one document are uploaded one after the other, and a promotion that has begun is not
\* broken off.  Every other call may fail or lose its reply.
Unbroken ==
    /\ SerialUploads
    /\ MaxCrashes = 0
    /\ FailingCalls \cap {"retire", "activate"} = {}
    /\ LostReplies \cap {"promote", "retire", "activate"} = {}

ServedByStep ==
    \A u \in Versions : points[u] = "ACTIVE" => pc[u] \in {"retire", "activate", "done"}

\* Outside of a promotion it is the active version.
ServedIsActive ==
    \A d \in Docs : ~Promoting(d) =>
        \A u \in Versions : DocOf(u) = d => (points[u] = "ACTIVE" <=> u = active[d])

\* Between the two calls of a promotion it is the new version as well, and after the
\* second one it is only the new one.
ServedMeanwhile ==
    \A u \in Versions :
        /\ pc[u] = "retire" =>
              /\ active[DocOf(u)] # None
              /\ \A w \in Versions : DocOf(w) = DocOf(u) =>
                    (points[w] = "ACTIVE" <=> w \in {u, active[DocOf(u)]})
        /\ pc[u] = "activate" =>
              \A w \in Versions : DocOf(w) = DocOf(u) => (points[w] = "ACTIVE" <=> w = u)

ServedInv == RowsInv /\ OrderInv /\ ServedByStep /\ ServedIsActive /\ ServedMeanwhile

\* A job that promotes is alone, and goes on to the commit.
LEMMA Promotes ==
    ASSUME Unbroken, ServedInv, NEW v \in Versions, Promote(v) \/ Retire(v) \/ Activate(v)
    PROVE  /\ DocOf(v) \in Docs
           /\ seen[v].active = active[DocOf(v)]
           /\ \A w \in Versions : w # v /\ DocOf(w) = DocOf(v) =>
                 pc[w] \notin {"retire", "activate"}
           /\ Promote(v) => /\ points' = [points EXCEPT ![v] = "ACTIVE"]
                            /\ pc' = [pc EXCEPT ![v] = AfterPromotion(v)]
                            /\ UNCHANGED <<req, active>>
                            /\ ~Promoting(DocOf(v))
           /\ Retire(v) => /\ points' = [points EXCEPT ![seen[v].active] = "SUPERSEDED"]
                           /\ pc' = [pc EXCEPT ![v] = "activate"]
                           /\ UNCHANGED <<req, active>>
           /\ Activate(v) => /\ active' = [active EXCEPT ![DocOf(v)] = v]
                             /\ pc' = [pc EXCEPT ![v] = "done"]
                             /\ UNCHANGED <<req, points>>
<1>1. pc[v] \in {"promote", "retire", "activate"} /\ pc[v] \in Running \ {"cleanup"}
  BY DEF Promote, Retire, Activate, Running, TaskSteps
<1>2. DocOf(v) \in Docs
  BY <1>1, RunsForDoc DEF ServedInv, RowsInv, NumbersInv, PointsInv
<1>3. seen[v].active = active[DocOf(v)]
  BY <1>1 DEF ServedInv, RowsInv, SeenNow
<1>4. \A w \in Versions : w # v /\ DocOf(w) = DocOf(v) => pc[w] \notin {"retire", "activate"}
  BY <1>1 DEF ServedInv, RowsInv, Alone, Ended
<1>5. CASE Promote(v)
  <2>1. pc[v] = "promote" /\ points' = [points EXCEPT ![v] = "ACTIVE"] /\ UNCHANGED <<req, active>>
    BY <1>5 DEF Promote, PromotedPoints, documents, memory
  <2>2. pc' = [pc EXCEPT ![v] = AfterPromotion(v)]
    BY <1>5, <2>1 DEF Promote, Reply, Goto, Unbroken
  <2>3. ~Promoting(DocOf(v))
    BY <2>1, <1>4 DEF Promoting
  <2>4. QED
    BY <1>2, <1>3, <1>4, <2>1, <2>2, <2>3 DEF Retire, Activate
<1>6. CASE Retire(v)
  <2>1. /\ pc[v] = "retire" /\ UNCHANGED <<req, active>>
        /\ points' = [points EXCEPT ![seen[v].active] = "SUPERSEDED"]
    BY <1>6 DEF Retire, documents, memory
  <2>2. pc' = [pc EXCEPT ![v] = "activate"]
    BY <1>6, <2>1 DEF Retire, Reply, Goto, Unbroken
  <2>3. QED
    BY <1>2, <1>3, <1>4, <2>1, <2>2 DEF Promote, Activate
<1>7. CASE Activate(v)
  <2>1. /\ pc[v] = "activate" /\ UNCHANGED <<req, points>>
        /\ active' = [active EXCEPT ![DocOf(v)] = v]
    BY <1>7 DEF Activate, ActivatedId, stores, memory
  <2>2. pc' = [pc EXCEPT ![v] = "done"]
    BY <1>7, <2>1 DEF Activate, Reply, Goto, Unbroken
  <2>3. QED
    BY <1>2, <1>3, <1>4, <2>1, <2>2 DEF Promote, Retire
<1>8. QED
  BY <1>5, <1>6, <1>7

\* Any other step leaves the active versions, the promotions and what is served alone.
Quiet ==
    /\ UNCHANGED active
    /\ \A w \in Versions :
          /\ points'[w] = "ACTIVE" <=> points[w] = "ACTIVE"
          /\ pc[w] \in {"retire", "activate", "done"} \/ pc'[w] \in {"retire", "activate", "done"} =>
                pc'[w] = pc[w]
          /\ DocOf(w)' = DocOf(w) \/ pc[w] = "idle"

LEMMA QuietStep ==
    ASSUME Unbroken, ServedInv, [Next]_vars,
           ~\E v \in Versions : Promote(v) \/ Retire(v) \/ Activate(v)
    PROVE  Quiet
<1>0. TypeInv /\ PointsInv
  BY DEF ServedInv, RowsInv, NumbersInv, PointsInv
<1>1. active' = active
  BY <1>0, ActiveStep
<1>2. ASSUME NEW w \in Versions PROVE points'[w] = "ACTIVE" <=> points[w] = "ACTIVE"
  <2>1. CASE points' = points
    BY <2>1
  <2>2. ASSUME NEW u \in Versions, Ingest(u), points' = NewPoints(u)
        PROVE  points'[w] = "ACTIVE" <=> points[w] = "ACTIVE"
    <3>1. points[u] # "ACTIVE"
      BY <2>2 DEF Ingest, ServedInv, ServedByStep
    <3>2. QED
      BY <1>0, <2>2, <3>1 DEF NewPoints, TypeInv, TypeOK
  <2>3. QED
    BY <1>0, <2>1, <2>2, PointStep
<1>3. ASSUME NEW w \in Versions, pc[w] \in {"retire", "activate"} PROVE pc'[w] = pc[w]
  <2>1. CASE UNCHANGED vars
    BY <2>1 DEF vars
  <2>2. ASSUME NEW v \in Versions, NEW r \in RequestKeys, Begin(v, r) PROVE pc'[w] = pc[w]
    BY <1>0, <1>3, <2>2 DEF Begin, Goto, TypeInv, TypeOK
  <2>3. ASSUME NEW v \in Versions, Acts(v), v # w PROVE pc'[w] = pc[w]
    BY <1>0, <2>3, ActsLocally
  <2>4. ~Acts(w)
    BY <1>3 DEF Acts, Step, CheckDuplicate, StoreBlob, InsertVersion, StartTask, MarkProcessing,
       ReloadDocument, Ingest, BumpGeneration, Undo, RecordFailure, DeleteBlob, CallFails, Unbroken
  <2>5. ~Crash
    BY <1>0 DEF Crash, Unbroken, TypeInv, TypeOK
  <2>6. QED
    BY <1>0, <2>1, <2>2, <2>3, <2>4, <2>5, WhoActs
<1>4. ASSUME NEW w \in Versions, pc'[w] \in {"retire", "activate"} PROVE pc'[w] = pc[w]
  BY <1>0, <1>4, NextStep DEF TaskSteps, PastActivation
<1>5. ASSUME NEW w \in Versions, pc[w] = "done" \/ pc'[w] = "done" PROVE pc'[w] = pc[w]
  BY <1>0, <1>5, Arrivals, StepsKeep DEF Kept
<1>6. \A w \in Versions : DocOf(w)' = DocOf(w) \/ pc[w] = "idle"
  BY <1>0, StepsKeep DEF Kept
<1>7. QED
  BY <1>1, <1>2, <1>3, <1>4, <1>5, <1>6 DEF Quiet

LEMMA NextServedByStep ==
    ASSUME Unbroken, ServedInv, [Next]_vars
    PROVE  ServedByStep'
<1>0. TypeInv /\ ServedByStep
  BY DEF ServedInv, RowsInv, NumbersInv, PointsInv
<1> USE DEF TypeInv, TypeOK
<1>1. CASE ~\E v \in Versions : Promote(v) \/ Retire(v) \/ Activate(v)
  BY <1>0, <1>1, QuietStep DEF Quiet, ServedByStep
<1>2. ASSUME NEW v \in Versions, Promote(v) PROVE ServedByStep'
  <2>1. AfterPromotion(v) \in {"retire", "activate"}
    BY DEF AfterPromotion
  <2>2. QED
    BY <1>0, <1>2, <2>1, Promotes DEF ServedByStep
<1>3. ASSUME NEW v \in Versions, Retire(v) PROVE ServedByStep'
  <2>1. points'[seen[v].active] # "ACTIVE" \/ seen[v].active \notin Versions
    BY <1>0, <1>3, Promotes
  <2>2. QED
    BY <1>0, <1>3, Promotes DEF ServedByStep
<1>4. ASSUME NEW v \in Versions, Activate(v) PROVE ServedByStep'
  BY <1>0, <1>4, Promotes DEF ServedByStep
<1>5. QED
  BY <1>1, <1>2, <1>3, <1>4

\* The same for the documents the promoting job is not about.
LEMMA ServedElsewhere ==
    ASSUME Unbroken, ServedInv, NEW v \in Versions, Promote(v) \/ Retire(v) \/ Activate(v)
    PROVE  /\ UNCHANGED req
           /\ \A w \in Versions : w # v => pc'[w] = pc[w]
           /\ \A w \in Versions : DocOf(w) # DocOf(v) => points'[w] = points[w]
           /\ \A d \in Docs : d # DocOf(v) => active'[d] = active[d]
<1>0. TypeInv /\ ActivePast
  BY DEF ServedInv, RowsInv, NumbersInv, PointsInv
<1> USE DEF TypeInv, TypeOK
<1>1. CASE Promote(v)
  BY <1>0, <1>1, Promotes
<1>2. CASE Retire(v)
  <2>1. /\ seen[v].active = active[DocOf(v)] /\ DocOf(v) \in Docs
        /\ UNCHANGED <<req, active>>
        /\ points' = [points EXCEPT ![seen[v].active] = "SUPERSEDED"]
        /\ pc' = [pc EXCEPT ![v] = "activate"]
    BY <1>2, Promotes
  <2>2. active[DocOf(v)] # None => DocOf(active[DocOf(v)]) = DocOf(v)
    BY <1>0, <2>1 DEF ActivePast
  <2>3. \A w \in Versions : DocOf(w) # DocOf(v) => w # seen[v].active
    BY <2>1, <2>2, ConstantsAssumption
  <2>4. QED
    BY <1>0, <2>1, <2>3
<1>3. CASE Activate(v)
  BY <1>0, <1>3, Promotes
<1>4. QED
  BY <1>1, <1>2, <1>3

\* What is served of the document the promoting job is about.
LEMMA ServedHere ==
    ASSUME Unbroken, ServedInv, NEW v \in Versions, Promote(v) \/ Retire(v) \/ Activate(v)
    PROVE  /\ pc'[v] = "retire" =>
                 /\ active'[DocOf(v)] # None
                 /\ \A w \in Versions : DocOf(w) = DocOf(v) =>
                       (points'[w] = "ACTIVE" <=> w \in {v, active'[DocOf(v)]})
           /\ pc'[v] # "retire" =>
                 \A w \in Versions : DocOf(w) = DocOf(v) => (points'[w] = "ACTIVE" <=> w = v)
           /\ pc'[v] \in {"retire", "activate"} \/ active'[DocOf(v)] = v
<1>0. /\ TypeInv /\ ActivePast /\ ServedIsActive /\ ServedMeanwhile
      /\ DocOf(v) \in Docs /\ seen[v].active = active[DocOf(v)]
  BY Promotes DEF ServedInv, RowsInv, NumbersInv, PointsInv
<1> USE DEF TypeInv, TypeOK
<1>1. CASE Promote(v)
  <2>1. \A w \in Versions : DocOf(w) = DocOf(v) => (points[w] = "ACTIVE" <=> w = active[DocOf(v)])
    BY <1>0, <1>1, Promotes DEF ServedIsActive
  <2>2. /\ \A w \in Versions : points'[w] = IF w = v THEN "ACTIVE" ELSE points[w]
        /\ pc'[v] = AfterPromotion(v) /\ active' = active
    BY <1>0, <1>1, Promotes
  <2>3. QED
    BY <1>0, <2>1, <2>2, ConstantsAssumption DEF AfterPromotion
<1>2. CASE Retire(v)
  <2>1. /\ active[DocOf(v)] # None
        /\ \A w \in Versions : DocOf(w) = DocOf(v) =>
              (points[w] = "ACTIVE" <=> w \in {v, active[DocOf(v)]})
    BY <1>0, <1>2 DEF ServedMeanwhile, Retire
  <2>2. active[DocOf(v)] # v
    BY <1>0, <1>2, <2>1 DEF ActivePast, PastActivation, Retire
  <2>3. /\ points' = [points EXCEPT ![active[DocOf(v)]] = "SUPERSEDED"]
        /\ pc'[v] = "activate"
    BY <1>0, <1>2, Promotes
  <2>4. QED
    BY <1>0, <2>1, <2>2, <2>3
<1>3. CASE Activate(v)
  <2>1. \A w \in Versions : DocOf(w) = DocOf(v) => (points[w] = "ACTIVE" <=> w = v)
    BY <1>0, <1>3 DEF ServedMeanwhile, Activate
  <2>2. points' = points /\ pc'[v] = "done" /\ active'[DocOf(v)] = v
    BY <1>0, <1>3, Promotes
  <2>3. QED
    BY <2>1, <2>2
<1>4. QED
  BY <1>1, <1>2, <1>3

LEMMA NextServedIsActive ==
    ASSUME Unbroken, ServedInv, [Next]_vars
    PROVE  ServedIsActive'
<1> SUFFICES ASSUME NEW d \in Docs, ~Promoting(d)', NEW u \in Versions, DocOf(u)' = d
             PROVE  points'[u] = "ACTIVE" <=> u = active'[d]
  BY DEF ServedIsActive
<1>0. TypeInv /\ ActivePast /\ ServedIsActive /\ ServedByStep
  BY DEF ServedInv, RowsInv, NumbersInv, PointsInv
<1>1. CASE ~\E v \in Versions : Promote(v) \/ Retire(v) \/ Activate(v)
  <2>0. Quiet
    BY <1>1, QuietStep
  <2>1. ~Promoting(d)
    BY <2>0 DEF Promoting, Quiet
  <2>2. CASE DocOf(u) = d
    BY <1>0, <2>0, <2>1, <2>2 DEF Quiet, ServedIsActive
  <2>3. CASE pc[u] = "idle"
    <3>1. points'[u] # "ACTIVE"
      BY <1>0, <2>0, <2>3 DEF Quiet, ServedByStep
    <3>2. active[d] # u
      BY <1>0, <2>3, ConstantsAssumption DEF ActivePast, PastActivation
    <3>3. QED
      BY <2>0, <3>1, <3>2 DEF Quiet
  <2>4. QED
    BY <2>0, <2>2, <2>3 DEF Quiet
<1>2. ASSUME NEW v \in Versions, Promote(v) \/ Retire(v) \/ Activate(v)
      PROVE  points'[u] = "ACTIVE" <=> u = active'[d]
  <2>0. \A w \in Versions : DocOf(w)' = DocOf(w)
    BY <1>2, ServedElsewhere DEF DocOf
  <2>1. CASE d = DocOf(v)
    <3>1. pc'[v] \notin {"retire", "activate"}
      BY <2>0, <2>1 DEF Promoting
    <3>2. QED
      BY <1>2, <2>0, <2>1, <3>1, ServedHere
  <2>2. CASE d # DocOf(v)
    <3>1. ~Promoting(d)
      <4>1. \A w \in Versions : DocOf(w) = d => DocOf(w)' = d /\ pc'[w] = pc[w]
        BY <1>2, <2>0, <2>2, ServedElsewhere
      <4>2. QED
        BY <4>1 DEF Promoting
    <3>2. points'[u] = points[u] /\ active'[d] = active[d]
      BY <1>2, <2>0, <2>2, ServedElsewhere
    <3>3. QED
      BY <1>0, <2>0, <3>1, <3>2 DEF ServedIsActive
  <2>3. QED
    BY <2>1, <2>2
<1>3. QED
  BY <1>1, <1>2

LEMMA NextServedMeanwhile ==
    ASSUME Unbroken, ServedInv, [Next]_vars
    PROVE  ServedMeanwhile'
<1> DEFINE Good(u) ==
        /\ pc'[u] = "retire" =>
              /\ active'[DocOf(u)'] # None
              /\ \A w \in Versions : DocOf(w)' = DocOf(u)' =>
                    (points'[w] = "ACTIVE" <=> w \in {u, active'[DocOf(u)']})
        /\ pc'[u] = "activate" =>
              \A w \in Versions : DocOf(w)' = DocOf(u)' => (points'[w] = "ACTIVE" <=> w = u)
<1> SUFFICES ASSUME NEW u \in Versions, pc'[u] \in {"retire", "activate"} PROVE Good(u)
  BY DEF ServedMeanwhile
<1>0. TypeInv /\ ActivePast /\ ServedMeanwhile /\ ServedByStep
  BY DEF ServedInv, RowsInv, NumbersInv, PointsInv
<1>1. CASE ~\E v \in Versions : Promote(v) \/ Retire(v) \/ Activate(v)
  <2>0. Quiet
    BY <1>1, QuietStep
  <2>1. pc'[u] = pc[u] /\ DocOf(u)' = DocOf(u) /\ active' = active /\ DocOf(u) \in Docs
    <3>1. pc'[u] = pc[u] /\ active' = active
      BY <2>0 DEF Quiet
    <3>2. QED
      BY <1>0, <2>0, <3>1, RunsForDoc DEF Quiet
  <2>2. ASSUME NEW w \in Versions, DocOf(w)' = DocOf(u), DocOf(w) # DocOf(u)
        PROVE  points'[w] # "ACTIVE" /\ w # active[DocOf(u)] /\ w # u
    <3>1. pc[w] = "idle"
      BY <2>0, <2>2 DEF Quiet
    <3>2. points'[w] # "ACTIVE"
      BY <1>0, <2>0, <3>1 DEF Quiet, ServedByStep
    <3>3. QED
      BY <1>0, <2>1, <2>2, <3>1, <3>2, ConstantsAssumption DEF ActivePast, PastActivation
  <2>3. \A w \in Versions : points'[w] = "ACTIVE" <=> points[w] = "ACTIVE"
    BY <2>0 DEF Quiet
  <2>4. QED
    BY <1>0, <2>1, <2>2, <2>3 DEF ServedMeanwhile
<1>2. ASSUME NEW v \in Versions, Promote(v) \/ Retire(v) \/ Activate(v) PROVE Good(u)
  <2>0. \A w \in Versions : DocOf(w)' = DocOf(w)
    BY <1>2, ServedElsewhere DEF DocOf
  <2>1. CASE u = v
    BY <1>2, <2>0, <2>1, ServedHere
  <2>2. CASE u # v
    <3>1. pc'[u] = pc[u]
      BY <1>2, <2>2, ServedElsewhere
    <3>2. DocOf(u) # DocOf(v)
      BY <1>2, <2>2, <3>1, Promotes
    <3>3. DocOf(u) \in Docs
      BY <1>0, <3>1, RunsForDoc
    <3>4. /\ active'[DocOf(u)] = active[DocOf(u)]
          /\ \A w \in Versions : DocOf(w) = DocOf(u) => points'[w] = points[w]
      BY <1>2, <3>2, <3>3, ServedElsewhere
    <3>5. QED
      BY <1>0, <2>0, <3>1, <3>4 DEF ServedMeanwhile
  <2>3. QED
    BY <2>1, <2>2
<1>3. QED
  BY <1>1, <1>2

LEMMA InitServed == Init => ServedInv
<1> HAVE Init
<1>1. \A u \in Versions : points[u] = "ABSENT" /\ pc[u] = "idle"
  BY DEF Init
<1>2. \A d \in Docs : active[d] = None
  BY DEF Init
<1>3. QED
  BY <1>1, <1>2, InitRows, InitOrder, ConstantsAssumption
     DEF ServedInv, ServedByStep, ServedIsActive, ServedMeanwhile

LEMMA NextServed ==
    ASSUME Unbroken
    PROVE  ServedInv /\ [Next]_vars => ServedInv'
<1> SUFFICES ASSUME ServedInv, [Next]_vars PROVE ServedInv'
  OBVIOUS
<1>1. RowsInv' /\ OrderInv'
  BY NextRows, NextOrder DEF ServedInv, Unbroken
<1>2. QED
  BY <1>1, NextServedByStep, NextServedIsActive, NextServedMeanwhile DEF ServedInv

\* Where promotions are not broken off and uploads take turns, retrieval finds the version
\* active_version_id names and no other, except between the first set_payload of a promotion
\* and its commit.
THEOREM OnlyActiveServed ==
    ASSUME Unbroken
    PROVE  Spec => []OnlyActiveVersionServed
<1>1. ServedInv => OnlyActiveVersionServed
  <2> SUFFICES ASSUME ServedInv, NEW u \in Versions, points[u] = "ACTIVE", ~Promoting(DocOf(u))
               PROVE  active[DocOf(u)] = u
    BY DEF OnlyActiveVersionServed
  <2>1. pc[u] # "idle"
    BY DEF ServedInv, ServedByStep
  <2>2. DocOf(u) \in Docs
    BY <2>1, RunsForDoc DEF ServedInv, RowsInv, NumbersInv, PointsInv
  <2>3. QED
    BY <2>2 DEF ServedInv, ServedIsActive
<1>2. ServedInv /\ [Next]_vars => ServedInv'
  BY NextServed
<1>3. QED
  BY <1>1, <1>2, InitServed, PTL DEF Spec

-----------------------------------------------------------------------------
(* The rows of a document as its history.                                  *)

LineUp ==
    \A d \in Docs :
        /\ current[d] \in Nat
        /\ \A n \in 1 .. current[d] : VersionAt(d, n) \in Rows(d) /\ number[VersionAt(d, n)] = n
        /\ \A u \in Rows(d) : number[u] \in 1 .. current[d] /\ VersionAt(d, number[u]) = u

LEMMA VersionsLineUp == NumbersInv => LineUp
<1> SUFFICES ASSUME NumbersInv, NEW d \in Docs
             PROVE  /\ current[d] \in Nat
                    /\ \A n \in 1 .. current[d] :
                          VersionAt(d, n) \in Rows(d) /\ number[VersionAt(d, n)] = n
                    /\ \A u \in Rows(d) : /\ number[u] \in 1 .. current[d]
                                          /\ VersionAt(d, number[u]) = u
  BY DEF LineUp
<1>1. current[d] \in Nat
  BY DEF NumbersInv, PointsInv, TypeInv, TypeOK
<1>2. /\ {number[u] : u \in Rows(d)} = 1 .. current[d]
      /\ \A u, w \in Rows(d) : number[u] = number[w] => u = w
  BY DEF NumbersInv, VersionNumbersFollowOn
<1>3. ASSUME NEW n \in 1 .. current[d]
      PROVE  VersionAt(d, n) \in Rows(d) /\ number[VersionAt(d, n)] = n
  <2>1. \E u \in Rows(d) : number[u] = n
    BY <1>2
  <2>2. QED
    BY <2>1 DEF VersionAt
<1>4. ASSUME NEW u \in Rows(d)
      PROVE  number[u] \in 1 .. current[d] /\ VersionAt(d, number[u]) = u
  <2>1. number[u] \in 1 .. current[d]
    BY <1>2
  <2>2. QED
    BY <1>2, <1>3, <2>1
<1>5. QED
  BY <1>1, <1>3, <1>4

LEMMA HistoryIsSeq ==
    ASSUME LineUp, NEW d \in Docs
    PROVE  /\ History[d] \in Seq(Versions)
           /\ Len(History[d]) = current[d]
           /\ \A n \in 1 .. current[d] : History[d][n] = VersionAt(d, n)
<1>1. current[d] \in Nat /\ \A n \in 1 .. current[d] : VersionAt(d, n) \in Versions
  BY DEF LineUp, Rows
<1>2. History[d] = [n \in 1 .. current[d] |-> VersionAt(d, n)]
  BY DEF History
<1>3. QED
  BY <1>1, <1>2

\* A row of the document is in its history.
LEMMA InHistory ==
    ASSUME LineUp, NEW d \in Docs, NEW u \in Rows(d)
    PROVE  u \in Catalog!ToSet(History[d])
<1>1. number[u] \in 1 .. current[d] /\ VersionAt(d, number[u]) = u
  BY DEF LineUp
<1>2. number[u] \in DOMAIN History[d] /\ History[d][number[u]] = u
  BY <1>1 DEF History
<1>3. QED
  BY <1>2 DEF Catalog!ToSet

LEMMA HistoryKept ==
    ASSUME NumbersInv, NumbersInv', [Next]_vars,
           ~\E u \in Versions : InsertVersion(u) /\ ~Conflicts(u)
    PROVE  History' = History
<1>1. LineUp /\ LineUp'
  BY VersionsLineUp, PTL
<1>2. current' = current
  BY CurrentStep
<1>3. ASSUME NEW d \in Docs, NEW n \in 1 .. current[d] PROVE VersionAt(d, n)' = VersionAt(d, n)
  <2>1. PICK x \in Rows(d) : x = VersionAt(d, n) /\ number[x] = n
    BY <1>1 DEF LineUp
  <2>2. x \in Rows(d)' /\ number'[x] = n
    BY <2>1, RowStays DEF Rows, NumbersInv
  <2>3. PICK y \in Rows(d)' : y = VersionAt(d, n)' /\ number'[y] = n
    BY <1>1, <1>2 DEF LineUp
  <2>4. x = y
    BY <2>2, <2>3 DEF NumbersInv, VersionNumbersFollowOn
  <2>5. QED
    BY <2>1, <2>3, <2>4
<1>4. QED
  BY <1>2, <1>3 DEF History

\* The commit that creates a row appends the version to the history of its document.
LEMMA HistoryGrows ==
    ASSUME NumbersInv, NumbersInv', [Next]_vars, NEW u \in Versions, InsertVersion(u), ~Conflicts(u)
    PROVE  History' = [History EXCEPT ![DocOf(u)] = Append(@, u)]
<1>0. PICK e \in Docs : e = DocOf(u)
  BY InsertsNext
<1>1. LineUp /\ LineUp'
  BY VersionsLineUp, PTL
<1>2. number[u] = current[e] + 1 /\ current' = [current EXCEPT ![e] = number[u]]
  BY <1>0, InsertsNext
<1>3. /\ current \in [Docs -> Nat]
      /\ number' = number /\ req' = req
      /\ status' = [status EXCEPT ![u] = "PENDING"]
  BY DEF InsertVersion, NumbersInv, PointsInv, TypeInv, TypeOK
<1>4. u \in Rows(e)'
  BY <1>0, <1>3 DEF Rows, HasRow, DocOf, NumbersInv, PointsInv, TypeInv, TypeOK
<1>5. ASSUME NEW d \in Docs, NEW n \in 1 .. current[d] PROVE VersionAt(d, n)' = VersionAt(d, n)
  <2>1. PICK x \in Rows(d) : x = VersionAt(d, n) /\ number[x] = n
    BY <1>1 DEF LineUp
  <2>2. x \in Rows(d)' /\ number'[x] = n
    BY <2>1, RowStays DEF Rows, NumbersInv
  <2>3. n \in 1 .. current'[d]
    BY <1>2, <1>3
  <2>4. PICK y \in Rows(d)' : y = VersionAt(d, n)' /\ number'[y] = n
    BY <1>1, <2>3 DEF LineUp
  <2>5. x = y
    BY <2>2, <2>4 DEF NumbersInv, VersionNumbersFollowOn
  <2>6. QED
    BY <2>1, <2>4, <2>5
<1>6. ASSUME NEW n, n = current[e] + 1 PROVE VersionAt(e, n)' = u
  <2>1. n \in 1 .. current'[e] /\ number'[u] = n
    BY <1>2, <1>3, <1>6
  <2>2. PICK y \in Rows(e)' : y = VersionAt(e, n)' /\ number'[y] = n
    BY <1>1, <1>2, <2>1 DEF LineUp
  <2>3. y = u
    BY <1>2, <1>4, <2>1, <2>2 DEF NumbersInv, VersionNumbersFollowOn
  <2>4. QED
    BY <2>2, <2>3
<1>7. ASSUME NEW d \in Docs, d # e PROVE History'[d] = History[d]
  <2>1. current'[d] = current[d]
    BY <1>2, <1>3, <1>7
  <2>2. QED
    BY <1>5, <2>1 DEF History
<1>8. History'[e] = Append(History[e], u)
  <2>1. /\ History[e] \in Seq(Versions) /\ Len(History[e]) = current[e]
        /\ \A n \in 1 .. current[e] : History[e][n] = VersionAt(e, n)
    BY <1>1, <1>2, HistoryIsSeq
  <2>2. /\ Append(History[e], u) \in Seq(Versions)
        /\ Len(Append(History[e], u)) = current[e] + 1
        /\ \A n \in 1 .. current[e] : Append(History[e], u)[n] = VersionAt(e, n)
        /\ Append(History[e], u)[current[e] + 1] = u
    BY <2>1, AppendProperties
  <2>3. current'[e] = current[e] + 1 /\ current[e] \in Nat
    BY <1>2, <1>3
  <2>4. Append(History[e], u) = [n \in 1 .. current[e] + 1 |-> Append(History[e], u)[n]]
    BY <2>2, LenProperties
  <2>5. \A n \in 1 .. current[e] + 1 : VersionAt(e, n)' = Append(History[e], u)[n]
    BY <1>2, <1>5, <1>6, <2>2, <2>3
  <2>6. History'[e] = [n \in 1 .. current[e] + 1 |-> VersionAt(e, n)']
    BY <1>2, <2>3 DEF History
  <2>7. QED
    BY <2>4, <2>5, <2>6
<1>9. QED
  BY <1>0, <1>7, <1>8 DEF History

-----------------------------------------------------------------------------
(* The steps of the jobs as steps of the catalogue.                        *)

LEMMA ServingQuiet ==
    ASSUME ServedInv, Quiet
    PROVE  Serving' = Serving
<1> SUFFICES ASSUME NEW d \in Docs, NEW u \in Versions
             PROVE  DocOf(u)' = d /\ points'[u] = "ACTIVE" <=> DocOf(u) = d /\ points[u] = "ACTIVE"
  BY DEF Serving
<1>1. CASE pc[u] = "idle"
  BY <1>1 DEF ServedInv, ServedByStep, Quiet
<1>2. CASE pc[u] # "idle"
  BY <1>2 DEF Quiet
<1>3. QED
  BY <1>1, <1>2

OutcomeMap ==
    /\ Outcome \in [Versions -> Catalog!Outcomes]
    /\ \A u \in Versions :
          /\ status[u] \in VersionStatus
          /\ status[u] = "ABSENT" => Outcome[u] = "none"
          /\ status[u] \in {"PENDING", "PROCESSING"} => Outcome[u] = "uploaded"
          /\ status[u] = "ACTIVE" => Outcome[u] = "active"
          /\ status[u] = "SUPERSEDED" => Outcome[u] = "superseded"
          /\ status[u] = "FAILED" => Outcome[u] = "failed"

LEMMA OutcomeOf == TypeInv => OutcomeMap
<1> HAVE TypeInv
<1>1. \A u \in Versions : status[u] \in VersionStatus
  BY DEF TypeInv, TypeOK
<1>2. Outcome \in [Versions -> Catalog!Outcomes]
  BY <1>1 DEF Outcome, VersionStatus, Catalog!Outcomes
<1>3. QED
  BY <1>1, <1>2 DEF OutcomeMap, Outcome

LEMMA OutcomeSame ==
    ASSUME TypeInv, TypeInv', NEW w \in Versions, status'[w] = status[w]
    PROVE  Outcome'[w] = Outcome[w]
<1>1. OutcomeMap /\ OutcomeMap'
  BY OutcomeOf, PTL
<1>2. QED
  BY <1>1 DEF OutcomeMap, VersionStatus

\* A commit on one row changes what has become of one version.
LEMMA OutcomeStep ==
    ASSUME TypeInv, TypeInv', NEW u \in Versions, NEW new \in VersionStatus,
           status' = [status EXCEPT ![u] = new]
    PROVE  Outcome' = [Outcome EXCEPT ![u] = Outcome'[u]]
<1>1. \A w \in Versions : w # u => Outcome'[w] = Outcome[w]
  BY OutcomeSame DEF TypeInv, TypeOK
<1>2. OutcomeMap /\ OutcomeMap'
  BY OutcomeOf, PTL
<1>3. QED
  BY <1>1, <1>2 DEF OutcomeMap, Catalog!Outcomes

\* What a promoting job finds, and leaves, in place.
LEMMA ServingOf ==
    ASSUME Unbroken, ServedInv, NEW v \in Versions, Promote(v) \/ Retire(v) \/ Activate(v)
    PROVE  /\ \A d \in Docs : d # DocOf(v) => Serving'[d] = Serving[d]
           /\ Outcome[v] = "uploaded" /\ v \in Rows(DocOf(v))
           /\ pc'[v] = "retire" => Serving'[DocOf(v)] = {v, active'[DocOf(v)]}
           /\ pc'[v] # "retire" => Serving'[DocOf(v)] = {v}
<1>1. pc[v] \in TaskSteps
  BY DEF Promote, Retire, Activate, TaskSteps
<1>2. Outcome[v] = "uploaded"
  BY <1>1 DEF ServedInv, OrderInv, StatusByStep, Outcome
<1>3. v \in Rows(DocOf(v))
  BY <1>1 DEF ServedInv, RowsInv, NumbersInv, PointsInv, RowByStep, Rows
<1>4. DocOf(v) \in Docs /\ \A w \in Versions : DocOf(w)' = DocOf(w)
  BY ServedElsewhere, Promotes DEF DocOf
<1>5. \A d \in Docs : d # DocOf(v) => Serving'[d] = Serving[d]
  BY <1>4, ServedElsewhere DEF Serving
<1>6. pc'[v] # "retire" => Serving'[DocOf(v)] = {v}
  BY <1>4, ServedHere DEF Serving
<1>7. ASSUME pc'[v] = "retire" PROVE Serving'[DocOf(v)] = {v, active'[DocOf(v)]}
  <2>1. Promote(v) /\ active' = active
    BY <1>7, Promotes DEF ServedInv, RowsInv, NumbersInv, PointsInv, TypeInv, TypeOK
  <2>2. /\ active[DocOf(v)] \in Versions
        /\ DocOf(active[DocOf(v)]) = DocOf(v)
    BY <1>4, <1>7, <2>1, ServedHere
       DEF ServedInv, RowsInv, NumbersInv, PointsInv, ActivePast, TypeInv, TypeOK
  <2>3. QED
    BY <1>4, <1>7, <2>1, <2>2, ServedHere DEF Serving
<1>8. QED
  BY <1>2, <1>3, <1>4, <1>5, <1>6, <1>7

LEMMA UploadStep ==
    ASSUME Unbroken, ServedInv, NumbersInv', [Next]_vars,
           NEW u \in Versions, InsertVersion(u), ~Conflicts(u)
    PROVE  Catalog!Next
<1>1. DocOf(u) \in Docs
  BY InsertsNext DEF ServedInv, RowsInv
<1>2. History' = [History EXCEPT ![DocOf(u)] = Append(@, u)]
  BY HistoryGrows DEF ServedInv, RowsInv
<1>3. /\ pc[u] = "insert"
      /\ status' = [status EXCEPT ![u] = "PENDING"]
      /\ UNCHANGED <<active, points, req>>
  BY DEF InsertVersion, stores
<1>4. status[u] = "ABSENT" /\ status \in [Versions -> VersionStatus]
  BY <1>3 DEF ServedInv, RowsInv, NumbersInv, PointsInv, TypeInv, TypeOK, RowByStep, HasRow, RequestSteps
<1>5. Outcome[u] = "none" /\ Outcome' = [Outcome EXCEPT ![u] = "uploaded"]
  <2>1. status'[u] = "PENDING" /\ "PENDING" \in VersionStatus
    BY <1>3, <1>4 DEF VersionStatus
  <2>2. Outcome[u] = "none" /\ Outcome'[u] = "uploaded"
    BY <1>4, <2>1 DEF Outcome
  <2>3. QED
    BY <1>3, <2>1, <2>2, OutcomeStep DEF ServedInv, RowsInv, NumbersInv, PointsInv
<1>6. Serving' = Serving
  BY <1>3 DEF Serving, DocOf
<1>7. Catalog!Upload(DocOf(u), u)
  BY <1>2, <1>3, <1>5, <1>6 DEF Catalog!Upload
<1>8. QED
  BY <1>1, <1>7 DEF Catalog!Next

LEMMA FailStep ==
    ASSUME Unbroken, ServedInv, NumbersInv', [Next]_vars,
           NEW u \in Versions, RecordFailure(u), HasRow(u)
    PROVE  Catalog!Next
<1>1. pc[u] = "record" /\ status' = [status EXCEPT ![u] = "FAILED"] /\ UNCHANGED <<active, points, req>>
  BY DEF RecordFailure, FailedRows, stores, memory
<1>2. DocOf(u) \in Docs /\ u \in Rows(DocOf(u))
  BY <1>1, RunsForDoc DEF ServedInv, RowsInv, NumbersInv, PointsInv, Rows
<1>3. status[u] \in {"PENDING", "PROCESSING"} /\ status \in [Versions -> VersionStatus]
  BY <1>1 DEF ServedInv, RowsInv, OrderInv, StatusByStep, HasRow, NumbersInv, PointsInv, TypeInv, TypeOK
<1>4. History' = History
  <2>1. ~\E w \in Versions : InsertVersion(w) /\ ~Conflicts(w)
    BY <1>1, <1>3 DEF InsertVersion
  <2>2. QED
    BY <2>1, HistoryKept DEF ServedInv, RowsInv
<1>5. Outcome[u] = "uploaded" /\ Outcome' = [Outcome EXCEPT ![u] = "failed"]
  <2>1. status'[u] = "FAILED" /\ "FAILED" \in VersionStatus
    BY <1>1, <1>3 DEF VersionStatus
  <2>2. Outcome[u] = "uploaded" /\ Outcome'[u] = "failed"
    BY <1>3, <2>1 DEF Outcome
  <2>3. QED
    BY <1>1, <2>1, <2>2, OutcomeStep DEF ServedInv, RowsInv, NumbersInv, PointsInv
<1>6. Serving' = Serving /\ u \notin Serving[DocOf(u)]
  BY <1>1, <1>2 DEF Serving, DocOf, ServedInv, ServedByStep
<1>7. u \in Catalog!ToSet(History[DocOf(u)])
  BY <1>2, InHistory, VersionsLineUp DEF ServedInv, RowsInv
<1>8. Catalog!Fail(DocOf(u), u)
  BY <1>1, <1>4, <1>5, <1>6, <1>7 DEF Catalog!Fail
<1>9. QED
  BY <1>2, <1>8 DEF Catalog!Next

LEMMA ExposeStep ==
    ASSUME Unbroken, ServedInv, NumbersInv', [Next]_vars, NEW v \in Versions, Promote(v)
    PROVE  Catalog!Next
<1>1. /\ DocOf(v) \in Docs /\ ~Promoting(DocOf(v))
      /\ points' = [points EXCEPT ![v] = "ACTIVE"] /\ UNCHANGED <<req, active>>
  BY Promotes
<1>2. Outcome[v] = "uploaded" /\ v \in Rows(DocOf(v))
  BY ServingOf
<1>3. v \in Catalog!ToSet(History[DocOf(v)])
  BY <1>1, <1>2, InHistory, VersionsLineUp DEF ServedInv, RowsInv
<1>4. Serving[DocOf(v)] = Catalog!Meant(DocOf(v))
  <2>1. \A w \in Versions : DocOf(w) = DocOf(v) => (points[w] = "ACTIVE" <=> w = active[DocOf(v)])
    BY <1>1 DEF ServedInv, ServedIsActive
  <2>2. active[DocOf(v)] # None => /\ active[DocOf(v)] \in Versions
                                   /\ DocOf(active[DocOf(v)]) = DocOf(v)
    BY <1>1 DEF ServedInv, RowsInv, NumbersInv, PointsInv, ActivePast, TypeInv, TypeOK
  <2>3. QED
    BY <1>1, <2>1, <2>2, ConstantsAssumption DEF Serving, Catalog!Meant
<1>5. Serving' = [Serving EXCEPT ![DocOf(v)] = @ \cup {v}]
  <2>1. /\ \A w \in Versions : DocOf(w)' = DocOf(w)
        /\ \A w \in Versions : points'[w] = "ACTIVE" <=> points[w] = "ACTIVE" \/ w = v
    BY <1>1 DEF DocOf, ServedInv, RowsInv, NumbersInv, PointsInv, TypeInv, TypeOK
  <2>2. Serving'[DocOf(v)] = Serving[DocOf(v)] \cup {v}
    BY <1>1, <2>1 DEF Serving
  <2>3. \A d \in Docs : d # DocOf(v) => Serving'[d] = Serving[d]
    BY ServingOf
  <2>4. QED
    BY <1>1, <2>2, <2>3 DEF Serving
<1>6. History' = History /\ Outcome' = Outcome
  <2>1. status' = status /\ ~\E w \in Versions : InsertVersion(w) /\ ~Conflicts(w)
    BY DEF Promote, InsertVersion, ServedInv, RowsInv, NumbersInv, PointsInv, TypeInv, TypeOK,
       RowByStep, RequestSteps, HasRow
  <2>2. QED
    BY <2>1, HistoryKept DEF Outcome, ServedInv, RowsInv
<1>7. Catalog!Expose(DocOf(v), v)
  BY <1>1, <1>2, <1>3, <1>4, <1>5, <1>6 DEF Catalog!Expose
<1>8. QED
  BY <1>1, <1>7 DEF Catalog!Next

LEMMA WithdrawStep ==
    ASSUME Unbroken, ServedInv, NumbersInv', [Next]_vars, NEW v \in Versions, Retire(v)
    PROVE  Catalog!Next
<1>1. DocOf(v) \in Docs /\ UNCHANGED <<req, active>> /\ pc'[v] = "activate"
  BY Promotes DEF ServedInv, RowsInv, NumbersInv, PointsInv, TypeInv, TypeOK
<1>2. Outcome[v] = "uploaded"
  BY ServingOf
<1>3. active[DocOf(v)] # None /\ Serving[DocOf(v)] = {active[DocOf(v)], v}
  <2>1. /\ active[DocOf(v)] # None
        /\ \A w \in Versions : DocOf(w) = DocOf(v) =>
              (points[w] = "ACTIVE" <=> w \in {v, active[DocOf(v)]})
    BY DEF Retire, ServedInv, ServedMeanwhile
  <2>2. active[DocOf(v)] \in Versions /\ DocOf(active[DocOf(v)]) = DocOf(v)
    BY <1>1, <2>1 DEF ServedInv, RowsInv, NumbersInv, PointsInv, ActivePast, TypeInv, TypeOK
  <2>3. QED
    BY <1>1, <2>1, <2>2 DEF Serving
<1>4. Serving' = [Serving EXCEPT ![DocOf(v)] = {v}]
  <2>1. Serving'[DocOf(v)] = {v} /\ \A d \in Docs : d # DocOf(v) => Serving'[d] = Serving[d]
    BY <1>1, ServingOf
  <2>2. QED
    BY <1>1, <2>1 DEF Serving
<1>5. History' = History /\ Outcome' = Outcome
  <2>1. status' = status /\ ~\E w \in Versions : InsertVersion(w) /\ ~Conflicts(w)
    BY DEF Retire, InsertVersion, ServedInv, RowsInv, NumbersInv, PointsInv, TypeInv, TypeOK,
       RowByStep, RequestSteps, HasRow
  <2>2. QED
    BY <2>1, HistoryKept DEF Outcome, ServedInv, RowsInv
<1>6. Catalog!Withdraw(DocOf(v), v)
  BY <1>1, <1>2, <1>3, <1>4, <1>5 DEF Catalog!Withdraw
<1>7. QED
  BY <1>1, <1>6 DEF Catalog!Next

LEMMA ActivateStep ==
    ASSUME Unbroken, ServedInv, NumbersInv', [Next]_vars, NEW v \in Versions, Activate(v)
    PROVE  Catalog!Next
<1>0. TypeInv /\ TypeInv'
  BY DEF ServedInv, RowsInv, NumbersInv, PointsInv
<1>1. /\ DocOf(v) \in Docs /\ UNCHANGED <<req, points>>
      /\ active' = [active EXCEPT ![DocOf(v)] = v]
      /\ seen[v].active = active[DocOf(v)]
  BY Promotes
<1>2. Outcome[v] = "uploaded"
  BY ServingOf
<1>3. Serving[DocOf(v)] = {v} /\ Serving' = Serving
  <2>1. \A w \in Versions : DocOf(w) = DocOf(v) => (points[w] = "ACTIVE" <=> w = v)
    BY DEF Activate, ServedInv, ServedMeanwhile
  <2>2. QED
    BY <1>1, <2>1 DEF Serving, DocOf
<1>4. Outcome' = [w \in Versions |-> IF w = v THEN "active"
                                     ELSE IF w = active[DocOf(v)] THEN "superseded" ELSE Outcome[w]]
  <2>1. OutcomeMap /\ OutcomeMap'
    BY <1>0, OutcomeOf, PTL
  <2>2. \A w \in Versions : status'[w] = IF w = v THEN "ACTIVE"
                                         ELSE IF w = active[DocOf(v)] THEN "SUPERSEDED" ELSE status[w]
    BY <1>1 DEF Activate, ActivatedRows
  <2>3. \A w \in Versions : Outcome'[w] = IF w = v THEN "active"
                                          ELSE IF w = active[DocOf(v)] THEN "superseded" ELSE Outcome[w]
    BY <1>0, <2>1, <2>2, OutcomeSame DEF OutcomeMap
  <2>4. QED
    BY <2>1, <2>3 DEF OutcomeMap
<1>5. History' = History
  <2>1. current' = current
    BY DEF Activate
  <2>2. ~\E w \in Versions : InsertVersion(w) /\ ~Conflicts(w)
    BY <1>0, <2>1, InsertsNext DEF ServedInv, RowsInv, TypeInv, TypeOK
  <2>3. QED
    BY <2>2, HistoryKept DEF ServedInv, RowsInv
<1>6. Catalog!Activate(DocOf(v), v)
  BY <1>1, <1>2, <1>3, <1>4, <1>5 DEF Catalog!Activate
<1>7. QED
  BY <1>1, <1>6 DEF Catalog!Next

\* Every other step is one the catalogue does not see.
LEMMA UnseenStep ==
    ASSUME Unbroken, ServedInv, NumbersInv', [Next]_vars,
           ~\E v \in Versions : Promote(v) \/ Retire(v) \/ Activate(v),
           ~\E v \in Versions : InsertVersion(v) /\ ~Conflicts(v),
           ~\E v \in Versions : RecordFailure(v) /\ HasRow(v)
    PROVE  UNCHANGED Catalog!vars
<1>0. TypeInv /\ TypeInv' /\ NumbersInv /\ OrderInv
  BY DEF ServedInv, RowsInv, NumbersInv, PointsInv
<1>1. Serving' = Serving /\ active' = active
  BY QuietStep, ServingQuiet DEF Quiet
<1>2. History' = History
  BY <1>0, HistoryKept
<1>3. OutcomeMap /\ OutcomeMap'
  BY <1>0, OutcomeOf, PTL
<1>4. ASSUME NEW w \in Versions PROVE Outcome'[w] = Outcome[w]
  <2>1. CASE status'[w] = status[w]
    BY <1>0, <2>1, OutcomeSame
  <2>2. CASE MarkProcessing(w) /\ status'[w] = "PROCESSING"
    <3>1. status[w] = "PENDING"
      BY <1>0, <2>2 DEF MarkProcessing, OrderInv, StatusByStep
    <3>2. QED
      BY <1>3, <2>2, <3>1 DEF OutcomeMap
  <2>3. QED
    BY <1>0, <2>1, <2>2, StatusStep
<1>5. Outcome' = Outcome
  BY <1>3, <1>4 DEF OutcomeMap
<1>6. QED
  BY <1>1, <1>2, <1>5 DEF Catalog!vars

LEMMA CatalogStep ==
    ASSUME Unbroken, ServedInv, NumbersInv', [Next]_vars
    PROVE  [Catalog!Next]_(Catalog!vars)
BY UploadStep, FailStep, ExposeStep, WithdrawStep, ActivateStep, UnseenStep

LEMMA CatalogInit == Init => Catalog!Init
<1> HAVE Init
<1>1. History = [d \in Docs |-> <<>>]
  <2>1. \A d \in Docs : current[d] = 0
    BY DEF Init
  <2>2. ASSUME NEW d \in Docs PROVE [n \in 1 .. current[d] |-> VersionAt(d, n)] = <<>>
    BY <2>1
  <2>3. QED
    BY <2>2 DEF History
<1>2. Outcome = [u \in Versions |-> "none"]
  <2>1. OutcomeMap
    BY InitServed, OutcomeOf DEF ServedInv, RowsInv, NumbersInv, PointsInv
  <2>2. \A u \in Versions : status[u] = "ABSENT"
    BY DEF Init
  <2>3. QED
    BY <2>1, <2>2 DEF OutcomeMap
<1>3. Serving = [d \in Docs |-> {}]
  BY DEF Init, Serving
<1>4. QED
  BY <1>1, <1>2, <1>3 DEF Init, Catalog!Init

\* Where promotions are not broken off and uploads take turns, tables and vector store
\* together implement the catalogue of versions: uploads line up in a history, a version
\* joins the served one, replaces it, and is then recorded as the active one.
THEOREM ImplementsCatalogue ==
    ASSUME Unbroken
    PROVE  Spec => ImplementsCatalog
<1>1. ServedInv /\ [Next]_vars => ServedInv'
  BY NextServed
<1>2. ServedInv => NumbersInv
  BY DEF ServedInv, RowsInv
<1>3. ServedInv /\ NumbersInv' /\ [Next]_vars => [Catalog!Next]_(Catalog!vars)
  BY CatalogStep
<1>4. QED
  BY <1>1, <1>2, <1>3, InitServed, CatalogInit, PTL DEF Spec, ImplementsCatalog, Catalog!Spec
================================================================================
