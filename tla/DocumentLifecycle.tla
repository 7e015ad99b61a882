--------------------------- MODULE DocumentLifecycle ---------------------------
(***************************************************************************)
(* The life of a document version, from the upload request to the moment   *)
(* retrieval serves it: DocumentService (services/document_service.py),    *)
(* DocumentIngestionService, the two PostgreSQL tables, the version_status *)
(* payload of the Qdrant points, the blob container and the Redis          *)
(* generation counter of the knowledge base.                               *)
(*                                                                         *)
(* Every upload request is one job, named by the document_version_id the   *)
(* request draws (uuid4).  A job is a coroutine: its program counter says  *)
(* which remote call it awaits, and any other job can run in between.      *)
(* Each remote call is one step, and each can fail, before it has taken    *)
(* effect (CallFails) or after it (Reply).                                 *)
(***************************************************************************)
EXTENDS Naturals

CONSTANTS
    Docs,                 \* document_id values
    Versions,             \* document_version_id values, one per upload job
    Contents,             \* content hashes
    Files,                \* file names
    Kinds,                \* the kinds of uploads, see AllKinds
    Modes,                \* the call paths in use, see AllModes
    None,                 \* SQL NULL / Python None
    FailingCalls,         \* steps whose call may raise without an effect
    LostReplies,          \* steps whose call may raise after its effect
    MaxFaults,            \* bound: how many remote calls may fail
    MaxCrashes,           \* bound: how many times the process may stop
    SerialUploads         \* TRUE: clients upload one version of a document at a time

\* "background" is what the HTTP API does, "inline" is aupload_* without
\* background_tasks, "sync" is upload_document / upload_new_version.
AllModes == {"background", "inline", "sync"}

\* A new document with categories and tags, one that lacks either, or a new version.
AllKinds == {"document", "unlabelled", "version"}

ASSUME ConstantsAssumption ==
    /\ Kinds \subseteq AllKinds
    /\ Modes \subseteq AllModes
    /\ None \notin Versions
    /\ None \notin Docs
    /\ MaxFaults \in Nat
    /\ MaxCrashes \in Nat
    /\ SerialUploads \in BOOLEAN

VARIABLES
    current,     \* documents.current_version, 0: no such row
    active,      \* documents.active_version_id
    docStatus,   \* documents.status
    status,      \* document_versions.status, "ABSENT": no such row
    number,      \* document_versions.version, held in memory before the row exists
    points,      \* version_status of the version's Qdrant points
    blobs,       \* paths present in the blob container
    generation,  \* Redis generation counter of the knowledge base
    pc,          \* the next remote call of each job
    req,         \* the arguments of each job
    seen,        \* the Document object the job's session holds
    stored,      \* jobs whose stored_blob_path is set in a running request
    faults,      \* how many calls have failed
    crashes      \* how many times the process has stopped

documents == <<current, active, docStatus>>
stores    == <<points, blobs, generation>>
memory    == <<req, seen, stored>>
vars      == <<documents, status, number, stores, pc, memory, faults, crashes>>

-----------------------------------------------------------------------------
RequestKeys == [kind: Kinds, doc: Docs, content: Contents, file: Files, mode: Modes]
NoRequest   == [kind |-> None, doc |-> None, content |-> None, file |-> None, mode |-> None]

DocumentStatus == {"ABSENT", "QUEUED", "PROCESSING", "INDEXED", "FAILED"}
VersionStatus  == {"ABSENT", "PENDING", "PROCESSING", "ACTIVE", "SUPERSEDED", "FAILED"}
PointStatus    == {"ABSENT", "PENDING", "ACTIVE", "SUPERSEDED"}
Snapshot       == [current: Nat, active: Versions \cup {None}, status: DocumentStatus]

RequestSteps == {"check", "store", "insert"}
TaskSteps    == {"queued", "mark", "reload", "ingest", "bump", "promote", "retire", "activate"}
FailureSteps == {"undo", "record", "cleanup"}
Running      == RequestSteps \cup TaskSteps \cup FailureSteps
Ended        == {"done", "failed", "rejected", "lost"}

DocOf(u)  == req[u].doc
Async(u)  == req[u].mode # "sync"
Queued(u) == req[u].mode = "background"
HasRow(u) == status[u] # "ABSENT"
BlobPath(u) == <<DocOf(u), number[u], req[u].file>>
NoRow     == [current |-> 0, active |-> None, status |-> "ABSENT"]
RowOf(d)  == [current |-> current[d], active |-> active[d], status |-> docStatus[d]]

\* Versions of document d, as rows of document_versions.
Rows(d) == {u \in Versions : HasRow(u) /\ DocOf(u) = d}

Init ==
    /\ current = [d \in Docs |-> 0]
    /\ active = [d \in Docs |-> None]
    /\ docStatus = [d \in Docs |-> "ABSENT"]
    /\ status = [u \in Versions |-> "ABSENT"]
    /\ number = [u \in Versions |-> 0]
    /\ points = [u \in Versions |-> "ABSENT"]
    /\ blobs = {}
    /\ generation = 0
    /\ pc = [u \in Versions |-> "idle"]
    /\ req = [u \in Versions |-> NoRequest]
    /\ seen = [u \in Versions |-> NoRow]
    /\ stored = {}
    /\ faults = 0
    /\ crashes = 0

-----------------------------------------------------------------------------
(* How a step ends.                                                        *)

\* Where the job goes once its failure has been recorded, or could not be:
\* only a request handler that stored a blob deletes it.
AfterRecord(u) == IF u \in stored THEN "cleanup" ELSE "failed"

\* AsyncSession.rollback() expires every persistent object, and the request
\* handler then reads document.document_id outside of an awaited call: the
\* read raises in the handler and again in its except branch.  A Document that
\* was only pending becomes transient and stays readable.
ExpiredAfterRollback(u) ==
    Async(u) /\ (req[u].kind = "version" \/ pc[u] \in TaskSteps)

\* Where an exception raised by the call the job awaits takes it.  The first
\* query of a background task is outside of its try block.
Handler(u) ==
    IF pc[u] = "check" THEN "rejected"
    ELSE IF pc[u] \in {"undo", "record"} THEN AfterRecord(u)
    ELSE IF \/ pc[u] = "cleanup"
            \/ Queued(u) /\ pc[u] = "queued"
            \/ ExpiredAfterRollback(u) /\ ~(Queued(u) /\ pc[u] \in TaskSteps)
      THEN "failed"
      ELSE "undo"

Goto(u, step) == pc' = [pc EXCEPT ![u] = step]

Raise(u) == Goto(u, Handler(u)) /\ UNCHANGED faults

\* The job's call was applied, and its answer came back or got lost.
Reply(u, step) ==
    \/ Goto(u, step) /\ UNCHANGED faults
    \/ /\ pc[u] \in LostReplies
       /\ faults < MaxFaults
       /\ faults' = faults + 1
       /\ Goto(u, Handler(u))

\* SQLAlchemy writes an attribute only if the value assigned differs from the
\* one the session loaded.
SetDocStatus(u, new) ==
    docStatus' = [docStatus EXCEPT ![DocOf(u)] = IF seen[u].status = new THEN @ ELSE new]

Remember(u, row) == seen' = [seen EXCEPT ![u] = row]

-----------------------------------------------------------------------------
(* The upload request.                                                     *)

\* upload_document draws a fresh document_id; upload_new_version loads the
\* Document, and raises without further effect when there is none.
Begin(u, r) ==
    /\ pc[u] = "idle"
    /\ r.kind # "version" => \A w \in Versions : DocOf(w) # r.doc
    /\ r.kind = "version" => current[r.doc] > 0
    /\ SerialUploads => \A w \in Versions : DocOf(w) = r.doc => pc[w] \in Ended
    /\ req' = [req EXCEPT ![u] = r]
    /\ seen' = [seen EXCEPT ![u] = IF r.kind = "version"
                                     THEN RowOf(r.doc)
                                     ELSE NoRow]
    /\ Goto(u, "check")
    /\ UNCHANGED <<documents, status, number, stores, stored, faults, crashes>>

SameContent(u, w) == req[w].content = req[u].content

\* After the stream has been hashed: an identical version is refused, otherwise
\* the version number follows the one in the Document loaded before the hash.
CheckDuplicate(u) ==
    /\ pc[u] = "check"
    /\ IF req[u].kind = "version" /\ \E w \in Rows(DocOf(u)) : SameContent(u, w)
         THEN Goto(u, "rejected") /\ UNCHANGED number
         ELSE /\ number' = [number EXCEPT ![u] = seen[u].current + 1]
              /\ Goto(u, "store")
    /\ UNCHANGED <<documents, status, stores, memory, faults, crashes>>

\* Faulty variant: upload_blob(overwrite=True)
NeverTaken(u) == FALSE

\* upload_blob(overwrite=False) raises when the path is in use.
PathTaken(u) == BlobPath(u) \in blobs

StoreBlob(u) ==
    /\ pc[u] = "store"
    /\ IF PathTaken(u)
         THEN Raise(u) /\ UNCHANGED <<blobs, stored>>
         ELSE /\ blobs' = blobs \cup {BlobPath(u)}
              /\ Reply(u, "insert")
              /\ stored' = IF pc'[u] = "insert" THEN stored \cup {u} ELSE stored
    /\ UNCHANGED <<documents, status, number, points, generation, req, seen, crashes>>

\* Faulty variant: without the constraints of the table, CheckDuplicate alone decides.
NothingConflicts(u) == FALSE

\* uq_document_version and uq_document_content_hash
Conflicts(u) == \E w \in Rows(DocOf(u)) : number[w] = number[u] \/ SameContent(u, w)

\* The names of the categories and tags are read after the commit.  Those of a new
\* document that was given none are relationships not loaded yet, and an AsyncSession
\* raises when they are read; the except branch reads the Document, which its rollback
\* has expired, and raises as well, with nothing recorded.
LabelsUnloaded(u) == req[u].kind = "unlabelled" /\ Async(u)

AfterInsert(u) ==
    IF LabelsUnloaded(u) THEN "failed"
    ELSE IF req[u].mode = "inline" THEN "ingest" ELSE "queued"

\* The commit that creates the version row and moves current_version.  The
\* API hands the job to its background task and ends the request.
InsertVersion(u) ==
    /\ pc[u] = "insert"
    /\ IF Conflicts(u)
         THEN Raise(u) /\ UNCHANGED <<documents, status, seen, stored>>
         ELSE /\ status' = [status EXCEPT ![u] = "PENDING"]
              /\ current' = [current EXCEPT ![DocOf(u)] = number[u]]
              /\ SetDocStatus(u, "QUEUED")
              /\ seen' = [seen EXCEPT ![u].current = number[u], ![u].status = "QUEUED"]
              /\ Reply(u, AfterInsert(u))
              /\ stored' = IF Queued(u) /\ pc'[u] = "queued" THEN stored \ {u} ELSE stored
              /\ UNCHANGED active
    /\ UNCHANGED <<number, stores, req, crashes>>

-----------------------------------------------------------------------------
(* The ingestion of the version, in a background task or in the request.   *)

\* The background task loads the Document in a session of its own; a sync
\* session reloads it because its commit expired it.
StartTask(u) ==
    /\ pc[u] = "queued"
    /\ Remember(u, RowOf(DocOf(u)))
    /\ Goto(u, "mark")
    /\ UNCHANGED <<documents, status, number, stores, req, stored, faults, crashes>>

MarkProcessing(u) ==
    /\ pc[u] = "mark"
    /\ status' = [status EXCEPT ![u] = "PROCESSING"]
    /\ SetDocStatus(u, "PROCESSING")
    /\ seen' = [seen EXCEPT ![u].status = "PROCESSING"]
    /\ Reply(u, IF Async(u) THEN "ingest" ELSE "reload")
    /\ UNCHANGED <<current, active, number, stores, req, stored, crashes>>

\* expire_on_commit is on for the sync session: the extractor's first use of
\* the Document loads it again.
ReloadDocument(u) ==
    /\ pc[u] = "reload"
    /\ Remember(u, RowOf(DocOf(u)))
    /\ Goto(u, "ingest")
    /\ UNCHANGED <<documents, status, number, stores, req, stored, faults, crashes>>

\* Faulty variant: points are born retrievable.
BornActive(u) == [points EXCEPT ![u] = "ACTIVE"]

\* _enrich_metadata and _to_point: new points are PENDING.
NewPoints(u) == [points EXCEPT ![u] = "PENDING"]

\* Download, extract, chunk, embed and upsert with version_status PENDING; a
\* file without chunks raises before anything is written.
Ingest(u) ==
    /\ pc[u] = "ingest"
    /\ \/ Raise(u) /\ UNCHANGED points
       \/ points' = NewPoints(u) /\ Reply(u, "bump")
    /\ UNCHANGED <<documents, status, number, blobs, generation, memory, crashes>>

BumpGeneration(u) ==
    /\ pc[u] = "bump"
    /\ generation' = generation + 1
    /\ Reply(u, "promote")
    /\ UNCHANGED <<documents, status, number, points, blobs, memory, crashes>>

\* Faulty variant: the previous version is retired first.
RetireFirst(u) ==
    IF seen[u].active = None THEN [points EXCEPT ![u] = "ACTIVE"]
                             ELSE [points EXCEPT ![seen[u].active] = "SUPERSEDED"]

\* "New version first keeps the corpus queryable"
PromotedPoints(u) == [points EXCEPT ![u] = "ACTIVE"]

\* Faulty variant: the previous version is left as it is.
NothingToRetire(u) == "activate"

AfterPromotion(u) == IF seen[u].active = None THEN "activate" ELSE "retire"

\* The first set_payload of promote_document_version.
Promote(u) ==
    /\ pc[u] = "promote"
    /\ points' = PromotedPoints(u)
    /\ Reply(u, AfterPromotion(u))
    /\ UNCHANGED <<documents, status, number, blobs, generation, memory, crashes>>

\* The second one, on the version that was active when the job loaded the
\* Document.
Retire(u) ==
    /\ pc[u] = "retire"
    /\ points' = [points EXCEPT ![seen[u].active] = "SUPERSEDED"]
    /\ Reply(u, "activate")
    /\ UNCHANGED <<documents, status, number, blobs, generation, memory, crashes>>

\* Faulty variants: the version numbered before u is superseded, whether or not
\* it was active; none is; the first active version stays the active one; the
\* document takes the version's status.
PredecessorSuperseded(u) ==
    [w \in Versions |->
        IF w = u THEN "ACTIVE"
        ELSE IF DocOf(w) = DocOf(u) /\ HasRow(w) /\ number[w] + 1 = number[u] THEN "SUPERSEDED"
        ELSE status[w]]
NoneSuperseded(u) == [status EXCEPT ![u] = "ACTIVE"]
FirstStaysActive(u) == [active EXCEPT ![DocOf(u)] = IF @ = None THEN u ELSE @]
StatusOfVersion == "ACTIVE"

ActivatedRows(u) ==
    [w \in Versions |-> IF w = u THEN "ACTIVE"
                        ELSE IF w = seen[u].active THEN "SUPERSEDED"
                        ELSE status[w]]
ActivatedId(u) == [active EXCEPT ![DocOf(u)] = u]
ActivatedStatus == "INDEXED"

\* The commit that makes the version the active one of its document.
Activate(u) ==
    /\ pc[u] = "activate"
    /\ status' = ActivatedRows(u)
    /\ active' = ActivatedId(u)
    /\ SetDocStatus(u, ActivatedStatus)
    /\ Reply(u, "done")
    /\ UNCHANGED <<current, number, stores, memory, crashes>>

-----------------------------------------------------------------------------
(* The except branches.                                                    *)

\* After the rollback the handler loads the version and the Document ...
Undo(u) ==
    /\ pc[u] = "undo"
    /\ Remember(u, RowOf(DocOf(u)))
    /\ Goto(u, "record")
    /\ UNCHANGED <<documents, status, number, stores, req, stored, faults, crashes>>

\* Faulty variants: the version is forgotten; the document shares the failure of
\* its version, or never does.
RowForgotten(u) == status
DocumentFails(u) == "FAILED"
DocumentSurvives(u) == "INDEXED"

FailedRows(u) == [status EXCEPT ![u] = IF HasRow(u) THEN "FAILED" ELSE @]
StatusAfterFailure(u) == IF seen[u].active # None THEN "INDEXED" ELSE "FAILED"

\* ... and commits the failure, judging by the active_version_id it loaded.
RecordFailure(u) ==
    /\ pc[u] = "record"
    /\ status' = FailedRows(u)
    /\ IF seen[u].current > 0 THEN SetDocStatus(u, StatusAfterFailure(u)) ELSE UNCHANGED docStatus
    /\ Goto(u, AfterRecord(u))
    /\ UNCHANGED <<current, active, number, stores, memory, faults, crashes>>

DeleteBlob(u) ==
    /\ pc[u] = "cleanup"
    /\ blobs' = blobs \ {BlobPath(u)}
    /\ Goto(u, "failed")
    /\ UNCHANGED <<documents, status, number, points, generation, memory, faults, crashes>>

\* Any call of the job raises without having had an effect.
CallFails(u) ==
    /\ pc[u] \in Running \cap FailingCalls
    /\ faults < MaxFaults
    /\ faults' = faults + 1
    /\ Goto(u, Handler(u))
    /\ UNCHANGED <<documents, status, number, stores, memory, crashes>>

\* The process stops: every job, and the in-process task queue, is gone, and
\* nothing looks for unfinished versions when it starts again.
Crash ==
    /\ crashes < MaxCrashes
    /\ \E u \in Versions : pc[u] \in Running
    /\ crashes' = crashes + 1
    /\ pc' = [u \in Versions |-> IF pc[u] \in Running THEN "lost" ELSE pc[u]]
    /\ UNCHANGED <<documents, status, number, stores, memory, faults>>

-----------------------------------------------------------------------------
Step(u) ==
    \/ CheckDuplicate(u) \/ StoreBlob(u) \/ InsertVersion(u)
    \/ StartTask(u) \/ MarkProcessing(u) \/ ReloadDocument(u) \/ Ingest(u)
    \/ BumpGeneration(u) \/ Promote(u) \/ Retire(u) \/ Activate(u)
    \/ Undo(u) \/ RecordFailure(u) \/ DeleteBlob(u)

Next ==
    \/ \E u \in Versions : \/ \E r \in RequestKeys : Begin(u, r)
                           \/ Step(u)
                           \/ CallFails(u)
    \/ Crash

Spec == Init /\ [][Next]_vars

\* The event loop (or the thread of a sync caller) resumes every job whose
\* call has returned.
FairSpec == Spec /\ \A u \in Versions : WF_vars(Step(u))

-----------------------------------------------------------------------------
(* Properties.                                                             *)

TypeOK ==
    /\ current \in [Docs -> Nat]
    /\ active \in [Docs -> Versions \cup {None}]
    /\ docStatus \in [Docs -> DocumentStatus]
    /\ status \in [Versions -> VersionStatus]
    /\ number \in [Versions -> Nat]
    /\ points \in [Versions -> PointStatus]
    /\ blobs \subseteq Docs \X Nat \X Files
    /\ generation \in Nat
    /\ pc \in [Versions -> Running \cup Ended \cup {"idle"}]
    /\ req \in [Versions -> RequestKeys \cup {NoRequest}]
    /\ seen \in [Versions -> Snapshot]
    /\ stored \subseteq Versions
    /\ faults \in Nat
    /\ crashes \in Nat

\* The version numbers of a document are 1, 2, ... current_version, each held
\* by one row, although every request computes its number from a Document it
\* loaded before it hashed and stored the file.
VersionNumbersFollowOn ==
    \A d \in Docs :
        /\ {number[u] : u \in Rows(d)} = 1 .. current[d]
        /\ \A u, w \in Rows(d) : number[u] = number[w] => u = w

\* active_version_id names a row of the same document whose status is ACTIVE,
\* whatever superseding and failing the other jobs commit.
ActiveRowIsActive ==
    \A d \in Docs : active[d] # None =>
        /\ active[d] \in Rows(d)
        /\ status[active[d]] = "ACTIVE"

\* promote_document_version promotes before it retires: once retrieval could
\* find a version of a document it can always find one.
CorpusStaysQueryable ==
    \A u \in Versions : points[u] \in {"ACTIVE", "SUPERSEDED"} =>
        \E w \in Versions : DocOf(w) = DocOf(u) /\ points[w] = "ACTIVE"

\* No failed upload deletes, and no concurrent upload replaces, the file of a
\* version that is or was active.
ServedVersionHasBlob ==
    \A u \in Versions : status[u] \in {"ACTIVE", "SUPERSEDED"} => BlobPath(u) \in blobs

\* The document panel says INDEXED only of a document retrieval serves.
IndexedIsServed ==
    \A d \in Docs : docStatus[d] = "INDEXED" =>
        \E u \in Rows(d) : active[d] = u /\ points[u] \in {"ACTIVE", "SUPERSEDED"}

\* Retrieval finds the version active_version_id names and no other, except
\* while a job of the same document is between its first set_payload and the
\* commit that follows ("only the currently active document version may
\* participate in user retrieval", providers/vector_store/qdrant.py).
Promoting(d) == \E w \in Versions : DocOf(w) = d /\ pc[w] \in {"retire", "activate"}

OnlyActiveVersionServed ==
    \A u \in Versions :
        points[u] = "ACTIVE" /\ ~Promoting(DocOf(u)) => active[DocOf(u)] = u

\* A document with an active version is not shown as FAILED.
ActiveDocumentNotFailed ==
    \A d \in Docs : active[d] # None => docStatus[d] # "FAILED"

\* A row goes from PENDING to PROCESSING to ACTIVE or FAILED and from ACTIVE to
\* SUPERSEDED, the last one in the commit that gives the document another
\* active version; FAILED and SUPERSEDED are final, whichever job commits.
Progress(old, new) ==
    \/ old = "ABSENT" /\ new = "PENDING"
    \/ old = "PENDING" /\ new \in {"PROCESSING", "ACTIVE", "FAILED"}
    \/ old = "PROCESSING" /\ new \in {"ACTIVE", "FAILED"}

LifecycleOrder ==
    [][\A u \in Versions : status'[u] # status[u] =>
          \/ Progress(status[u], status'[u])
          \/ /\ status[u] = "ACTIVE" /\ status'[u] = "SUPERSEDED"
             /\ active'[DocOf(u)] \notin {u, None}]_vars

Unsettled(u) == status[u] \in {"PENDING", "PROCESSING"}
Settled(u)   == status[u] \in {"ACTIVE", "SUPERSEDED", "FAILED"}

\* An uploaded version is eventually served, replaced or reported as failed ("Status
\* lifecycle" of _run_background_ingestion).  Exempt are new documents without categories
\* and tags: their request raises after the commit, and they stay PENDING for good.
VersionSettles == \A u \in Versions : Unsettled(u) /\ ~LabelsUnloaded(u) ~> Settled(u)
================================================================================
