----------------------------- MODULE Provisioning ------------------------------
(***************************************************************************)
(* Start and stop of the servers of the API (main.lifespan,                *)
(* dependencies/startup.py): each one provisions the shared vector store,  *)
(* the collection, its payload indexes and its default shard key           *)
(* (QdrantVectorStore.ensure_collection and ensure_shard_key), composes a  *)
(* query service, serves, and calls the close of every resource that the   *)
(* service registers.  Servers start side by side, every call may fail,    *)
(* before or after its effect, and a server may crash and start again.     *)
(***************************************************************************)
EXTENDS Naturals, Sequences, FiniteSets, SequencesExt

CONSTANTS
    Servers,
    Default,       \* settings.qdrant_default_shard_key
    None,
    Resources,     \* QueryService.shutdown_resources, in their order
    MaxStarts,     \* bound: starts of all servers together
    MaxFaults      \* bound: calls that fail, and crashes

ASSUME ProvisioningAssumption ==
    /\ None \notin Servers \cup {"conflict", "fault", "crash", "stopped"}
    /\ Resources \in Seq(STRING)
    /\ MaxStarts \in Nat /\ MaxFaults \in Nat

\* ensure_payload_indexes, in its order; only the last two tolerate an index that exists.
Fields ==
    <<"tenant_id", "document_id", "document_version_id", "categories", "tags",
      "content_type", "version_status">>

Tolerant == {"content_type", "version_status"}

VARIABLES
    collection,    \* whether the collection exists
    indexes,       \* the fields that have a payload index
    shards,        \* the shard keys
    step,          \* what each server does next
    pass,          \* which of the two calls of ensure_shard_key it is at
    todo,          \* indexes its start has still to create
    open,          \* registered resources whose close was not called yet
    cause,         \* why its last start or run ended
    saw,           \* whether its check found the collection
    starts, faults,
    interrupted    \* history: a start failed or crashed while it made the indexes

qdrant  == <<collection, indexes, shards>>
process == <<step, pass, todo, open, cause, saw>>
counts  == <<starts, faults, interrupted>>
vars    == <<qdrant, process, counts>>

Init ==
    /\ collection = FALSE /\ indexes = {} /\ shards = {}
    /\ step = [p \in Servers |-> "down"]
    /\ pass = [p \in Servers |-> 1]
    /\ todo = [p \in Servers |-> <<>>]
    /\ open = [p \in Servers |-> <<>>]
    /\ cause = [p \in Servers |-> None]
    /\ saw = [p \in Servers |-> FALSE]
    /\ starts = 0 /\ faults = 0
    /\ interrupted = FALSE

At(p, s)   == step[p] = s
Goto(p, s) == step' = [step EXCEPT ![p] = s]
Fault      == faults < MaxFaults /\ faults' = faults + 1

Starting == {"check", "create", "index", "list", "shard", "compose"}

\* initialize_application is called before the try block: a failed start closes nothing.
Fails(p, why) ==
    /\ Goto(p, "down")
    /\ cause' = [cause EXCEPT ![p] = why]
    /\ interrupted' = (interrupted \/ At(p, "create") \/ At(p, "index"))
    /\ UNCHANGED <<pass, todo, open, saw>>

-----------------------------------------------------------------------------
Start(p) ==
    /\ At(p, "down") /\ starts < MaxStarts
    /\ starts' = starts + 1
    /\ Goto(p, "check")
    /\ pass' = [pass EXCEPT ![p] = 1]
    /\ cause' = [cause EXCEPT ![p] = None]
    /\ UNCHANGED <<qdrant, todo, open, saw, faults, interrupted>>

\* Faulty variant: a collection that exists is taken for complete.
CheckOnlyCollection(p) ==
    /\ At(p, "check")
    /\ saw' = [saw EXCEPT ![p] = collection]
    /\ todo' = [todo EXCEPT ![p] = IF collection THEN <<>> ELSE Fields]
    /\ Goto(p, IF collection THEN "index" ELSE "create")
    /\ UNCHANGED <<qdrant, pass, open, cause, counts>>

\* collection_exists.  Of a collection that exists, only the index that is new is made.
Check(p) ==
    /\ At(p, "check")
    /\ saw' = [saw EXCEPT ![p] = collection]
    /\ todo' = [todo EXCEPT ![p] = IF collection THEN <<"version_status">> ELSE Fields]
    /\ Goto(p, IF collection THEN "index" ELSE "create")
    /\ UNCHANGED <<qdrant, pass, open, cause, counts>>

CreateCollection(p) ==
    /\ At(p, "create")
    /\ ~collection
    /\ collection' = TRUE
    /\ Goto(p, "index")
    /\ UNCHANGED <<indexes, shards, pass, todo, open, cause, saw, counts>>

\* Another server has created it since the check: create_collection raises.
LosesRace(p) ==
    /\ At(p, "create")
    /\ collection
    /\ Goto(p, "down")
    /\ cause' = [cause EXCEPT ![p] = "conflict"]
    /\ UNCHANGED <<qdrant, pass, todo, open, saw, counts>>

\* Faulty variant: any error of the call passes for an index that exists.
CreateIndexQuietly(p) ==
    /\ At(p, "index") /\ todo[p] # <<>>
    /\ indexes' \in {indexes, indexes \cup {Head(todo[p])}}
    /\ todo' = [todo EXCEPT ![p] = Tail(@)]
    /\ UNCHANGED <<collection, shards, step, pass, open, cause, saw, counts>>

\* create_payload_index: "already exists" is an error, which _ensure_payload_index catches.
CreateIndex(p) ==
    /\ At(p, "index") /\ todo[p] # <<>>
    /\ IF Head(todo[p]) \in indexes \ Tolerant
       THEN Fails(p, "conflict") /\ UNCHANGED indexes
       ELSE /\ indexes' = indexes \cup {Head(todo[p])}
            /\ todo' = [todo EXCEPT ![p] = Tail(@)]
            /\ UNCHANGED <<step, pass, open, cause, saw, interrupted>>
    /\ UNCHANGED <<collection, shards, starts, faults>>

IndexesDone(p) ==
    /\ At(p, "index") /\ todo[p] = <<>>
    /\ Goto(p, "list")
    /\ UNCHANGED <<qdrant, pass, todo, open, cause, saw, counts>>

\* ensure_shard_key, called by ensure_collection and once more by initialize_rag
Ensured(p) ==
    /\ Goto(p, IF pass[p] = 1 THEN "list" ELSE "compose")
    /\ pass' = [pass EXCEPT ![p] = 2]

ListShardKeys(p) ==
    /\ At(p, "list")
    /\ IF Default \in shards THEN Ensured(p) ELSE Goto(p, "shard") /\ UNCHANGED pass
    /\ UNCHANGED <<qdrant, todo, open, cause, saw, counts>>

\* Faulty variant: a shard key that exists by now is an error.
CreateShardKeyStrictly(p) ==
    /\ At(p, "shard")
    /\ IF Default \in shards THEN Fails(p, "conflict")
       ELSE Ensured(p) /\ UNCHANGED <<todo, open, cause, saw, interrupted>>
    /\ shards' = shards \cup {Default}
    /\ UNCHANGED <<collection, indexes, starts, faults>>

\* A shard key that another server has created by now counts as ensured.
CreateShardKey(p) ==
    /\ At(p, "shard")
    /\ shards' = shards \cup {Default}
    /\ Ensured(p)
    /\ UNCHANGED <<collection, indexes, todo, open, cause, saw, counts>>

\* create_query_service and the registration of its resources
Compose(p) ==
    /\ At(p, "compose")
    /\ Goto(p, "serving")
    /\ open' = [open EXCEPT ![p] = Resources]
    /\ UNCHANGED <<qdrant, pass, todo, cause, saw, counts>>

\* The pending call raises, without its effect or after it: the answer was lost.
CallFails(p) ==
    /\ step[p] \in Starting
    /\ Fault
    /\ \/ UNCHANGED qdrant
       \/ At(p, "create") /\ collection' = TRUE /\ UNCHANGED <<indexes, shards>>
       \/ /\ At(p, "index") /\ todo[p] # <<>>
          /\ indexes' = indexes \cup {Head(todo[p])}
          /\ UNCHANGED <<collection, shards>>
       \/ /\ At(p, "shard")
          /\ shards' = shards \cup {Default}
          /\ UNCHANGED <<collection, indexes>>
    /\ Fails(p, "fault")
    /\ UNCHANGED starts

-----------------------------------------------------------------------------
\* The lifespan's finally block.
Stop(p) ==
    /\ At(p, "serving")
    /\ Goto(p, "closing")
    /\ UNCHANGED <<qdrant, pass, todo, open, cause, saw, counts>>

\* aclose or close of the next resource, whose errors are logged only
Close(p) ==
    /\ At(p, "closing") /\ open[p] # <<>>
    /\ open' = [open EXCEPT ![p] = Tail(@)]
    /\ UNCHANGED <<qdrant, step, pass, todo, cause, saw, counts>>

\* async_engine.dispose
Dispose(p) ==
    /\ At(p, "closing") /\ open[p] = <<>>
    /\ Goto(p, "down")
    /\ cause' = [cause EXCEPT ![p] = "stopped"]
    /\ UNCHANGED <<qdrant, pass, todo, open, saw, counts>>

Crash(p) ==
    /\ step[p] # "down"
    /\ Fault
    /\ Goto(p, "down")
    /\ cause' = [cause EXCEPT ![p] = "crash"]
    /\ open' = [open EXCEPT ![p] = <<>>]
    /\ interrupted' = (interrupted \/ At(p, "create") \/ At(p, "index"))
    /\ UNCHANGED <<qdrant, pass, todo, saw, starts>>

-----------------------------------------------------------------------------
Step(p) ==
    \/ Check(p) \/ CreateCollection(p) \/ LosesRace(p) \/ CreateIndex(p) \/ IndexesDone(p)
    \/ ListShardKeys(p) \/ CreateShardKey(p) \/ Compose(p)
    \/ CallFails(p)
    \/ Close(p) \/ Dispose(p)

Next == \E p \in Servers : Start(p) \/ Step(p) \/ Stop(p) \/ Crash(p)

\* A call that is awaited ends, with an answer or an error.
Spec == Init /\ [][Next]_vars /\ \A p \in Servers : WF_vars(Step(p))

-----------------------------------------------------------------------------
TypeOK ==
    /\ collection \in BOOLEAN
    /\ indexes \subseteq ToSet(Fields) /\ shards \subseteq {Default}
    /\ step \in [Servers -> Starting \cup {"down", "serving", "closing"}]
    /\ pass \in [Servers -> {1, 2}]
    /\ cause \in [Servers -> {None, "conflict", "fault", "crash", "stopped"}]
    /\ saw \in [Servers -> BOOLEAN]

\* A server that serves, or composes its query service, finds the collection, the default
\* shard and the index on version_status in place, however its start was interleaved with
\* the starts and failures of others: "the configured default shard must exist before the
\* first document upsert or retrieval" (startup.py).
Provisioned == collection /\ Default \in shards /\ "version_status" \in indexes

ServingIsProvisioned ==
    \A p \in Servers : step[p] \in {"compose", "serving", "closing"} => Provisioned

\* A start only conflicts with another one when both found no collection: from the
\* moment the collection exists no new start fails, unless a call of its own does.
OnlyFirstStartsConflict ==
    \A p \in Servers : cause[p] = "conflict" => collection /\ ~saw[p]

\* The comment "Existing collections already have the original metadata indexes": an index
\* is missing only as long as the server that created the collection is making them, or
\* when a start was cut short in the midst of that.
IndexesComplete ==
    collection =>
        \/ interrupted
        \/ ToSet(Fields) = indexes
        \/ \E p \in Servers : At(p, "index") /\ ToSet(Fields) \ indexes \subseteq ToSet(todo[p])
================================================================================
