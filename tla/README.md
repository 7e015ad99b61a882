# Verification of ContextOps Enterprise Policy Intelligence

ContextOps is a FastAPI service that answers questions about enterprise policy documents. Documents
are uploaded in versions, ingested into a Qdrant collection, and retrieved for questions that a
LangGraph workflow answers with an LLM. This directory holds TLA+ models of the parts whose
correctness depends on order, concurrency and failure, the TLC runs that check them on small
instances, and TLAPS proofs of what must hold for every instance. Paths below are relative to `src/`.

- [Inventory](#inventory) of the system
- [Modules](#modules): how state and actions correspond to the code
- [Runs](#runs): what is checked, with which bounds, and what it shows
- [Findings](#findings): where the code and what is said of it disagree
- [Fairness](#fairness)
- [Proofs](#proofs)
- [What is not modelled](#what-is-not-modelled)
- [Plan](#plan)

To check: `tlc -config <run>.cfg <module>` and `tlapm <module>Proofs.tla`. `PROJECT.json` maps every
definition to the lines it models and lists runs, faulty variants, hazards and theorems.

## Inventory

| Component (sources) | State it keeps | Operations | What is hard | What makes it correct |
|---|---|---|---|---|
| Document service (`app/services/document_service.py`, `app/models/document*.py`) | PostgreSQL rows `documents`, `document_versions`; blobs; Qdrant `version_status`; Redis generation | upload a document or a new version, on three call paths (API with background task, awaited inline, synchronous); ingestion; promotion; failure handling | four stores without a common transaction; sessions that hold rows loaded minutes before; background tasks of one document that overlap; a process that stops | version numbers without gaps; one active version; retrieval finds exactly that one; a document never disappears from retrieval; every version ends as ACTIVE, SUPERSEDED or FAILED |
| Ingestion pipeline (`app/services/document_ingestion_service.py`) | none of its own | download, extract, chunk, enrich, embed, upsert | any of six calls fails; vectors paired with chunks by position | every stored chunk has its own vector |
| Extraction and chunking (`app/rag/ingestion`, `app/rag/chunking`) | none (pure) | items to elements, sections, runs, packing and splitting | five loops with different boundary checks; heading levels from three sources | nothing lost or reordered; size limit; right hierarchy path; tables keep their columns |
| Embedding providers (`app/providers/embedding`) | clients | batches under three limits; BM25 | responses in any order, of any length | requests within the limits |
| Vector store (`app/providers/vector_store/qdrant.py`) | points with payload | upsert, status, promotion in two calls, filtered hybrid search, collection set-up | the promotion is not atomic | only ACTIVE points are retrieved |
| Query workflow (`app/rag/workflow`) | state of one query | 15 nodes with conditional routes | every dependency may fail; recovery; shared cache | weak evidence never reaches the LLM; every query ends |
| Answer cache (`app/services/redis_cache.py`, `cache_key.py`) | Redis entries, generation counter | look up, store, bump | entries shared by queries while ingestions move generation and corpus | a hit is grounded, and not older than its namespace |
| Context construction (`app/rag/workflow/nodes/contextops.py`) | none | deduplicate, select (MMR), redact, number, pack, compress | iteration over a set; budget arithmetic; three numberings of sources | greedy and deterministic selection; budget; citations resolve |
| Conversation service (`app/services/query_service.py`, `conversation_memory.py`, `app/repositories/conversation.py`) | conversations, messages, summaries | create on first use, save messages, read bounded context, roll the summary | asks of one conversation run concurrently, each call in a session of its own | tenants stay apart; whole history; nothing said falls out of window and summary |
| Guardrails (`app/guardrails`) | none | input checks, PII entities | entities of different patterns overlap; offsets shift with every cut | of a text exactly the detected entities are replaced |
| Retrieval providers (`app/rag/retrieval`, `app/providers/llm`) | clients | dense, sparse, hybrid search, rerank, rewrite, validate | external services | what the graph sees: a result or an exception |
| Application start and stop (`app/main.py`, `app/dependencies`) | container of clients; the collection, its indexes and shard keys | provision, compose, serve, close | servers that start side by side on one empty Qdrant; a start that ends halfway | who serves finds the store provisioned; every registered resource has its close called |
| Evaluation of recorded traces (`app/evaluation/golden_*`, `existing_trace_*`, `retrieval_metrics.py`) | five JSON files, scores in Langfuse | generate a dataset, identify candidates, compute metrics, judge, publish | requests, a reviewer and scripts meet in files without locks; half written files; partial publication | only reviewed ground truth is compared with; metrics fit together; scores belong to their trace |
| Evaluation of the live service (`app/evaluation/run_evaluation.py`, `runner.py`) | clients it opened | ask, judge, publish, close | any call raises after clients were opened | the run ends, and the close of every resource was called |
| Blob storage, API routers, settings, tracing, UI | | I/O and configuration | | |

Interactions. The API router calls `DocumentService`, which calls `DocumentIngestionService`, which
calls extractor, chunker, embedders and the vector store. Between the embedding and the commit that
activates a version, the service moves the Redis generation and promotes the points in Qdrant. Query
workflow and ingestion share exactly three things: the generation counter, the cache, and the points
retrieval can see. `QueryService.ask` surrounds the workflow with the conversation repository.

## Modules

```
VersionCatalog  <=  DocumentLifecycleRefinement  --  DocumentLifecycle  --  DocumentLifecycleProofs
AnswerService   <=  QueryWorkflowRefinement      --  QueryWorkflow      --  QueryWorkflowProofs
                                                     Conversation       --  ConversationProofs
                                     Redaction   --  ContextAssembly    --  ContextAssemblyProofs (with FoldLemmas)
                                     Chunking    --  Ingestion          --  IngestionProofs (with FoldLemmas)
                             RetrievalMetrics    --  Evaluation         --  EvaluationProofs (with FoldLemmas)
                                                     Provisioning       --  ProvisioningProofs
                             Experiment          --  Deployment (Provisioning and Experiment composed)
```

`<=` is "is implemented by" (`INSTANCE ... WITH`, the abstract specification as a property of a run).
The `MC` modules give instances.

Common conventions. A coroutine is a program counter that names the call it awaits; whatever runs
between two awaits is one step, and any other coroutine may run in between. A call fails in two ways:
it raises without an effect, or it takes effect and its reply is lost. Definitions commented as
"Faulty variant" are plausible bugs. They are used by no action; `PROJECT.json` says which property
notices which of them.

### DocumentLifecycle

One *job* per upload request, named by the `document_version_id` the request draws. `pc` is the call
it awaits: `check, store, insert` in the request; `queued, mark, reload, ingest, bump, promote,
retire, activate` in the task; `undo, record, cleanup` in the except branches. The mode of a request
chooses among the three call paths, which differ in where they reload the Document, in whether the
request waits, and in what survives a rollback.

- PostgreSQL is `current, active, docStatus` and `status, number`; `seen` is the Document the job's
  session holds, which the code uses for the next version number, for the version to retire and, after
  a failure, for the status of the document. `SetDocStatus` writes an attribute only if it differs from
  the loaded one, as the ORM does.
- Qdrant is `points`, the `version_status` all points of a version share. `promote_document_version` is
  two `set_payload` calls, `Promote` and `Retire`.
- `blobs` are paths; `StoreBlob` raises on a path in use (`overwrite=False`).
- `ExpiredAfterRollback` is external: after `AsyncSession.rollback()` the attributes of loaded objects
  are expired, and reading one outside of an awaited call raises. The except branch of the
  asynchronous request path reads one, so it records nothing and deletes no blob.
- `SerialUploads` is an assumption about clients, used only by the run of the refinement.
- A new document may come with categories and tags (`"document"`) or without (`"unlabelled"`). Of the latter
  the asynchronous request raises after its commit, where it reads relationships that are not loaded
  (`LabelsUnloaded`, `AfterInsert`): the row stays, no task is added, and the except branch records nothing.

`VersionCatalog` is what is promised without stores and sessions: versions line up in a history; the
next one joins the one being served, takes its place, and is then recorded as active; one that has been
exposed never fails.

### QueryWorkflow

One action per node of `graph.py`, except for the cache lookup, which is two (`ReadGeneration`, `LookUp`)
because it awaits twice. A *text* is a retrieval query with the filters of the request, within one
tenant. The corpus is a revision number that `Promote` may advance; `Bump` moves the generation before
it, as `document_service.py:812` does. An answer is identified with the question it was generated for
and the corpus of its evidence. `NoKey` is the state without `cache_key` that a failed lookup leaves.
`began` is history: which corpus was current when a generation began.

`AnswerService` promises that a question is answered by an answer generated for it, by a grounded
answer given before for the same retrieval text, by an abstention, or refused.

### Conversation

`QueryService.ask` around the graph, which is one step (`RunGraph`). Rows have the times of the
transactions that wrote them; `RecentMessages` and `Latest` are the `ORDER BY ... LIMIT` queries. A
summary is identified with the set of messages that went into it, so that "is remembered" can be
stated. `update_summary` is a select and a write in one transaction (`BeginUpdate, FindSummary,
WriteSummary`) that other asks interleave with. A blank answer counts as a fault.

### ContextAssembly

The ContextOps node. A content is a name; similarity, relevance and the sentences of each content are
part of the input, so that a run goes through all of them. Scores are integers (`Lambda` in tenths), so
`math.isclose` is equality. Candidates of a round are considered in any order, as the code iterates
over a Python set. The tokens of a text are the sum of those of its sentences: separators are not
counted. A block is the redacted content of its document. `Compressed` takes the sentences off in the order
the code sorts them by, the last one first, and folds back over them. `Redaction` is pure: a text is a sequence of
characters, the entities that the patterns match in it are part of the input (`scans`), and each is cut out
by its offsets and replaced by a marker of `MarkerSize` characters, in the order of the code, from the end of
the text. The call may raise, as any other.

### Chunking and Ingestion

`Chunking` holds what is pure: levels and kinds of the items Docling reports and the label each gets in its
metadata (`Structural`: a section header without a number is relabelled as text, unless it is the title), the
part of a text or of a response that is kept alone (`BodyOf`), the chunker, and the embedding batches. A word is its place in the document and its tokens. The chunker's loops over
elements, rows and sentences are one operator, `Packed`; the loop over words differs (it checks only
the first word by itself) and is `SplitSentence`. `SplitRow` raises, because the code does (see
the observations under Findings). `Ingestion` is `aingest`: one action per awaited call, with a step per item of the document
because a picture calls the vision model in between.

### RetrievalMetrics and Evaluation

`RetrievalMetrics` is `retrieval_metrics.py` for one trace. A ratio is kept as its two terms and the
discount `1 / log2(rank + 1)` is any decreasing sequence of naturals (`Gain`), so nothing is rounded;
averages over traces are left out. `Evaluation` adds everything around it. The variables `golden`,
`candidates`, `reviews`, `retrievalFile` and `judgeFile` are the five files of `app/evaluation`, `scores`
is what Langfuse has.

- *Requests* (`Generate, GoldenWritten, Identify, CandidatesWritten`) are coroutines of the API:
  `write_text` truncates first and writes then, in two steps, because scripts are other processes; two
  requests do not interleave within it, because nothing is awaited (`EventLoopFree`). The
  identifier retrieves for one example after the other and writes at the end.
- *The reviewer* edits the files by hand (`Approve`, `ReviewTrace`), at any time. `approved` is history.
- *Scripts* read their files once, at the start (`RetrievalLoad`, `JudgeLoad`, `PublishLoad`), and go on with
  the copy. The retrieval script skips a trace it cannot use, the judge script raises; the publisher
  goes through both halves of a trace and swallows the first error of each (`PublishHalf`). The three scores of
  the judge's half (`existing_trace_langfuse_publisher.py:340`) are one here, which exists or not; the half of
  the retrieval has several calls, any of which may raise after others. A script that
  raises before it wrote anything may be run again.

### Provisioning, Experiment and Deployment

`Provisioning` has one program counter per server of the API: `check, create, index, list, shard, compose`
are the awaited or blocking calls of the start (`ensure_collection`, `ensure_payload_indexes`,
`ensure_shard_key`, `create_query_service`), then `serving` and `closing`. The shard key is ensured twice,
by `ensure_collection` and by `initialize_rag` (`pass`). A server is a whole process: they share only
Qdrant. `CallFails` is a call that raises, with or without its effect. `Fails` closes nothing, because
`initialize_application` is called before the `try` of `lifespan`.

`Experiment` is one run of `run_evaluation.py`. It composes a query service of its own but provisions
nothing, so that its questions may fail on a store no server has provisioned yet (`ready`). `Publish` leads
to the finally block when there is a trace: `publish_metrics` is called with `run_id=`
(`run_evaluation.py:259`), its parameter is `trace_id` (`langfuse_publisher.py:258`), so the call raises a
TypeError after everything has been published. `Deployment` composes both: the run sees the servers'
Qdrant through `ready <- collection /\ Default \in shards`.

## Runs

| Run | Instance | What it shows |
|---|---|---|
| `lifecycle_faults` | 1 document, 3 uploads, 2 contents, 2 file names, background and synchronous path; 1 fault at any call, 1 crash | numbering, the active row, blobs and the order of statuses survive concurrent uploads, a failure anywhere and a crash; a document never leaves retrieval |
| `lifecycle_settles` | 2 uploads, 2 faults within the ingestion, fair jobs | every uploaded version ends as ACTIVE, SUPERSEDED or FAILED, those of new documents without categories and tags excepted |
| `lifecycle_serial` | 2 documents, 3 uploads, all three paths, one upload per document at a time, 1 fault before the promotion | PostgreSQL and Qdrant together implement `VersionCatalog`; only the active version is served |
| `lifecycle_two_served` | 3 concurrent uploads, no faults | *violation*: two versions of one document stay retrievable |
| `query_graph` | 2 queries, 2 texts, 1 ingestion, every dependency may raise | weak evidence stops before the LLM, only grounded answers are served again, the graph implements `AnswerService` |
| `query_ends` | 1 query, 2 ingestions, every dependency may raise, fair queries | the query ends and the cache never ends it; no answer of a namespace is older than the namespace |
| `query_other_question` | 2 queries, 2 texts | *violation*: a hit may be the answer to another question |
| `conversation` | 3 asks of 1 conversation by 2 tenants, 2 at a time, 1 fault, a window of 4 messages | tenants apart, history whole, nothing forgotten while asks take turns |
| `context` | 4 documents with all 0/1 relevances and symmetric similarities, in every order of the candidates; 2 documents of up to 3 sentences, budget 9; 1 text of 6 characters with up to 2 telephone numbers, an email address and a twelve-digit number | the greedy selection, the budget, the right sentences, citations that resolve, nothing but the detected entities is redacted |
| `ingestion` | all outlines of up to 4 out of 8 items, all documents of up to 3 out of 17 items; chunks of 4 tokens, requests of 2 inputs or 6 tokens | chunks lose nothing but headers without rows, fit, keep columns and paths; requests stay within the limits; vectors match |
| `evaluation` | 2 traces of one question, 2 requests, every script, 2 edits of the reviewer, 1 fault or crash, 2 processes or requests at a time | results rest on reviewed expectations only, metrics fit together, scores belong to their trace, candidates follow the dataset |
| `deployment` | 2 servers, 3 starts, 1 fault or crash; one evaluation with 0 or 1 examples and 1 failing call, fair | who serves finds Qdrant provisioned, only racing first starts conflict, indexes are complete unless a start was cut short, the close of every registered resource is called |

Why the bounds are enough. *Lifecycle*: stale reads involve the version a job loaded, its own and one
that has come in between: three versions; a second document matters only for the refinement. One fault
reaches every handler, as a fault within a handler ends the job; `lifecycle_settles` has two for that.
*Queries*: the cache couples a query that stores with one that hits, and two texts tell a wrong key from a
right one; two ingestions are needed for a namespace that begins above corpus 0. What couples more of
them is covered by the proofs. *Conversation*: races are between two writers; the third ask sees what
they left. *Context*: three rounds reach every tie-break with a non-empty and a growing selection;
four entities of three patterns lie before, after, within and across each other. A marker is as long as the
longest number there (3), as `[REDACTED_PHONE]` is longer than any number the patterns match.
*Ingestion*: each loop has three states (no candidate, a candidate, just flushed), and every pair of
items meets in each. The outlines have headings of every label, with and without a number, one kept from a
text it was merged with. *Evaluation*: two traces of one question, one listed twice among the requested ids and
one id without a trace, reach every branch of the look-up of expectations; a chunk that is listed twice and a
document without a chunk id reach those of the ranking, and the cut-offs 1 to 3 lie below, at and above the number of
results and of relevant chunks; with two actors at a time every pair of them
meets. The proof covers the rest for ground truth. *Deployment*: two servers race, and the third start finds
what they left, also after a fault; `Resources` stands for the registered clients, of which the order
matters and not the number.

Excluded on purpose, each because the code does not keep the property and no document claims it does:

- `lifecycle_faults` excludes one lost reply, that of the last commit (`AllButActivate`): the handler
  records the version it has just activated as FAILED.
- `lifecycle_settles` excludes crashes and a failing first query of the background task (`queued`),
  after which nothing looks for unfinished versions, and the inline path, whose handler raises after a
  rollback.
- `VersionSettles` exempts new documents without categories and tags, which stay PENDING (see the observations
  below). `lifecycle_faults` has no such uploads, for the size of its state space: the theorems hold with
  them, and `lifecycle_settles` and `lifecycle_serial` have them.
- `NothingLost` exempts tables that have only a header, and one above the limit (`HeaderOnly`): no chunk is made
  of them. The instance has one. The names of columns do not count as words there, because chunks repeat
  them: `RowsKeepHeader` and the presence of every other element cover them.
- `EveryCloseIsCalled` speaks of calls. `aclose` is preferred to `close`, and those of the LLM provider
  (`llm/microsoft_foundry.py:255`) and of the vector store (`qdrant.py:1343`) close their asynchronous clients
  only; the synchronous ones, the synchronous credential, and the embedding provider, which is not registered,
  stay open until the process ends. A close that raises was called.
- `NothingForgotten` speaks of asks that take turns and of as many failures as the window has room for:
  two asks that summarize at once overwrite each other.
- `IndexesComplete` exempts a start that was cut short while it made the indexes: no later start makes what
  it left out, since it takes an existing collection for complete but for one index.
- `OnlyFirstStartsConflict` allows the start that loses the race for the collection to fail, as it does.
- `CandidatesFollowGolden` speaks of requests that neither fail nor overlap: the two files are written
  minutes apart.
- `RedactionExact` speaks of texts whose entities lie apart, or are two numbers that end together (the
  overlap the patterns are made for). An email address that contains a telephone number keeps a part of
  its text (`EndTogether`).
- Deadlock is not checked: all processes end.

## Findings

1. *Two versions served* (`lifecycle_two_served`). Ingestions of one document that overlap both load the
   same previous `active_version_id`; each retires that one and neither retires the other. Both stay
   ACTIVE in Qdrant, although `qdrant.py:788` says only the active version may be retrieved.
2. *An answer to another question* (`query_other_question`). The key is built from the contextualized
   query, the LLM is given the question. `cache_key.py:15` says the key has all inputs that can change
   the answer.

Observations that no run is spent on, each visible in the model's actions or in the lines named. After the commit
of a version row the asynchronous request reads `document.categories` and `document.tags`
(`document_service.py:562`), which are not loaded for a new document that was given none, the default of the API
(`router.py:74`): reading them raises in an `AsyncSession`, no task is added, the except branch reads the expired Document
and raises as well, and the version stays PENDING although the docstring at `document_service.py:746` promises INDEXED or
FAILED (`VersionSettles` without its exemption fails with one upload and no failing call). A table above the limit is divided by a
loop over its rows (`document_chunker.py:591`): of one that has only a header no chunk is made and nothing is raised,
although `document_chunker.py:55` says that column names are preserved. A call that
fails after the first `set_payload` of a promotion records the version as FAILED while its points stay
ACTIVE (`qdrant.py:1210`). `_split_oversized_table_row` passes `document_version_id` to a dataclass without
such a field: a table row wider than a chunk raises a TypeError, and the whole version is FAILED, where the
docstring promises that the row is split. A run of the evaluation with tracing ends with the TypeError of
`publish_metrics` (`run_evaluation.py:259`). A collection whose first start was interrupted lacks its
indexes for good (`qdrant.py:150`). The publisher reports nothing of a half it published in part
(`existing_trace_langfuse_publisher.py:174`). A file whose ingestion failed cannot be uploaded again to the same document
(`document_service.py:265`). An answer from before a promotion can enter
the namespace the promotion is announced by (`document_service.py:812`); a blank description of a picture
fails the whole version; `version_number` does not reach the payload; lists and captions are not
extracted; citations are validated against all reranked documents and not those shown (`grounding.py:29`); a question is
contextualized by the summary only and not by the recent messages that the docstring names
(`query_contextualization.py:59`); an email address that contains
a telephone number is redacted in part (`contextops.py:492`).

## Fairness

`FairSpec` of `DocumentLifecycle` and `QueryWorkflow` is weak fairness of the steps of each job or query:
the event loop (or the thread of a synchronous caller) resumes every coroutine whose call has returned,
and every call returns or raises. This is an assumption about the services: the HTTP clients have the timeouts of
their libraries, but the Redis client is created without a socket timeout (`redis_cache.py:40`) and the statements
to PostgreSQL have none, so a call that hangs there holds its query or job for as long. `DeploymentSpec` is the same for each
server's start and stop and for the run of the evaluation, with one condition of its own: that a server is
started or stopped is up to its operator and not fair, and starts are bounded (`MaxStarts`), so that
`EveryCloseIsCalled` asks for what comes after the last one. Nothing is assumed of clients (`Begin`, `Ask`), of
failures, of ingestions in `QueryWorkflow`, or of the order in which coroutines run. All other properties
are checked without fairness, `Evaluation` has none.

## Proofs

For any constants that satisfy the named assumptions: `ConstantsAssumption` (modes are modes of the code,
`None` is no id, bounds are naturals) and `QueryAssumption` (`None` is no text, `Unreliable` are
dependencies, `MaxRetries` is a natural), `MetricsAssumption` (finitely many
cut-offs, and a discount for every rank up to them, smaller from rank to rank), `EvaluationAssumption` (traces are
naturals, their documents sequences of finitely many chunks, `None` is neither, `None`, `Reviewed` and `Observed`
differ, an unreadable file is no dataset), `ProvisioningAssumption` (`None` is no server and no cause), and the assumption on the constants of
`Conversation`, and `ContextAssumption` (the inputs have the shape the node is given, budget and header are positive,
`None` is no position), `ChunkingAssumption` (the four limits are positive, and what one input may have
a request may have) and `DocumentsAssumption` (documents are sequences of items, and the response of the vision model
that has a DESCRIPTION line has a line). TLC evaluates them in the runs.

| Theorem | Statement | Argument |
|---|---|---|
| `DocumentLifecycleProofs!TypeCorrect` | `[]TypeOK` | `TypeInv` adds that a job under way has a request |
| `DocumentLifecycleProofs!CorpusQueryable` | `[]CorpusStaysQueryable` | see below |
| `DocumentLifecycleProofs!NumbersFollowOn` | `[]VersionNumbersFollowOn` | `DrawnBehind`: a number is drawn from a Document that is never ahead of its row, and the constraint of the table refuses those in use, so what is inserted is the next one |
| `DocumentLifecycleProofs!ActiveRow` | `[]ActiveRowIsActive`, where `"activate" \notin LostReplies` | `ActiveDone`: the job of the active version has ended well, so no handler records it as FAILED; only the job that replaces it supersedes it |
| `DocumentLifecycleProofs!IndexedServed` | `[]IndexedIsServed` | `IndexedActive`: INDEXED is written only together with an active version, or copied by a session that loaded it with one, and `PointsInv` says that this version is served |
| `DocumentLifecycleProofs!OrderOfStatuses` | `LifecycleOrder` (an action property), where `"activate" \notin LostReplies` | `OrderInv`: the status of a row follows from the step of its job (`StatusByStep`), and the version a session remembers is of a job that has ended (`SeenDone`) |
| `DocumentLifecycleProofs!ServedFiles` | `[]ServedVersionHasBlob`, where `"activate" \notin LostReplies` | `BlobInv`: see below |
| `DocumentLifecycleProofs!ActiveNotFailed` | `[]ActiveDocumentNotFailed`, where `SerialUploads` | `RowsInv`: the other jobs of a document have ended while one runs (`Alone`), so what its session remembers is what the row holds (`SeenNow`) when the failure is judged |
| `DocumentLifecycleProofs!OnlyActiveServed` | `[]OnlyActiveVersionServed`, where `Unbroken` | `ServedInv`: see below |
| `DocumentLifecycleProofs!ImplementsCatalogue` | `ImplementsCatalog` (`VersionCatalog!Spec` under the mapping), where `Unbroken` | one lemma per step of the catalogue, see below |
| `QueryWorkflowProofs!TypeCorrect` | `[]TypeOK` | `Understood`: a key is only built from a text |
| `QueryWorkflowProofs!EvidenceSufficient` | `[]EvidenceReachesLLM` | inductive with `TypeInv`; both routes to `contextops` pass a validation |
| `QueryWorkflowProofs!CacheGrounded` | `[]CachedAnswersGrounded` | `GroundedInv`: what reaches the write-back was generated, and a hit copies an entry |
| `QueryWorkflowProofs!NamespacesFloor` | `[]NamespaceFloor` | `FloorInv`: the generation is read before the corpus, keys are of the past, and `began` never exceeds the corpus, so evidence is younger than the key it will be stored under |
| `QueryWorkflowProofs!ImplementsService` | `ImplementsAnswerService` (`AnswerService!Spec` under the mapping) | `ServiceInv`: see below |
| `ContextAssemblyProofs!GreedySelection` | `[]SelectionIsGreedy` | `GreedyInv`: in a round the best candidate so far beats all that were looked at, which is enough because the comparison is a strict total order (`BeatsOrder`) |
| `ContextAssemblyProofs!NumbersResolve` | `[]SourcesResolve` | `SourcesInv`: the n-th block is of the n-th selected document, compressed or not (`FittedIsOfItsTurn`), and there are no more of them than reranked documents (`SelectedFew`, by counting) |
| `ContextAssemblyProofs!RedactedExactly` | `[]RedactionExact` | every block is the redaction of its document (`SourcesInv`), and of any text with any entities the redaction cuts exactly these (`RedactedExact`): see below |
| `ContextAssemblyProofs!WithinBudget` | `[]BudgetKept` | `BudgetInv`: the count of tokens is that of the blocks packed, and what is packed next was fitted to what is left of the budget |
| `ContextAssemblyProofs!CompressedByRank` | `[]BestSentencesKept` | `Cut`, with `BestKept`: see below |
| `ContextAssemblyProofs!ShownWhole` | `[]NothingCutWithoutNeed` | `WholeInv`: as long as the rest of the selection fits, nothing was compressed or left out (`RoomForNext`) |
| `IngestionProofs!IngestionInvariant` | `[]IInv` | see below |
| `IngestionProofs!NothingEverLost` | `[]NothingLost` | `Lossless` on top of `IInv`: see below |
| `IngestionProofs!ChunksAlwaysFit` | `[]ChunksFit` | every chunk is of consecutive pieces that fit together, or a single word (`Sized`) |
| `IngestionProofs!RowsAlwaysKeepHeader` | `[]RowsKeepHeader` | a chunk of a table is of the header and consecutive rows (`RowsWhole`), and rows are told apart by the places of their words (`Marked`) |
| `IngestionProofs!PathsAlwaysAncestry` | `[]PathIsAncestry` | `StackIs`: see below |
| `IngestionProofs!VectorsAlwaysMatch` | `[]VectorsMatch` | the batches not sent yet continue where the vectors end (`Consecutive`), and a response sorted by its index is in the order of its request |
| `IngestionProofs!RequestsAlwaysWithinLimits` | `[]RequestsWithinLimits` | `AllWithin`: an input that was validated makes a request by itself, and one that joins was checked with the rest |
| `EvaluationProofs!ReviewedTruthOnly` | `[]OnlyReviewedTruth` | `TruthInv`: an expectation anywhere between the reviewer and a result is either empty or approved |
| `EvaluationProofs!MetricsFitTogether` | `[]MetricsCoherent` | `AccountInv`: a trace is done, skipped or still to do, once; `MetricsFit`: see below |
| `EvaluationProofs!CandidatesFollow` | `[]CandidatesFollowGolden` | `FollowInv`: requests that do not overlap come one at a time, what a request has identified is a first part of its examples, and the traces of the dataset are those of the request that is identifying, since edits leave them alone |
| `EvaluationProofs!ScoresBelong` | `[]ScoresOfTrace` | `ScoresInv`: see below |
| `ConversationProofs!TenantsStayApart` | `[]TenantsApart` | `ApartInv`: an owner never changes, and messages, summaries and what an ask has read belong to its own conversation |
| `ConversationProofs!WholeHistory` | `[]HistoryIsWhole` | `HistoryInv`: which messages of an ask exist follows from its step, and stamps grow with the clock, so that an answer is later than its question |
| `ConversationProofs!NothingIsForgotten` | `[]NothingForgotten` | `TurnsInv`: what the summary does not cover of a conversation is no older than the asks that failed since and the one under way |
| `ProvisioningProofs!ServersProvisioned` | `[]ServingIsProvisioned` | `KnowsStore`: what a server has ensured stays |
| `ProvisioningProofs!StartsConflictFirst` | `[]OnlyFirstStartsConflict` | `KnowsTodo`: who found the collection makes only indexes that tolerate each other |
| `ProvisioningProofs!IndexesAreComplete` | `[]IndexesComplete` | the creator's list and the existing indexes together are all of them |

*A document stays in retrieval.* `CorpusStaysQueryable` is not inductive: `Retire` writes SUPERSEDED on the
version the job remembers, and nothing in the property says that the job's own version is still ACTIVE or
that the remembered one is not about to be promoted. `PointsInv` adds that the version a job remembers, and
the one a document names, belongs to a job past its last commit (`SeenPast`, `ActivePast`), that a job
between its promotion and its commit has ACTIVE points (`PromotedIsServed`), and that points are exposed
only by a job that has reached its promotion (`ExposedLate`). Two jobs in `retire` can then not retire each
other: neither is past its commit. This holds for any number of concurrent uploads, faults and crashes,
and in particular in the executions of Finding 1.

*Lost replies.* Three theorems exclude a lost reply to the last commit (`"activate" \notin LostReplies`). It
is the one failure they do not survive: PostgreSQL has committed ACTIVE, the handler does not know and
records FAILED, and deletes the file of a version that is served (the hazard at `document_service.py:848`).
Every other call may fail or lose its reply, and the process may crash anywhere. The configuration
`lifecycle_faults.cfg` satisfies the hypothesis; `CorpusStaysQueryable`, `VersionNumbersFollowOn` and
`IndexedIsServed` hold without it.

*Files.* A job keeps the blob it stored while it awaits the insert, runs its task or is done, and in the except
branches as long as its request remembers the path (`Keeps`). `BlobInv` says that the blob of every such job is there
(`KeptBlobs`), that no two of them have the same path (`OwnPaths`, from the refusal to overwrite at the store), and that
only a job that has stored remembers a path, as one that deletes does (`StoredLate`). A deletion then takes nobody
else's file. A version that is served is of a job that is done.

*One upload after the other.* Two jobs that promote versions of one document at the same time, or a promotion that is
broken off between its calls, leave two versions retrievable (Finding 1 and the hazards at `qdrant.py:1210` and
`document_service.py:815`). `Unbroken` excludes just this, as `lifecycle_serial.cfg` does: `SerialUploads`, no stop of the
process, no failing call of `retire` and `activate`, no lost reply of a promotion. All other calls may fail, or lose their
replies. `ServedInv` follows the points of a document through a promotion: outside of one, ACTIVE is the active version
(`ServedIsActive`); before `Retire` also the new one, and after it only the new one (`ServedMeanwhile`); and a version
is ACTIVE only from its promotion on (`ServedByStep`), so that the failure of a version never concerns one that is
served. That `Retire` takes the right version is `SeenNow`. `ActiveNotFailed` needs no more than the turns.

*The catalogue.* `LineUp` says that the rows of a document are its history: `VersionAt(d, n)` is the row numbered `n`, from
`VersionNumbersFollowOn`. The insert of a row is then `Upload` (`HistoryGrows`), and every other step leaves the history
alone (`HistoryKept`). `Promote`, `Retire`, `Activate` and `RecordFailure` of a version with a row are `Expose`, `Withdraw`,
`Activate` and `Fail`; all other steps stutter (`UnseenStep`).

*The bounded context.* `Left(c)` is what no summary row of a conversation covers. `TurnsInv` bounds the messages said
after any of it by two for each failure (`Lost`) and one or two for the ask under way (`Own`), hence by the window. A
failing ask leaves at most two messages uncovered and counts as a failure (`Account`); every other ask writes a summary that
covers everything (`WritingTurn`). An ask that takes its turn finds `Left` in the window and the rest in the summary, and
nothing is said until it ends (`Prepared`); asks of other conversations change none of it (`Elsewhere`). The window itself is
bounded because no two messages have the same time (`TimesDiffer`), so that no two of them have equally many newer
ones (`RecentFew`).

*Caching keeps the promise of `ask`.* Under the mapping, `Ask`, the understanding of the question (`Contextualize`) and
the step that decides a query (a hit, the write-back, an abstention or a failure) are steps of `AnswerService`; all other steps, ingestions
included, stutter. The deciding step has to be allowed there: an answer was generated for this very question, or
somebody with the same retrieval text has been given it before. `ServiceInv` therefore says that every entry of the cache
has been given, grounded, to a query of the text its key was made of (`GivenBefore`, `KeyOfText`), and that the answer
a query holds before it is delivered is one for its own question (`AnswersQuestion`). Both rest on `GroundedInv`.

*Redaction.* Offsets are those of the original text, and every marker that goes in shifts what comes after it. After the
first entities in the order of the code (`LastStartFirst`; there is such an order, `OrderExists`) the text is
(`Redacting`) the original one up to where the last of them begins, then the marker of that one, then a rest that
has the markers of the earlier ones that are not part of others; without its marks it is the original text
without the entities so far. The next entity begins no later than that. It either ends there (`CutApart`), and its offsets
are still right, or it reaches into the last one. Then both end together, and because it is no longer than a
marker the cut stays within the marker of the last one (`CutWithin`), which is part of it and need not be left.
Both conditions of `EndTogether` are used there, and only there. All markers have one length, `MarkerSize`, for any value
of it; in the code that of an Aadhaar number is two characters longer.

*Sums and compression.* The tokens of a text and the sentences of a compressed one are folds over finite sets. The
prover has no induction over data; `FoldLemmas` builds it from the well-foundedness of the naturals: a set of
smallest size without a property, given as a set (`SizeInduction`). A fold unfolds to the choice of a function that
satisfies its recursion. `RecursiveExists` says that there is one, by induction on the size of the set, and
`RecursiveUnique` that there is no other; so sums are numbers, do not depend on the order in which they are
taken (`TotalTake`), and grow with the set. `Cut` says of every packed block that is not whole that it was compressed to
the room the blocks before it left. `BestKept` says what that does to its sentences, by induction over the sets of
sentences that come first in the order of ranks: one left out shares no term with the query, or did not fit next to those
that were kept before it. That there is a last sentence in every such set is `LastOfOrder`.

*Chunks.* `IInv` says at each step of `aingest` what the data of that step is worth: `Extracted` (the elements are those of the
items read so far, and their words know their places), `Chunked` (every chunk fits, has the path of its elements and
whole rows), `Sending`, `Embedded` and `Stored` (requests within the limits, in the order of the chunks; vectors in that order;
points with their own). Only one step makes chunks; its proof is what the chunker computes for any input.
Each of its loops is a fold over a sequence: `FoldChain` turns it into a chain of accumulators (`PackedSteps`, `SplitSteps`,
`BatchesSteps`, `RunsSteps`, `SectionsSteps`), and a property of every link follows by `UptoInduction`. Two facts about the
packing loop carry the rest. *What is packed is of consecutive pieces* (`PackStepIn`, `SplitStepIn`): whatever holds of all
fitting runs of pieces (`Admits`) holds of all chunks; this gives size, whole rows and the elements a chunk is of.
*No word is lost* (`PackedKeeps`, `SplitKeeps`): finished chunks and open candidate together have the words
of the pieces so far (`Holds`), until something raises instead of a chunk (`HasHole`), after which nothing is stored.
The header that each chunk of a table repeats does not count (`Keep` leaves out the names of columns).
*No element is lost* (`Covers`, `ChunksCover`): its first piece is in the open candidate or in a finished chunk,
and the chunks of one element are of it alone; a table without rows above the limit (`HeaderOnly`) has no piece to pack.
`Lossless` then joins texts to runs, runs to sections and sections to the document (`SameFlatten`): that the
sections, and the runs of a section, have the elements in their order is `SectionsStepKeeps` and `RunsStepKeeps`.

*Paths.* After i elements the stack of `_group_by_hierarchy` is exactly the headings among them that no heading
of the same or a higher rank follows (`Above`), in the order of their positions. Popping stops at the first heading above the
new one; that nothing below that one has to go follows because levels increase along the stack. A group gets its path when it is
opened, and no heading comes until the next one is.

*Metrics.* That NDCG is at most 1, and 1 exactly when the relevant chunks come first, is a fact about sums: of any so many
ranks the first ones have the largest sum of discounts, and only they have (`FirstRanksBest`, by induction on the
number of ranks). Recall and precision are ratios of the same count of hits (`MetricsFit`). A list without repetitions is a
fold over a sequence, which `DistinctSteps` turns into a step for each element; by induction over the
positions every element is kept once, at its first place (`DistinctFacts`).

*Scores.* `Reached` is what the publisher has come to: both lists of the traces it is done with, and the list of the
retrieval of the one it is at. `Counts` says that the scores are among these, are as many as were created, and are all of
them while no call has failed. Half a trace adds as many scores as it made calls, since no list has a score twice
(`AscendingExists`, `RetrievalListed`) and no two lists share one (`HalvesApart`). The publisher read the files at its start;
they are those at its end because either script writes its file in its last step (`WrittenOnce`).

*Ground truth.* What the reviewer wrote reaches a result through the dataset or the reviews, through the
copy a script read at its start, and through a result file; requests replace the dataset meanwhile, and
the reviewer edits it. `TruthInv` says of each of these places that a nonempty expectation is in
`approved`, under the question or the trace it is looked up by. `LatestIsOne` is the lemma that makes the
look-up safe: of several examples of one question exactly one counts, so that sources of two are never
merged into a set nobody approved.

*Provisioning.* That servers conflict only on a first start needs what each of them knows: one that found the
collection has nothing left to create but `version_status`, which another server may create first without
harm; a shard key that exists counts as ensured. Collection, indexes and shard keys only grow
(`StoreGrows`), so knowledge is never outdated by others. `IndexesComplete` is inductive with this: the only
server that may owe an index is the one that created the collection.

The steps of a proof follow the actions; `StepsKeep`, `SeenStep`, `StepKnowledge` and their like say once
what a step leaves alone.

Only model-checked: liveness (`VersionSettles`, `QueryEnds`, `EveryCloseIsCalled`), which the provers cannot state under
fairness. Every other property of a passing run is a theorem, some under the condition its row in the table names.

## What is not modelled

- *Formats, prompts, wording, timing, tracing*: no property is about them.
- *Parsing by Docling, embeddings, the LLM, BM25*: external; they return something or raise.
- *What the regular expressions of the PII patterns match*: the input of `Redaction`.
- *Tenants* outside of `Conversation`: documents are ingested for the default tenant only.
- *Evaluation*: averages over traces, contents of observations, prompts of the judge, reruns of the
  publisher (a second run creates every score again), and which questions are similar.
- *Start and stop*: what a constructor has opened when a later one raises; `app/dependencies/document.py`
  (a service per request, whose clients are never closed); `promote_tenant_to_dedicated_shard`, which
  nothing calls.
- *API routers, settings, migrations, UI, scripts*: translation and configuration.

## Plan

Done: DocumentLifecycle with its refinement and ten theorems; QueryWorkflow with its refinement and five
theorems, that it implements AnswerService among them; Conversation with three theorems; ContextAssembly with
Redaction and six theorems; Chunking and Ingestion with seven theorems; RetrievalMetrics and Evaluation with four theorems;
Provisioning, Experiment and Deployment with three theorems.

Next: **QueryService**, Conversation and QueryWorkflow composed, so that what the rewriter is given is what the
history holds.
