----------------------------- MODULE QueryWorkflow -----------------------------
(***************************************************************************)
(* The query graph (rag/workflow/graph.py), one action per node, with the  *)
(* Redis answer cache and the generation counter that names its            *)
(* namespaces.  Queries run concurrently with each other and with the      *)
(* ingestions that move the counter and then the corpus.                   *)
(*                                                                         *)
(* A text stands for a retrieval query together with the filters of the    *)
(* request; everything happens within one tenant.  The corpus is its       *)
(* revision, the number of promotions that have taken effect.              *)
(***************************************************************************)
EXTENDS Naturals, Sequences

CONSTANTS
    Queries,       \* calls of QueryService.ask
    Texts,         \* questions, and what a rewriter can make of them
    Updates,       \* ingestions that reach the promotion
    None,          \* Python None
    Unreliable,    \* the dependencies that may raise, see Dependencies
    MaxRetries     \* max_retries of the retrieval recovery node

\* The rewriter is not among them: what it raises is caught where it is called.
Dependencies == {"guard", "memory", "cache", "retriever", "reranker", "embedding", "llm"}

ASSUME QueryAssumption ==
    /\ None \notin Texts
    /\ Unreliable \subseteq Dependencies
    /\ MaxRetries \in Nat

VARIABLES
    node,         \* the node each query runs next
    asked,        \* state["query"]
    text,         \* state["contextualized_query"]
    summary,      \* whether the conversation has a summary
    key,          \* state["cache_key"] with the generation it was built from
    evidence,     \* state["reranked_documents"]: what was found, in which corpus
    answer,       \* state["answer"] and state["grounding_status"]
    retries,      \* state["retry_count"]
    cache,        \* the unexpired entries in Redis
    generation,   \* the knowledge-base generation in Redis
    corpus,       \* the revision of the corpus retrieval sees
    update,       \* how far each ingestion has come
    began         \* history: the corpus when each generation began

request   == <<asked, text, summary, key, evidence, answer, retries>>
knowledge == <<generation, corpus, update, began>>
vars      == <<node, request, cache, knowledge>>

-----------------------------------------------------------------------------
Nodes == {"input_validation", "conversation_context", "query_contextualization",
          "generation", "cache_lookup", "cached_response", "hybrid_retrieval", "rerank",
          "retrieval_validation", "retrieval_recovery", "contextops", "llm_generation",
          "grounding", "cache_store", "response"}
Ended == {"done"} \cup Dependencies   \* answered, or stopped by what a dependency raised

Found    == {"nothing", "documents", "blank", "usable"}
Evidence == [found : Found, corpus : Nat]
Key      == [text : Texts, generation : Nat]
NoKey    == [text |-> None, generation |-> 0]
\* An answer is identified by the question it was generated for and by the
\* corpus its evidence is from.  Being grounded belongs to the answer: a cached one
\* keeps it, although the state of the query it is served to has no status.
Kinds    == {"none", "abstention", "empty", "generated"}
Answer   == [kind : Kinds, question : Texts \cup {None}, corpus : Nat, grounded : BOOLEAN]
Plain(kind) == [kind |-> kind, question |-> None, corpus |-> 0, grounded |-> FALSE]
\* The payload of an entry repeats the generation.
Entry    == [key : Key, answer : Answer, version : Nat]

Raises(dependency) == dependency \in Unreliable

Init ==
    /\ node = [q \in Queries |-> "idle"]
    /\ asked = [q \in Queries |-> None]
    /\ text = [q \in Queries |-> None]
    /\ summary = [q \in Queries |-> FALSE]
    /\ key = [q \in Queries |-> NoKey]
    /\ evidence = [q \in Queries |-> [found |-> "nothing", corpus |-> 0]]
    /\ answer = [q \in Queries |-> Plain("none")]
    /\ retries = [q \in Queries |-> 0]
    /\ cache = {}
    /\ generation = 0
    /\ corpus = 0
    /\ update = [u \in Updates |-> "ingesting"]
    /\ began = <<>>

At(q, n)   == node[q] = n
Goto(q, n) == node' = [node EXCEPT ![q] = n]

\* ainvoke raises what a node raises.
Fail(q, dependency) == Raises(dependency) /\ Goto(q, dependency)

-----------------------------------------------------------------------------
(* From the question to the cache.                                         *)

Ask(q, question) ==
    /\ At(q, "idle")
    /\ asked' = [asked EXCEPT ![q] = question]
    /\ Goto(q, "input_validation")
    /\ UNCHANGED <<text, summary, key, evidence, answer, retries, cache, knowledge>>

\* Input validation and the security guardrails: pass or raise.
Admit(q) ==
    /\ At(q, "input_validation")
    /\ Fail(q, "guard") \/ Goto(q, "conversation_context")
    /\ UNCHANGED <<request, cache, knowledge>>

LoadContext(q) ==
    /\ At(q, "conversation_context")
    /\ \/ Fail(q, "memory") /\ UNCHANGED summary
       \/ /\ \E s \in BOOLEAN : summary' = [summary EXCEPT ![q] = s]
          /\ Goto(q, "query_contextualization")
    /\ UNCHANGED <<asked, text, key, evidence, answer, retries, cache, knowledge>>

\* Without a summary, or when the rewriter fails or returns blanks, the
\* question itself is the retrieval query.
Contextualize(q) ==
    /\ At(q, "query_contextualization")
    /\ \E w \in IF summary[q] THEN Texts ELSE {asked[q]} : text' = [text EXCEPT ![q] = w]
    /\ Goto(q, "generation")
    /\ UNCHANGED <<asked, summary, key, evidence, answer, retries, cache, knowledge>>

CacheKey(q) == [text |-> text[q], generation |-> generation]

\* Faulty variant: the lookup node lets the error of the cache through.
CacheErrorRaises == "cache"

WithoutCache == "hybrid_retrieval"

\* The first call of the lookup node; a failing cache is a miss that will not
\* be stored either.
ReadGeneration(q) ==
    /\ At(q, "generation")
    /\ \/ Raises("cache") /\ Goto(q, WithoutCache) /\ UNCHANGED key
       \/ /\ key' = [key EXCEPT ![q] = CacheKey(q)]
          /\ Goto(q, "cache_lookup")
    /\ UNCHANGED <<asked, text, summary, evidence, answer, retries, cache, knowledge>>

Hits(q) == {e \in cache : e.key = key[q] /\ e.version = key[q].generation}

LookUp(q) ==
    /\ At(q, "cache_lookup")
    /\ \/ /\ Raises("cache")
          /\ key' = [key EXCEPT ![q] = NoKey]
          /\ Goto(q, WithoutCache)
          /\ UNCHANGED answer
       \/ \E e \in Hits(q) : /\ answer' = [answer EXCEPT ![q] = e.answer]
                             /\ Goto(q, "cached_response")
                             /\ UNCHANGED key
       \/ Hits(q) = {} /\ Goto(q, "hybrid_retrieval") /\ UNCHANGED <<key, answer>>
    /\ UNCHANGED <<asked, text, summary, evidence, retries, cache, knowledge>>

CachedResponse(q) ==
    /\ At(q, "cached_response")
    /\ Goto(q, "response")
    /\ UNCHANGED <<request, cache, knowledge>>

-----------------------------------------------------------------------------
(* Retrieval.                                                              *)

Retrieve(q) ==
    /\ At(q, "hybrid_retrieval")
    /\ \/ Fail(q, "retriever") /\ UNCHANGED evidence
       \/ /\ \E found \in {"nothing", "documents"} :
                evidence' = [evidence EXCEPT ![q] = [found |-> found, corpus |-> corpus]]
          /\ Goto(q, "rerank")
    /\ UNCHANGED <<asked, text, summary, key, answer, retries, cache, knowledge>>

\* The reranker is not called without candidates.
Rerank(q) ==
    /\ At(q, "rerank")
    /\ IF evidence[q].found = "nothing"
         THEN Goto(q, "retrieval_validation") /\ UNCHANGED evidence
         ELSE \/ Fail(q, "reranker") /\ UNCHANGED evidence
              \/ /\ \E found \in {"blank", "usable"} :
                       evidence' = [evidence EXCEPT ![q].found = found]
                 /\ Goto(q, "retrieval_validation")
    /\ UNCHANGED <<asked, text, summary, key, answer, retries, cache, knowledge>>

\* BaselineRetrievalValidator: one document with content suffices.
Sufficient(found) == found = "usable"

Validate(q) ==
    /\ At(q, "retrieval_validation")
    /\ Goto(q, IF Sufficient(evidence[q].found) THEN "contextops" ELSE "retrieval_recovery")
    /\ UNCHANGED <<request, cache, knowledge>>

\* Faulty variants: what recovery found is good enough; the route leads to a node the
\* graph does not have.
AlwaysGenerate(recovered) == "contextops"
NoSuchNode(recovered) == IF recovered THEN "contextops" ELSE "abstention"

AfterRecovery(recovered) == IF recovered THEN "contextops" ELSE "response"

\* An abstention also clears the citations.  The answer of a failed recovery
\* keeps what an earlier retrieval found.
Abstain(q) ==
    /\ answer' = [answer EXCEPT ![q] = Plain("abstention")]
    /\ Goto(q, AfterRecovery(FALSE))

\* The broader retrieval, reranking and validation of the recovery node: what it
\* raises, and insufficient evidence, end in an abstention.
Recover(q) ==
    /\ At(q, "retrieval_recovery")
    /\ IF retries[q] >= MaxRetries
         THEN Abstain(q) /\ UNCHANGED <<evidence, retries>>
         ELSE /\ retries' = [retries EXCEPT ![q] = @ + 1]
              /\ \/ /\ \E d \in {"retriever", "reranker"} : Raises(d)
                    /\ Abstain(q) /\ UNCHANGED evidence
                 \/ Abstain(q) /\ UNCHANGED evidence
                 \/ \E found \in {"blank", "usable"} :
                      /\ evidence' = [evidence EXCEPT ![q] = [found |-> found, corpus |-> corpus]]
                      /\ IF Sufficient(found)
                           THEN Goto(q, AfterRecovery(TRUE)) /\ UNCHANGED answer
                           ELSE Abstain(q)
    /\ UNCHANGED <<asked, text, summary, key, cache, knowledge>>

-----------------------------------------------------------------------------
(* Generation and write-back.                                              *)

ContextOps(q) ==
    /\ At(q, "contextops")
    /\ Fail(q, "embedding") \/ Goto(q, "llm_generation")
    /\ UNCHANGED <<request, cache, knowledge>>

\* The LLM is given the question, not the retrieval query, and the context.
Generate(q) ==
    /\ At(q, "llm_generation")
    /\ \/ Fail(q, "llm") /\ UNCHANGED answer
       \/ /\ \E kind \in {"empty", "generated"} :
                answer' = [answer EXCEPT ![q] =
                             [kind |-> kind, question |-> asked[q],
                              corpus |-> evidence[q].corpus, grounded |-> FALSE]]
          /\ Goto(q, "grounding")
    /\ UNCHANGED <<asked, text, summary, key, evidence, retries, cache, knowledge>>

\* An empty answer is never grounded; another is if it cites a source.
Ground(q) ==
    /\ At(q, "grounding")
    /\ \E grounded \in IF answer[q].kind = "generated" THEN BOOLEAN ELSE {FALSE} :
          answer' = [answer EXCEPT ![q].grounded = grounded]
    /\ Goto(q, "cache_store")
    /\ UNCHANGED <<asked, text, summary, key, evidence, retries, cache, knowledge>>

\* Faulty variants: every answer is stored; it is stored under the generation
\* of the moment; it is stored under a key built from the question.
StoresAnyAnswer(q) == key[q] # NoKey /\ answer[q].kind = "generated"
CurrentKey(q) == CacheKey(q)
QuestionKey(q) == [key[q] EXCEPT !.text = asked[q]]

Stores(q) == key[q] # NoKey /\ answer[q].kind # "empty" /\ answer[q].grounded
StoreKey(q) == key[q]

Store(q) ==
    /\ At(q, "cache_store")
    /\ \/ (Stores(q) => Raises("cache")) /\ UNCHANGED cache
       \/ /\ Stores(q)
          /\ cache' = {e \in cache : e.key # StoreKey(q)}
                        \cup {[key |-> StoreKey(q), answer |-> answer[q],
                               version |-> StoreKey(q).generation]}
    /\ Goto(q, "response")
    /\ UNCHANGED <<request, knowledge>>

Respond(q) ==
    /\ At(q, "response")
    /\ Goto(q, "done")
    /\ UNCHANGED <<request, cache, knowledge>>

-----------------------------------------------------------------------------
(* What happens around the queries.                                        *)

\* The ttl of an entry runs out.
Expire(e) ==
    /\ cache' = cache \ {e}
    /\ UNCHANGED <<node, request, knowledge>>

\* "Invalidate Redis before exposing the new version", and then promote it.
Bump(u) ==
    /\ update[u] = "ingesting"
    /\ generation' = generation + 1
    /\ began' = Append(began, corpus)
    /\ update' = [update EXCEPT ![u] = "promoting"]
    /\ UNCHANGED <<node, request, cache, corpus>>

\* The promotion can also fail without an effect.
Promote(u) ==
    /\ update[u] = "promoting"
    /\ corpus' \in {corpus, corpus + 1}
    /\ update' = [update EXCEPT ![u] = "ended"]
    /\ UNCHANGED <<node, request, cache, generation, began>>

Step(q) ==
    \/ Admit(q) \/ LoadContext(q) \/ Contextualize(q) \/ ReadGeneration(q) \/ LookUp(q)
    \/ CachedResponse(q) \/ Retrieve(q) \/ Rerank(q) \/ Validate(q) \/ Recover(q)
    \/ ContextOps(q) \/ Generate(q) \/ Ground(q) \/ Store(q) \/ Respond(q)

Next ==
    \/ \E q \in Queries : Step(q) \/ \E question \in Texts : Ask(q, question)
    \/ \E e \in cache : Expire(e)
    \/ \E u \in Updates : Bump(u) \/ Promote(u)

Spec == Init /\ [][Next]_vars

\* The event loop resumes every query whose call has returned.
FairSpec == Spec /\ \A q \in Queries : WF_vars(Step(q))

-----------------------------------------------------------------------------
(* Properties.                                                             *)

TypeOK ==
    /\ node \in [Queries -> Nodes \cup Ended \cup {"idle"}]
    /\ asked \in [Queries -> Texts \cup {None}]
    /\ text \in [Queries -> Texts \cup {None}]
    /\ summary \in [Queries -> BOOLEAN]
    /\ key \in [Queries -> Key \cup {NoKey}]
    /\ evidence \in [Queries -> Evidence]
    /\ answer \in [Queries -> Answer]
    /\ retries \in [Queries -> 0 .. MaxRetries]
    /\ cache \subseteq Entry
    /\ generation \in Nat
    /\ corpus \in Nat
    /\ update \in [Updates -> {"ingesting", "promoting", "ended"}]
    /\ began \in Seq(Nat)

\* "This prevents weak evidence from reaching the LLM" (rag/workflow/edges.py):
\* whatever retrieval, recovery and the cache have done before, an answer is
\* generated only from documents the validator found sufficient.
EvidenceReachesLLM ==
    \A q \in Queries : node[q] \in {"contextops", "llm_generation", "grounding", "cache_store"} =>
        Sufficient(evidence[q].found)

\* Only grounded answers are served again: no abstention, no empty answer and no
\* answer without a source gets into the cache, and so into other queries.
CachedAnswersGrounded ==
    /\ \A e \in cache : e.answer.kind = "generated" /\ e.answer.grounded
    /\ \A q \in Queries : At(q, "cached_response") => answer[q].grounded

\* The corpus when generation g began.
Floor(g) == IF g = 0 THEN 0 ELSE began[g]

\* A generation is read before the corpus is: no answer in a namespace, stored or
\* served, is from a corpus older than the one the namespace began with,
\* however many generations begin between the lookup and the store.
NamespaceFloor ==
    /\ \A e \in cache : e.answer.corpus >= Floor(e.key.generation)
    /\ \A q \in Queries : key[q] # NoKey /\ answer[q].kind = "generated" =>
          answer[q].corpus >= Floor(key[q].generation)

\* Every query that has been asked is answered or stopped by what a dependency has
\* raised, after a bounded number of recoveries, and never by the cache: "Cache is
\* an optimization and must never be a correctness dependency"
\* (services/cache_provider.py).
QueryEnds ==
    \A q \in Queries : node[q] # "idle" ~> \/ At(q, "done") /\ answer[q].kind # "none"
                                          \/ node[q] \in Dependencies \ {"cache"}

\* The cache key "includes all inputs that can change the generated answer"
\* (services/cache_key.py): an answer served from the cache was generated for
\* the question that is asked.
HitAnswersQuestion ==
    \A q \in Queries : At(q, "cached_response") => answer[q].question = asked[q]
================================================================================
