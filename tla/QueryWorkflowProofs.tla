-------------------------- MODULE QueryWorkflowProofs --------------------------
(***************************************************************************)
(* Proofs about QueryWorkflow, for any number of queries, texts and        *)
(* ingestions, and any set of dependencies that may raise; at the end, that*)
(* the query graph implements AnswerService.                               *)
(***************************************************************************)
EXTENDS QueryWorkflowRefinement, TLAPS

\* A query that has been asked has a question, and one whose key is about to be
\* built a retrieval text.
Understood ==
    \A q \in Queries : /\ node[q] # "idle" => asked[q] \in Texts
                       /\ At(q, "generation") => text[q] \in Texts

TypeInv == TypeOK /\ Understood

\* What a query may hold at which node.
BeforeAnswer == {"idle", "input_validation", "conversation_context",
                 "query_contextualization", "generation", "cache_lookup"}
AfterRetrieval == {"rerank", "retrieval_validation", "retrieval_recovery", "contextops",
                   "llm_generation"}

\* An answer on its way to the cache comes from the LLM.
WritesAnswers ==
    \A q \in Queries : node[q] \in {"grounding", "cache_store"} =>
        answer[q].kind \in {"empty", "generated"}

GroundedInv == TypeInv /\ WritesAnswers /\ CachedAnswersGrounded

\* The generations that have begun, each with a corpus that was current then.
Generations ==
    /\ Len(began) = generation
    /\ \A g \in 1 .. generation : began[g] \in Nat /\ began[g] <= corpus

KeysOfThePast ==
    /\ \A q \in Queries : key[q] # NoKey => key[q].generation <= generation
    /\ \A e \in cache : e.key.generation <= generation

NoAnswerYet == \A q \in Queries : node[q] \in BeforeAnswer => answer[q].kind = "none"

\* Evidence is younger than the key it will be stored under.
EvidenceFloor ==
    \A q \in Queries : key[q] # NoKey /\ node[q] \in AfterRetrieval =>
        evidence[q].corpus >= Floor(key[q].generation)

FloorInv == TypeInv /\ Generations /\ KeysOfThePast /\ NoAnswerYet
              /\ EvidenceFloor /\ NamespaceFloor

-----------------------------------------------------------------------------
(* Type correctness.                                                       *)

LEMMA EvidenceUpdate ==
    ASSUME TypeOK, NEW q \in Queries, NEW found \in Found,
           evidence' = [evidence EXCEPT ![q] = [found |-> found, corpus |-> corpus]]
    PROVE  evidence' \in [Queries -> Evidence]
<1>1. [found |-> found, corpus |-> corpus] \in Evidence
  BY DEF Evidence, TypeOK
<1>2. QED
  BY <1>1 DEF TypeOK

LEMMA AnswerUpdate ==
    ASSUME TypeOK, NEW q \in Queries, NEW new \in Answer,
           answer' = [answer EXCEPT ![q] = new]
    PROVE  answer' \in [Queries -> Answer]
BY DEF TypeOK

LEMMA InitType == Init => TypeInv
BY QueryAssumption DEF Init, TypeInv, TypeOK, Understood, At, Evidence, Found, Key, NoKey,
   Answer, Kinds, Plain, Entry, knowledge, request

\* The steps before retrieval, those of retrieval, and those after it.
LEMMA LookupType ==
    ASSUME TypeInv, NEW q \in Queries,
           \/ \E question \in Texts : Ask(q, question)
           \/ Admit(q) \/ LoadContext(q) \/ Contextualize(q)
           \/ ReadGeneration(q) \/ LookUp(q) \/ CachedResponse(q)
    PROVE  TypeInv'
<1> USE DEF TypeInv, TypeOK, Understood, At, Goto, Fail, Raises, request, knowledge, Nodes,
            Ended, Dependencies
<1>1. ASSUME NEW question \in Texts, Ask(q, question) PROVE TypeInv'
  BY <1>1 DEF Ask
<1>2. CASE Admit(q)
  BY <1>2 DEF Admit
<1>3. CASE LoadContext(q)
  BY <1>3 DEF LoadContext
<1>4. CASE Contextualize(q)
  BY <1>4 DEF Contextualize
<1>5. CASE ReadGeneration(q)
  <2>1. CacheKey(q) \in Key
    BY <1>5 DEF ReadGeneration, CacheKey, Key
  <2>2. key' \in [Queries -> Key \cup {NoKey}]
    BY <1>5, <2>1 DEF ReadGeneration
  <2>3. QED
    BY <1>5, <2>2 DEF ReadGeneration, WithoutCache
<1>6. CASE LookUp(q)
  BY <1>6 DEF LookUp, Hits, WithoutCache, Entry
<1>7. CASE CachedResponse(q)
  BY <1>7 DEF CachedResponse
<1>8. QED
  BY <1>1, <1>2, <1>3, <1>4, <1>5, <1>6, <1>7

LEMMA RetrievalType ==
    ASSUME TypeInv, NEW q \in Queries,
           Retrieve(q) \/ Rerank(q) \/ Validate(q) \/ Recover(q) \/ ContextOps(q)
    PROVE  TypeInv'
<1> USE DEF TypeInv, TypeOK, Understood, At, Goto, Fail, Raises, request, knowledge, Nodes,
            Ended, Dependencies
<1>1. CASE Retrieve(q)
  <2>1. {"nothing", "documents"} \subseteq Found
    BY DEF Found
  <2>2. evidence' \in [Queries -> Evidence]
    BY <1>1, <2>1, EvidenceUpdate DEF Retrieve
  <2>3. QED
    BY <1>1, <2>2 DEF Retrieve
<1>2. CASE Rerank(q)
  <2>1. ASSUME NEW f \in {"blank", "usable"}, evidence' = [evidence EXCEPT ![q].found = f]
        PROVE  evidence' \in [Queries -> Evidence]
    BY <2>1 DEF Evidence, Found
  <2>2. evidence' \in [Queries -> Evidence]
    BY <1>2, <2>1 DEF Rerank
  <2>3. QED
    BY <1>2, <2>2 DEF Rerank
<1>3. CASE Validate(q)
  BY <1>3 DEF Validate
<1>4. CASE Recover(q)
  <2>1. {"blank", "usable"} \subseteq Found
    BY DEF Found
  <2>2. evidence' \in [Queries -> Evidence]
    BY <1>4, <2>1, EvidenceUpdate DEF Recover
  <2>3. Plain("abstention") \in Answer
    BY DEF Plain, Answer, Kinds
  <2>4. answer' \in [Queries -> Answer]
    BY <1>4, <2>3, AnswerUpdate DEF Recover, Abstain
  <2>5. retries' \in [Queries -> 0 .. MaxRetries]
    <3>1. CASE retries[q] >= MaxRetries
      BY <1>4, <3>1 DEF Recover
    <3>2. CASE ~(retries[q] >= MaxRetries)
      <4>1. retries' = [retries EXCEPT ![q] = retries[q] + 1]
        BY <1>4, <3>2 DEF Recover
      <4>2. retries[q] + 1 \in 0 .. MaxRetries
        BY <3>2, QueryAssumption
      <4>3. QED
        BY <4>1, <4>2
    <3>3. QED
      BY <3>1, <3>2
  <2>6. node' \in [Queries -> Nodes \cup Ended \cup {"idle"}] /\ node'[q] # "generation"
          /\ \A p \in Queries : p # q => node'[p] = node[p]
    BY <1>4 DEF Recover, Abstain, AfterRecovery
  <2>7. QED
    BY <1>4, <2>2, <2>4, <2>5, <2>6 DEF Recover
<1>5. CASE ContextOps(q)
  BY <1>5 DEF ContextOps
<1>6. QED
  BY <1>1, <1>2, <1>3, <1>4, <1>5

LEMMA AnswerType ==
    ASSUME TypeInv, NEW q \in Queries,
           Generate(q) \/ Ground(q) \/ Store(q) \/ Respond(q)
    PROVE  TypeInv'
<1> USE DEF TypeInv, TypeOK, Understood, At, Goto, Fail, Raises, request, knowledge, Nodes,
            Ended, Dependencies
<1>1. CASE Generate(q)
  <2>1. evidence[q].corpus \in Nat
    BY DEF Evidence
  <2>2. answer' \in [Queries -> Answer]
    <3>1. ASSUME NEW kind \in {"empty", "generated"}
          PROVE  [kind |-> kind, question |-> asked[q], corpus |-> evidence[q].corpus,
                  grounded |-> FALSE] \in Answer
      BY <2>1 DEF Answer, Kinds
    <3>2. QED
      BY <1>1, <3>1, AnswerUpdate DEF Generate
  <2>3. QED
    BY <1>1, <2>2 DEF Generate
<1>2. CASE Ground(q)
  <2>1. ASSUME NEW grounded \in BOOLEAN, answer' = [answer EXCEPT ![q].grounded = grounded]
        PROVE  answer' \in [Queries -> Answer]
    BY <2>1 DEF Answer
  <2>2. answer' \in [Queries -> Answer]
    BY <1>2, <2>1 DEF Ground
  <2>3. QED
    BY <1>2, <2>2 DEF Ground
<1>3. CASE Store(q)
  BY <1>3 DEF Store, Stores, StoreKey, Entry, Key, NoKey
<1>4. CASE Respond(q)
  BY <1>4 DEF Respond
<1>5. QED
  BY <1>1, <1>2, <1>3, <1>4

LEMMA SurroundingsType ==
    ASSUME TypeInv,
           \/ \E e \in cache : Expire(e)
           \/ \E u \in Updates : Bump(u) \/ Promote(u)
    PROVE  TypeInv'
<1> USE DEF TypeInv, TypeOK, Understood, At, request, knowledge
<1>1. ASSUME NEW e \in cache, Expire(e) PROVE TypeInv'
  BY <1>1 DEF Expire
<1>2. ASSUME NEW u \in Updates, Bump(u) PROVE TypeInv'
  BY <1>2 DEF Bump
<1>3. ASSUME NEW u \in Updates, Promote(u) PROVE TypeInv'
  BY <1>3 DEF Promote
<1>4. QED
  BY <1>1, <1>2, <1>3

LEMMA NextType ==
    ASSUME TypeInv, [Next]_vars
    PROVE  TypeInv'
<1>1. CASE Next
  BY <1>1, LookupType, RetrievalType, AnswerType, SurroundingsType DEF Next, Step
<1>2. CASE UNCHANGED vars
  BY <1>2 DEF vars, request, knowledge, TypeInv, TypeOK, Understood, At
<1>3. QED
  BY <1>1, <1>2

\* Every variable of the query graph keeps its type: a query is always at a node
\* of the graph, and the recovery counter stays within its limit.
THEOREM TypeCorrect == Spec => []TypeOK
<1>1. TypeInv => TypeOK
  BY DEF TypeInv
<1>2. QED
  BY InitType, NextType, <1>1, PTL DEF Spec

-----------------------------------------------------------------------------
(* Only sufficient evidence reaches the LLM.  The statement is inductive:   *)
(* evidence changes only where a query is on its way to a validation.       *)

\* A step of query q, or of nobody, leaves the others where they are.
LEMMA OnlyOneMoves ==
    ASSUME TypeOK, NEW q \in Queries, Step(q) \/ \E question \in Texts : Ask(q, question),
           NEW p \in Queries, p # q
    PROVE  /\ node'[p] = node[p] /\ key'[p] = key[p]
           /\ evidence'[p] = evidence[p] /\ answer'[p] = answer[p]
<1> USE DEF TypeOK, Goto, Fail, request
<1>1. CASE \E question \in Texts : Ask(q, question)
  BY <1>1 DEF Ask
<1>2. CASE Admit(q) \/ LoadContext(q) \/ Contextualize(q) \/ CachedResponse(q) \/ Respond(q)
  BY <1>2 DEF Admit, LoadContext, Contextualize, CachedResponse, Respond
<1>3. CASE ReadGeneration(q) \/ LookUp(q)
  BY <1>3 DEF ReadGeneration, LookUp
<1>4. CASE Retrieve(q) \/ Rerank(q) \/ Validate(q)
  BY <1>4 DEF Retrieve, Rerank, Validate
<1>5. CASE Recover(q)
  <2>1. node'[p] = node[p]
    BY <1>5 DEF Recover, Abstain
  <2>2. evidence'[p] = evidence[p]
    BY <1>5 DEF Recover
  <2>3. answer'[p] = answer[p]
    <3>1. answer' = answer \/ answer' = [answer EXCEPT ![q] = Plain("abstention")]
      BY <1>5 DEF Recover, Abstain
    <3>2. QED
      BY <3>1
  <2>4. QED
    BY <1>5, <2>1, <2>2, <2>3 DEF Recover
<1>6. CASE ContextOps(q) \/ Generate(q) \/ Ground(q) \/ Store(q)
  BY <1>6 DEF ContextOps, Generate, Ground, Store
<1>7. QED
  BY <1>1, <1>2, <1>3, <1>4, <1>5, <1>6 DEF Step

LEMMA NextEvidence ==
    ASSUME TypeInv, EvidenceReachesLLM, [Next]_vars
    PROVE  EvidenceReachesLLM'
<1> DEFINE Generating == {"contextops", "llm_generation", "grounding", "cache_store"}
           Fine(q) == node[q] \in Generating => Sufficient(evidence[q].found)
<1> USE DEF EvidenceReachesLLM
<1>1. ASSUME NEW q \in Queries, Step(q) \/ \E question \in Texts : Ask(q, question)
      PROVE  EvidenceReachesLLM'
  <2>1. ASSUME NEW p \in Queries, p # q PROVE Fine(p)'
    BY <1>1, <2>1, OnlyOneMoves DEF TypeInv
  <2>2. Fine(q)'
    <3> USE DEF TypeInv, TypeOK, At, Goto, Fail, Raises, Ended, Dependencies, request, Sufficient
    <3>1. CASE \E question \in Texts : Ask(q, question)
      BY <3>1 DEF Ask
    <3>2. CASE Admit(q) \/ LoadContext(q) \/ Contextualize(q) \/ CachedResponse(q) \/ Respond(q)
      BY <3>2, QueryAssumption DEF Admit, LoadContext, Contextualize, CachedResponse, Respond
    <3>3. CASE ReadGeneration(q) \/ LookUp(q)
      BY <3>3 DEF ReadGeneration, LookUp, WithoutCache
    <3>4. CASE Retrieve(q) \/ Rerank(q) \/ Validate(q)
      BY <3>4, QueryAssumption DEF Retrieve, Rerank, Validate
    <3>5. CASE Recover(q)
      BY <3>5 DEF Recover, Abstain, AfterRecovery
    <3>6. CASE ContextOps(q) \/ Generate(q) \/ Ground(q) \/ Store(q)
      BY <3>6, QueryAssumption DEF ContextOps, Generate, Ground, Store
    <3>7. QED
      BY <1>1, <3>1, <3>2, <3>3, <3>4, <3>5, <3>6 DEF Step
  <2>3. QED
    BY <2>1, <2>2
<1>2. CASE (\E e \in cache : Expire(e)) \/ \E u \in Updates : Bump(u) \/ Promote(u)
  BY <1>2 DEF Expire, Bump, Promote, request
<1>3. CASE UNCHANGED vars
  BY <1>3 DEF vars, request
<1>4. QED
  BY <1>1, <1>2, <1>3 DEF Next

\* "This prevents weak evidence from reaching the LLM": for any number of queries,
\* retries and failures, an answer is generated only from sufficient evidence.
THEOREM EvidenceSufficient == Spec => []EvidenceReachesLLM
<1>1. Init => EvidenceReachesLLM
  BY DEF Init, EvidenceReachesLLM
<1>2. QED
  BY InitType, NextType, <1>1, NextEvidence, PTL DEF Spec

-----------------------------------------------------------------------------
(* Only grounded answers are served again.                                 *)

LEMMA InitGrounded == Init => GroundedInv
BY InitType DEF Init, GroundedInv, WritesAnswers, CachedAnswersGrounded, At

\* What is stored comes from the LLM, is not empty and is grounded.
LEMMA StepGrounded ==
    ASSUME GroundedInv, NEW q \in Queries,
           Step(q) \/ \E question \in Texts : Ask(q, question)
    PROVE  WritesAnswers' /\ CachedAnswersGrounded'
<1> DEFINE Fine(p) == /\ node[p] \in {"grounding", "cache_store"} =>
                            answer[p].kind \in {"empty", "generated"}
                      /\ node[p] = "cached_response" => answer[p].grounded
<1> USE DEF GroundedInv, TypeInv, TypeOK, WritesAnswers, CachedAnswersGrounded, At
<1>1. ASSUME NEW p \in Queries, p # q PROVE Fine(p)'
  BY <1>1, OnlyOneMoves
<1>2. ASSUME NEW e \in cache' PROVE e.answer.kind = "generated" /\ e.answer.grounded
  <2>1. CASE e \in cache
    BY <2>1
  <2>2. CASE e \notin cache
    <3>1. Store(q)
      BY <2>2 DEF Step, Ask, Admit, LoadContext, Contextualize, ReadGeneration, LookUp,
         CachedResponse, Retrieve, Rerank, Validate, Recover, ContextOps, Generate, Ground, Respond
    <3>2. Stores(q) /\ e = [key |-> StoreKey(q), answer |-> answer[q],
                            version |-> StoreKey(q).generation]
      BY <2>2, <3>1 DEF Store
    <3>3. answer[q].kind = "generated" /\ answer[q].grounded
      BY <3>1, <3>2 DEF Store, Stores
    <3>4. QED
      BY <3>2, <3>3
  <2>3. QED
    BY <2>1, <2>2
<1>3. Fine(q)'
  <2> USE DEF Goto, Fail, Raises, Ended, Dependencies, request
  <2>1. CASE \E question \in Texts : Ask(q, question)
    BY <2>1 DEF Ask
  <2>2. CASE Admit(q) \/ LoadContext(q) \/ Contextualize(q) \/ CachedResponse(q) \/ Respond(q)
    BY <2>2, QueryAssumption DEF Admit, LoadContext, Contextualize, CachedResponse, Respond
  <2>3. CASE ReadGeneration(q)
    BY <2>3 DEF ReadGeneration, WithoutCache
  <2>4. CASE LookUp(q)
    <3>1. ASSUME NEW e \in Hits(q), answer' = [answer EXCEPT ![q] = e.answer],
                 node' = [node EXCEPT ![q] = "cached_response"]
          PROVE  Fine(q)'
      BY <3>1 DEF Hits
    <3>2. QED
      BY <2>4, <3>1 DEF LookUp, WithoutCache
  <2>5. CASE Retrieve(q) \/ Rerank(q) \/ Validate(q)
    BY <2>5, QueryAssumption DEF Retrieve, Rerank, Validate
  <2>6. CASE Recover(q)
    <3>1. node'[q] \in {"contextops", "response"}
      BY <2>6 DEF Recover, Abstain, AfterRecovery
    <3>2. QED
      BY <3>1
  <2>7. CASE ContextOps(q) \/ Store(q)
    BY <2>7, QueryAssumption DEF ContextOps, Store
  <2>8. CASE Generate(q)
    <3>1. ASSUME NEW kind \in {"empty", "generated"},
                 answer' = [answer EXCEPT ![q] =
                              [kind |-> kind, question |-> asked[q],
                               corpus |-> evidence[q].corpus, grounded |-> FALSE]],
                 node' = [node EXCEPT ![q] = "grounding"]
          PROVE  Fine(q)'
      BY <3>1
    <3>2. QED
      BY <2>8, <3>1, QueryAssumption DEF Generate
  <2>9. CASE Ground(q)
    <3>1. ASSUME NEW grounded \in BOOLEAN, answer' = [answer EXCEPT ![q].grounded = grounded],
                 node' = [node EXCEPT ![q] = "cache_store"]
          PROVE  Fine(q)'
      BY <2>9, <3>1 DEF Ground, Answer
    <3>2. QED
      BY <2>9, <3>1 DEF Ground
  <2>10. QED
    BY <2>1, <2>2, <2>3, <2>4, <2>5, <2>6, <2>7, <2>8, <2>9 DEF Step
<1>4. QED
  BY <1>1, <1>2, <1>3

LEMMA NextGrounded ==
    ASSUME GroundedInv, [Next]_vars
    PROVE  GroundedInv'
<1>1. TypeInv'
  BY NextType DEF GroundedInv
<1>2. WritesAnswers' /\ CachedAnswersGrounded'
  <2>1. CASE \E q \in Queries : Step(q) \/ \E question \in Texts : Ask(q, question)
    BY <2>1, StepGrounded
  <2>2. CASE (\E e \in cache : Expire(e)) \/ \E u \in Updates : Bump(u) \/ Promote(u)
    BY <2>2 DEF Expire, Bump, Promote, request, GroundedInv, WritesAnswers, CachedAnswersGrounded, At
  <2>3. CASE UNCHANGED vars
    BY <2>3 DEF vars, request, GroundedInv, WritesAnswers, CachedAnswersGrounded, At
  <2>4. QED
    BY <2>1, <2>2, <2>3 DEF Next
<1>3. QED
  BY <1>1, <1>2 DEF GroundedInv

\* No abstention, empty answer or answer without a source is ever in the cache or
\* served from it, for any number of queries that store and read concurrently.
THEOREM CacheGrounded == Spec => []CachedAnswersGrounded
<1>1. GroundedInv => CachedAnswersGrounded
  BY DEF GroundedInv
<1>2. QED
  BY InitGrounded, NextGrounded, <1>1, PTL DEF Spec

-----------------------------------------------------------------------------
(* No answer of a namespace is older than the namespace.                   *)

LEMMA InitFloor == Init => FloorInv
BY InitType DEF Init, FloorInv, Generations, KeysOfThePast, NoAnswerYet, EvidenceFloor,
   NamespaceFloor, Plain, NoKey

\* Every generation that can be in a key began with a corpus of the past.
LEMMA FloorOfThePast ==
    ASSUME TypeInv, Generations, NEW g \in Nat, g <= generation
    PROVE  Floor(g) \in Nat /\ Floor(g) <= corpus
BY DEF TypeInv, TypeOK, Generations, Floor

\* What the floor says of one query.
QueryFloor(q) ==
    key[q] # NoKey =>
        /\ key[q].generation <= generation
        /\ node[q] \in AfterRetrieval => evidence[q].corpus >= Floor(key[q].generation)
        /\ answer[q].kind = "generated" => answer[q].corpus >= Floor(key[q].generation)
EntryFloor(e) ==
    /\ e.key.generation <= generation
    /\ e.answer.corpus >= Floor(e.key.generation)
NoAnswer(q) == node[q] \in BeforeAnswer => answer[q].kind = "none"

LEMMA FloorByQuery ==
    FloorInv <=> /\ TypeInv /\ Generations
                 /\ \A q \in Queries : QueryFloor(q) /\ NoAnswer(q)
                 /\ \A e \in cache : EntryFloor(e)
BY DEF FloorInv, KeysOfThePast, NoAnswerYet, EvidenceFloor, NamespaceFloor, QueryFloor,
   EntryFloor, NoAnswer

\* The steps of a query leave the knowledge base alone.
LEMMA StepKnowledge ==
    ASSUME NEW q \in Queries, Step(q) \/ \E question \in Texts : Ask(q, question)
    PROVE  UNCHANGED knowledge
BY DEF Step, Ask, Admit, LoadContext, Contextualize, ReadGeneration, LookUp, CachedResponse,
   Retrieve, Rerank, Validate, Recover, ContextOps, Generate, Ground, Store, Respond, knowledge

\* The query that takes the step.
LEMMA StepFloor ==
    ASSUME FloorInv, NEW q \in Queries, Step(q) \/ \E question \in Texts : Ask(q, question)
    PROVE  QueryFloor(q)' /\ NoAnswer(q)'
<1> USE DEF FloorInv, QueryFloor, NoAnswer, TypeInv, TypeOK, At, Goto, Fail, Raises, Ended,
            Dependencies, BeforeAnswer, AfterRetrieval, request
<1>a. \A g : Floor(g)' = Floor(g)
  BY StepKnowledge DEF Floor, knowledge
<1>b. generation' = generation
  BY StepKnowledge DEF knowledge
<1>c. QueryFloor(q) /\ NoAnswer(q)
  BY FloorByQuery
<1>1. CASE \E question \in Texts : Ask(q, question)
  BY <1>1, <1>a, <1>b, <1>c DEF Ask
<1>2. CASE Admit(q) \/ LoadContext(q) \/ Contextualize(q) \/ CachedResponse(q) \/ Respond(q)
  BY <1>2, <1>a, <1>b, <1>c, QueryAssumption
     DEF Admit, LoadContext, Contextualize, CachedResponse, Respond
<1>3. CASE ReadGeneration(q)
  <2>1. node'[q] \in {"hybrid_retrieval", "cache_lookup"} /\ answer'[q].kind = "none"
    BY <1>3, <1>c DEF ReadGeneration, WithoutCache
  <2>2. key'[q] = key[q] \/ key'[q].generation = generation
    BY <1>3 DEF ReadGeneration, CacheKey
  <2>3. generation <= generation
    OBVIOUS
  <2>4. QED
    BY <2>1, <2>2, <2>3, <1>a, <1>b, <1>c
<1>4. CASE LookUp(q)
  <2>1. ASSUME NEW e \in Hits(q), answer' = [answer EXCEPT ![q] = e.answer],
               node' = [node EXCEPT ![q] = "cached_response"], key' = key
        PROVE  QueryFloor(q)' /\ NoAnswer(q)'
    <3>1. EntryFloor(e) /\ e.key = key[q]
      BY <2>1, FloorByQuery DEF Hits
    <3>2. QED
      BY <2>1, <3>1, <1>a, <1>b, <1>c DEF EntryFloor
  <2>2. QED
    BY <1>4, <2>1, <1>a, <1>b, <1>c DEF LookUp, WithoutCache
<1>5. CASE Retrieve(q)
  <2>1. key'[q] = key[q] /\ answer'[q] = answer[q]
    BY <1>5 DEF Retrieve
  <2>2. \/ node'[q] \in Dependencies
        \/ node'[q] = "rerank" /\ evidence'[q].corpus = corpus
    <3>1. ASSUME NEW f, evidence' = [evidence EXCEPT ![q] = [found |-> f, corpus |-> corpus]]
          PROVE  evidence'[q].corpus = corpus
      BY <3>1
    <3>2. QED
      BY <1>5, <3>1 DEF Retrieve
  <2>3. key[q] # NoKey => corpus >= Floor(key[q].generation)
    BY FloorOfThePast, <1>c DEF Key
  <2>4. QED
    BY <2>1, <2>2, <2>3, <1>a, <1>b, <1>c
<1>6. CASE Rerank(q)
  <2>1. key'[q] = key[q] /\ answer'[q] = answer[q] /\ node'[q] \notin BeforeAnswer
    BY <1>6, QueryAssumption DEF Rerank
  <2>2. evidence'[q].corpus = evidence[q].corpus
    BY <1>6 DEF Rerank, Evidence
  <2>3. QED
    BY <1>6, <2>1, <2>2, <1>a, <1>b, <1>c DEF Rerank
<1>7. CASE Validate(q) \/ ContextOps(q)
  BY <1>7, <1>a, <1>b, <1>c, QueryAssumption DEF Validate, ContextOps
<1>8. CASE Recover(q)
  <2>1. key'[q] = key[q] /\ node'[q] \in {"contextops", "response"}
    BY <1>8 DEF Recover, Abstain, AfterRecovery
  <2>2. answer'[q] = answer[q] \/ answer'[q] = Plain("abstention")
    <3>1. answer' = answer \/ answer' = [answer EXCEPT ![q] = Plain("abstention")]
      BY <1>8 DEF Recover, Abstain
    <3>2. QED
      BY <3>1
  <2>3. evidence'[q] = evidence[q] \/ evidence'[q].corpus = corpus
    <3>1. ASSUME NEW f, evidence' = [evidence EXCEPT ![q] = [found |-> f, corpus |-> corpus]]
          PROVE  evidence'[q].corpus = corpus
      BY <3>1
    <3>2. QED
      BY <1>8, <3>1 DEF Recover
  <2>4. key[q] # NoKey => corpus >= Floor(key[q].generation)
    BY FloorOfThePast, <1>c DEF Key
  <2>5. QED
    BY <1>8, <2>1, <2>2, <2>3, <2>4, <1>a, <1>b, <1>c DEF Plain, Recover
<1>9. CASE Generate(q)
  <2>1. key'[q] = key[q] /\ evidence'[q] = evidence[q]
    BY <1>9 DEF Generate
  <2>2. \/ node'[q] \in Dependencies /\ answer'[q] = answer[q]
        \/ node'[q] = "grounding" /\ answer'[q].corpus = evidence[q].corpus
    BY <1>9 DEF Generate
  <2>3. QED
    BY <1>9, <2>1, <2>2, <1>a, <1>b, <1>c DEF Generate
<1>10. CASE Ground(q)
  <2>1. key'[q] = key[q] /\ node'[q] = "cache_store"
    BY <1>10 DEF Ground
  <2>2. answer'[q].corpus = answer[q].corpus /\ answer'[q].kind = answer[q].kind
    BY <1>10 DEF Ground, Answer
  <2>3. QED
    BY <2>1, <2>2, <1>a, <1>b, <1>c
<1>11. CASE Store(q)
  BY <1>11, <1>a, <1>b, <1>c DEF Store
<1>12. QED
  BY <1>1, <1>2, <1>3, <1>4, <1>5, <1>6, <1>7, <1>8, <1>9, <1>10, <1>11 DEF Step

\* A namespace that begins, begins with the corpus of the moment.
LEMMA BumpFloor ==
    ASSUME FloorInv, NEW u \in Updates, Bump(u)
    PROVE  FloorInv'
<1> USE DEF TypeInv, TypeOK, At
<1>1. TypeInv /\ Generations /\ (\A q \in Queries : QueryFloor(q) /\ NoAnswer(q))
        /\ (\A e \in cache : EntryFloor(e))
  BY FloorByQuery
<1>2. TypeInv'
  BY <1>1, SurroundingsType
<1>3. /\ generation' = generation + 1 /\ began' = Append(began, corpus)
      /\ UNCHANGED <<node, key, evidence, answer, cache, corpus>>
  BY DEF Bump, request
<1>4. Generations'
  BY <1>1, <1>3 DEF Generations
<1>5. \A g \in Nat : g <= generation => Floor(g)' = Floor(g)
  BY <1>1, <1>3 DEF Floor, Generations
<1>6. ASSUME NEW q \in Queries PROVE QueryFloor(q)' /\ NoAnswer(q)'
  <2>1. key[q] # NoKey => key[q].generation \in Nat
    BY <1>1 DEF Key
  <2>2. QED
    BY <1>1, <1>3, <1>5, <2>1 DEF QueryFloor, NoAnswer
<1>7. ASSUME NEW e \in cache PROVE EntryFloor(e)'
  <2>1. e.key.generation \in Nat
    BY <1>1 DEF Entry, Key
  <2>2. QED
    BY <1>1, <1>3, <1>5, <2>1 DEF EntryFloor
<1>8. QED
  <2>1. (\A q \in Queries : QueryFloor(q) /\ NoAnswer(q))' /\ (\A e \in cache : EntryFloor(e))'
    BY <1>3, <1>6, <1>7
  <2>2. QED
    BY <1>2, <1>4, <2>1 DEF FloorInv, KeysOfThePast, NoAnswerYet, EvidenceFloor,
       NamespaceFloor, QueryFloor, EntryFloor, NoAnswer

\* A promotion only makes the corpus newer.
LEMMA PromoteFloor ==
    ASSUME FloorInv, NEW u \in Updates, Promote(u)
    PROVE  FloorInv'
<1>1. TypeInv'
  BY SurroundingsType DEF FloorInv
<1>2. corpus' \in {corpus, corpus + 1} /\ UNCHANGED <<node, key, evidence, answer, cache,
                                                       generation, began>>
  BY DEF Promote, request
<1>3. Generations'
  BY <1>2 DEF FloorInv, TypeInv, TypeOK, Generations
<1>4. QED
  BY <1>1, <1>2, <1>3 DEF FloorInv, KeysOfThePast, NoAnswerYet, EvidenceFloor, NamespaceFloor, Floor

\* A step of a query: its own part, the parts of the others, and the cache.
LEMMA QueryStepFloor ==
    ASSUME FloorInv, GroundedInv, NEW q \in Queries, Step(q) \/ \E question \in Texts : Ask(q, question)
    PROVE  FloorInv'
<1>1. TypeInv /\ Generations /\ (\A p \in Queries : QueryFloor(p) /\ NoAnswer(p))
        /\ (\A e \in cache : EntryFloor(e))
  BY FloorByQuery
<1>2. TypeInv'
  BY <1>1, LookupType, RetrievalType, AnswerType DEF Step
<1>3. UNCHANGED <<generation, corpus, began>>
  BY StepKnowledge DEF knowledge
<1>4. Generations' /\ \A g : Floor(g)' = Floor(g)
  BY <1>1, <1>3 DEF Generations, Floor
<1>5. ASSUME NEW p \in Queries PROVE QueryFloor(p)' /\ NoAnswer(p)'
  <2>1. CASE p = q
    BY <2>1, StepFloor
  <2>2. CASE p # q
    BY <1>1, <1>3, <1>4, <2>2, OnlyOneMoves DEF QueryFloor, NoAnswer, TypeInv
  <2>3. QED
    BY <2>1, <2>2
<1>6. ASSUME NEW e \in cache' PROVE EntryFloor(e)'
  <2>1. CASE e \in cache
    BY <1>1, <1>3, <1>4, <2>1 DEF EntryFloor
  <2>2. CASE e \notin cache
    <3>1. Store(q)
      BY <2>2 DEF Step, Ask, Admit, LoadContext, Contextualize, ReadGeneration, LookUp,
         CachedResponse, Retrieve, Rerank, Validate, Recover, ContextOps, Generate, Ground, Respond
    <3>2. Stores(q) /\ e = [key |-> StoreKey(q), answer |-> answer[q],
                            version |-> StoreKey(q).generation]
      BY <2>2, <3>1 DEF Store
    <3>3. answer[q].kind = "generated"
      BY <3>1, <3>2 DEF GroundedInv, WritesAnswers, Store, Stores, At
    <3>4. QED
      BY <1>1, <1>3, <1>4, <3>2, <3>3 DEF EntryFloor, QueryFloor, Stores, StoreKey
  <2>3. QED
    BY <2>1, <2>2
<1>7. QED
  BY <1>2, <1>4, <1>5, <1>6 DEF FloorInv, KeysOfThePast, NoAnswerYet, EvidenceFloor,
     NamespaceFloor, QueryFloor, EntryFloor, NoAnswer

LEMMA NextFloor ==
    ASSUME FloorInv, GroundedInv, [Next]_vars
    PROVE  FloorInv'
<1>1. CASE \E q \in Queries : Step(q) \/ \E question \in Texts : Ask(q, question)
  BY <1>1, QueryStepFloor
<1>2. ASSUME NEW e \in cache, Expire(e) PROVE FloorInv'
  <2>1. TypeInv'
    BY <1>2, SurroundingsType DEF FloorInv
  <2>2. QED
    BY <1>2, <2>1 DEF Expire, request, knowledge, FloorInv, Generations, KeysOfThePast, NoAnswerYet,
       EvidenceFloor, NamespaceFloor, Floor
<1>3. CASE \E u \in Updates : Bump(u) \/ Promote(u)
  BY <1>3, BumpFloor, PromoteFloor
<1>4. CASE UNCHANGED vars
  <2>1. TypeInv'
    BY <1>4, NextType DEF FloorInv
  <2>2. QED
    BY <1>4, <2>1 DEF vars, request, knowledge, FloorInv, Generations, KeysOfThePast, NoAnswerYet,
       EvidenceFloor, NamespaceFloor, Floor
<1>5. QED
  BY <1>1, <1>2, <1>3, <1>4 DEF Next

\* For any number of ingestions and queries: an answer in a namespace, stored or
\* served, is never from a corpus older than the one the namespace began with.
THEOREM NamespacesFloor == Spec => []NamespaceFloor
<1>1. FloorInv => NamespaceFloor
  BY DEF FloorInv
<1>2. FloorInv /\ GroundedInv /\ [Next]_vars => FloorInv' /\ GroundedInv'
  BY NextFloor, NextGrounded
<1>3. Init => FloorInv /\ GroundedInv
  BY InitFloor, InitGrounded
<1>4. QED
  BY <1>1, <1>2, <1>3, PTL DEF Spec

-----------------------------------------------------------------------------
(* The query graph implements AnswerService.                               *)

\* A query without a lookup has no key; a key is built from the retrieval text.
BeforeKey == {"idle", "input_validation", "conversation_context",
              "query_contextualization", "generation"}

KeyOfText(q) == /\ node[q] \in BeforeKey => key[q] = NoKey
                /\ key[q] # NoKey => key[q].text = text[q]

\* An answer on its way to the cache is for the question.
AnswersQuestion(q) == node[q] \in {"grounding", "cache_store"} => answer[q].question = asked[q]

\* Some query has been given the entry's answer for the entry's text.
GivenBefore(e) ==
    \E p \in Queries : Decided(p) /\ answer[p] = e.answer /\ text[p] = e.key.text

ServiceInv == /\ GroundedInv
              /\ \A q \in Queries : KeyOfText(q) /\ AnswersQuestion(q)
              /\ \A e \in cache : GivenBefore(e)

-----------------------------------------------------------------------------
(* The invariant.                                                          *)

LEMMA InitService == Init => ServiceInv
<1> HAVE Init
<1>1. GroundedInv
  BY InitGrounded
<1>2. /\ \A q \in Queries : node[q] = "idle" /\ key[q] = NoKey
      /\ cache = {}
  BY DEF Init
<1>3. QED
  BY <1>1, <1>2 DEF ServiceInv, KeyOfText, AnswersQuestion

\* What a step of one query leaves to the others.
LEMMA OthersKeep ==
    ASSUME TypeOK, NEW q \in Queries, Step(q) \/ \E question \in Texts : Ask(q, question),
           NEW p \in Queries, p # q
    PROVE  /\ node'[p] = node[p] /\ key'[p] = key[p] /\ answer'[p] = answer[p]
           /\ asked'[p] = asked[p] /\ text'[p] = text[p]
<1>1. asked'[p] = asked[p]
  <2>1. asked' = asked \/ \E question \in Texts : asked' = [asked EXCEPT ![q] = question]
    BY DEF Step, Ask, Admit, LoadContext, Contextualize, ReadGeneration, LookUp, CachedResponse,
       Retrieve, Rerank, Validate, Recover, ContextOps, Generate, Ground, Store, Respond, request
  <2>2. QED
    BY <2>1 DEF TypeOK
<1>2. text'[p] = text[p]
  <2>1. text' = text \/ \E w : text' = [text EXCEPT ![q] = w]
    BY DEF Step, Ask, Admit, LoadContext, Contextualize, ReadGeneration, LookUp, CachedResponse,
       Retrieve, Rerank, Validate, Recover, ContextOps, Generate, Ground, Store, Respond, request
  <2>2. QED
    BY <2>1 DEF TypeOK
<1>3. QED
  BY <1>1, <1>2, OnlyOneMoves

\* A query that is answered stays answered, by the same answer.
LEMMA DecidedStays ==
    ASSUME TypeOK, NEW q \in Queries, Decided(q),
           Step(q) \/ \E question \in Texts : Ask(q, question)
    PROVE  /\ Decided(q)' /\ answer'[q] = answer[q] /\ text'[q] = text[q] /\ asked'[q] = asked[q]
           /\ cache' = cache
<1>1. CachedResponse(q) \/ Respond(q)
  BY DEF Decided, At, Step, Ask, Admit, LoadContext, Contextualize, ReadGeneration, LookUp,
     Retrieve, Rerank, Validate, Recover, ContextOps, Generate, Ground, Store
<1>2. QED
  BY <1>1 DEF CachedResponse, Respond, Decided, Goto, TypeOK, request

LEMMA GivenStays ==
    ASSUME TypeOK, NEW q \in Queries, Step(q) \/ \E question \in Texts : Ask(q, question),
           NEW e, GivenBefore(e)
    PROVE  GivenBefore(e)'
<1>1. PICK p \in Queries : Decided(p) /\ answer[p] = e.answer /\ text[p] = e.key.text
  BY DEF GivenBefore
<1>2. Decided(p)' /\ answer'[p] = answer[p] /\ text'[p] = text[p]
  BY <1>1, DecidedStays, OthersKeep DEF Decided
<1>3. QED
  BY <1>1, <1>2 DEF GivenBefore

\* The entry a step adds holds what the storing query is given.
LEMMA StoreGiven ==
    ASSUME ServiceInv, NEW q \in Queries, Store(q), NEW e \in cache', e \notin cache
    PROVE  GivenBefore(e)'
<1>1. /\ key[q] # NoKey
      /\ e = [key |-> key[q], answer |-> answer[q], version |-> key[q].generation]
  BY DEF Store, Stores, StoreKey
<1>2. node'[q] = "response" /\ answer'[q] = answer[q] /\ text'[q] = text[q]
  BY DEF Store, Goto, request, ServiceInv, GroundedInv, TypeInv, TypeOK
<1>3. key[q].text = text[q]
  BY <1>1 DEF ServiceInv, KeyOfText
<1>4. QED
  BY <1>1, <1>2, <1>3 DEF GivenBefore, Decided

LEMMA StepKey ==
    ASSUME ServiceInv, NEW q \in Queries, Step(q) \/ \E question \in Texts : Ask(q, question)
    PROVE  KeyOfText(q)'
<1> USE DEF KeyOfText, At, Goto, Fail, Raises, request, BeforeKey
<1>0. TypeOK /\ KeyOfText(q)
  BY DEF ServiceInv, GroundedInv, TypeInv
<1>1. CASE Admit(q) \/ LoadContext(q) \/ \E question \in Texts : Ask(q, question)
  BY <1>0, <1>1, QueryAssumption DEF TypeOK, Ask, Admit, LoadContext, Dependencies
<1>2. CASE Contextualize(q)
  BY <1>0, <1>2 DEF TypeOK, Contextualize
<1>3. CASE ReadGeneration(q)
  BY <1>0, <1>3 DEF TypeOK, ReadGeneration, CacheKey, WithoutCache
<1>4. CASE LookUp(q)
  BY <1>0, <1>4 DEF TypeOK, LookUp, WithoutCache
<1>5. CASE \/ CachedResponse(q) \/ Retrieve(q) \/ Rerank(q) \/ Validate(q) \/ Recover(q)
           \/ ContextOps(q) \/ Generate(q) \/ Ground(q) \/ Store(q) \/ Respond(q)
  <2>1. key' = key /\ text' = text /\ node[q] \notin BeforeKey
    BY <1>5 DEF CachedResponse, Retrieve, Rerank, Validate, Recover, ContextOps, Generate, Ground,
       Store, Respond
  <2>2. node'[q] \notin BeforeKey
    <3>1. CASE Recover(q)
      BY <1>0, <3>1 DEF Recover, TypeOK, Abstain, AfterRecovery
    <3>2. CASE ~Recover(q)
      BY <1>0, <1>5, <3>2, QueryAssumption DEF CachedResponse, Retrieve, Rerank, Validate, ContextOps,
         Generate, Ground, Store, Respond, Dependencies, TypeOK
    <3>3. QED
      BY <3>1, <3>2
  <2>3. QED
    BY <1>0, <2>1, <2>2
<1>6. QED
  BY <1>1, <1>2, <1>3, <1>4, <1>5 DEF Step

LEMMA StepQuestion ==
    ASSUME ServiceInv, NEW q \in Queries, Step(q) \/ \E question \in Texts : Ask(q, question)
    PROVE  AnswersQuestion(q)'
<1>0. TypeOK /\ AnswersQuestion(q)
  BY DEF ServiceInv, GroundedInv, TypeInv
<1>1. CASE Generate(q)
  BY <1>0, <1>1, QueryAssumption DEF Generate, AnswersQuestion, TypeOK, Goto, Fail, Raises,
     Dependencies
<1>2. CASE Ground(q)
  BY <1>0, <1>2 DEF Ground, AnswersQuestion, TypeOK, Goto, At, Answer
<1>3. CASE ~Generate(q) /\ ~Ground(q)
  <2>1. node'[q] \notin {"grounding", "cache_store"}
    <3> USE <1>0, QueryAssumption DEF TypeOK, Goto, Fail, Raises, Dependencies
    <3>1. CASE Recover(q)
      BY <3>1 DEF Recover, Abstain, AfterRecovery
    <3>2. CASE \/ Admit(q) \/ LoadContext(q) \/ Contextualize(q) \/ CachedResponse(q)
               \/ \E question \in Texts : Ask(q, question)
      BY <3>2 DEF Ask, Admit, LoadContext, Contextualize, CachedResponse
    <3>3. CASE ReadGeneration(q) \/ LookUp(q)
      BY <3>3 DEF ReadGeneration, LookUp, WithoutCache
    <3>4. CASE Retrieve(q) \/ Rerank(q) \/ Validate(q)
      BY <3>4 DEF Retrieve, Rerank, Validate
    <3>5. CASE ContextOps(q) \/ Store(q) \/ Respond(q)
      BY <3>5 DEF ContextOps, Store, Respond
    <3>6. QED
      BY <1>3, <3>1, <3>2, <3>3, <3>4, <3>5 DEF Step
  <2>2. QED
    BY <2>1 DEF AnswersQuestion
<1>4. QED
  BY <1>1, <1>2, <1>3

LEMMA NextService ==
    ASSUME ServiceInv, [Next]_vars
    PROVE  ServiceInv'
<1>1. GroundedInv' /\ TypeOK
  BY NextGrounded DEF ServiceInv, GroundedInv, TypeInv
<1>2. ASSUME NEW q \in Queries, Step(q) \/ \E question \in Texts : Ask(q, question)
      PROVE  ServiceInv'
  <2>1. ASSUME NEW p \in Queries PROVE KeyOfText(p)' /\ AnswersQuestion(p)'
    <3>1. CASE p = q
      BY <1>2, <3>1, StepKey, StepQuestion
    <3>2. CASE p # q
      BY <1>1, <1>2, <3>2, OthersKeep DEF ServiceInv, KeyOfText, AnswersQuestion
    <3>3. QED
      BY <3>1, <3>2
  <2>2. ASSUME NEW e \in cache' PROVE GivenBefore(e)'
    <3>1. CASE e \in cache
      BY <1>1, <1>2, <3>1, GivenStays DEF ServiceInv
    <3>2. CASE e \notin cache
      <4>1. Store(q)
        BY <1>2, <3>2 DEF Step, Ask, Admit, LoadContext, Contextualize, ReadGeneration, LookUp,
           CachedResponse, Retrieve, Rerank, Validate, Recover, ContextOps, Generate, Ground, Respond
      <4>2. QED
        BY <3>2, <4>1, StoreGiven
    <3>3. QED
      BY <3>1, <3>2
  <2>3. QED
    BY <1>1, <2>1, <2>2 DEF ServiceInv
<1>3. CASE (\E e \in cache : Expire(e)) \/ (\E u \in Updates : Bump(u) \/ Promote(u))
  <2>1. cache' \subseteq cache /\ UNCHANGED <<node, asked, text, key, answer>>
    BY <1>3 DEF Expire, Bump, Promote, request
  <2>2. QED
    BY <1>1, <2>1 DEF ServiceInv, KeyOfText, AnswersQuestion, GivenBefore, Decided
<1>4. CASE UNCHANGED vars
  BY <1>1, <1>4 DEF vars, request, ServiceInv, KeyOfText, AnswersQuestion, GivenBefore, Decided
<1>5. QED
  BY <1>2, <1>3, <1>4 DEF Next

-----------------------------------------------------------------------------
(* The steps of the abstract service.                                      *)

\* What a function that differs from another at one place is.
LEMMA OnePlace ==
    ASSUME NEW S, NEW f, NEW g, f = [x \in S |-> f[x]], g = [x \in S |-> g[x]],
           NEW q \in S, \A p \in S : p # q => g[p] = f[p]
    PROVE  g = [f EXCEPT ![q] = g[q]]
OBVIOUS

LEMMA Abstractions ==
    /\ Outcome = [q \in Queries |-> Outcome[q]]
    /\ Given = [q \in Queries |-> Given[q]]
    /\ Outcome' = [q \in Queries |-> Outcome'[q]]
    /\ Given' = [q \in Queries |-> Given'[q]]
BY DEF Outcome, Given

\* A query at a node of the graph whose answer may still change.
Pending(q) == node[q] \notin {"idle"} \cup Dependencies /\ ~Decided(q)

LEMMA WhatIsSeen ==
    ASSUME NEW q \in Queries
    PROVE  /\ node[q] = "idle" => Outcome[q] = "none"
           /\ node[q] \in Dependencies => Outcome[q] = "failed"
           /\ Pending(q) => Outcome[q] = "pending"
           /\ Decided(q) => Outcome[q] = IF answer[q].kind = "abstention" THEN "abstained"
                                                                          ELSE "answered"
           /\ Decided(q) => Given[q] = answer[q]
           /\ ~Decided(q) => Given[q] = Plain("none")
BY DEF Outcome, Given, Pending, Decided, Dependencies

\* A step of one query shows in its own outcome and answer only.
LEMMA OneSeen ==
    ASSUME TypeOK, NEW q \in Queries, Step(q) \/ \E question \in Texts : Ask(q, question)
    PROVE  /\ Outcome' = [Outcome EXCEPT ![q] = Outcome'[q]]
           /\ Given' = [Given EXCEPT ![q] = Given'[q]]
<1>1. ASSUME NEW p \in Queries, p # q
      PROVE  Outcome'[p] = Outcome[p] /\ Given'[p] = Given[p]
  <2>1. node'[p] = node[p] /\ answer'[p] = answer[p]
    BY <1>1, OthersKeep
  <2>2. QED
    BY <2>1 DEF Outcome, Given, Decided
<1>2. QED
  BY <1>1, Abstractions, OnePlace

\* A step after which the query's outcome, answer, question and text are the same.
LEMMA Unseen ==
    ASSUME TypeOK, NEW q \in Queries, Step(q), Pending(q), Pending(q)',
           UNCHANGED <<asked, text>>
    PROVE  UNCHANGED Service!vars
<1>1. Outcome'[q] = Outcome[q] /\ Given'[q] = Given[q]
  <2>1. Outcome'[q] = "pending"
    BY DEF Outcome, Pending, Decided
  <2>2. Given'[q] = Plain("none")
    BY DEF Given, Pending
  <2>3. QED
    BY <2>1, <2>2, WhatIsSeen DEF Pending
<1>2. Outcome' = Outcome /\ Given' = Given
  BY <1>1, OneSeen, Abstractions
<1>3. QED
  BY <1>2 DEF Service!vars

\* A dependency stops the query.
LEMMA Refused ==
    ASSUME TypeOK, NEW q \in Queries, Step(q), Pending(q), node'[q] \in Dependencies,
           UNCHANGED <<asked, text>>
    PROVE  Service!Refuse(q)
<1>1. Outcome'[q] = "failed" /\ Given'[q] = Plain("none")
  BY DEF Outcome, Given, Decided, Dependencies
<1>2. Outcome[q] = "pending" /\ Given[q] = Plain("none")
  BY WhatIsSeen DEF Pending
<1>3. Given' = Given
  BY <1>1, <1>2, OneSeen, Abstractions
<1>4. QED
  BY <1>1, <1>2, <1>3, OneSeen DEF Service!Refuse, Service!End

LEMMA AskStep ==
    ASSUME TypeOK, NEW q \in Queries, NEW question \in Texts, Ask(q, question)
    PROVE  Service!Ask(q)
<1>1. node[q] = "idle" /\ node'[q] = "input_validation" /\ text' = text
        /\ asked' = [asked EXCEPT ![q] = question]
  BY DEF Ask, At, Goto, TypeOK
<1>2. Outcome[q] = "none" /\ Given[q] = Plain("none")
  BY <1>1, WhatIsSeen DEF Decided
<1>3. Outcome'[q] = "pending" /\ Given'[q] = Plain("none")
  BY <1>1 DEF Outcome, Given, Decided, Dependencies
<1>4. Outcome' = [Outcome EXCEPT ![q] = "pending"] /\ Given' = Given
  BY <1>2, <1>3, OneSeen, Abstractions
<1>5. QED
  BY <1>1, <1>2, <1>4 DEF Service!Ask

LEMMA ContextualizeStep ==
    ASSUME TypeInv, NEW q \in Queries, Contextualize(q)
    PROVE  Service!Understand(q)
<1>1. Pending(q) /\ Pending(q)'
  BY DEF Contextualize, At, Goto, TypeInv, TypeOK, Pending, Decided, Dependencies
<1>2. Outcome[q] = "pending" /\ Outcome'[q] = "pending"
        /\ Given[q] = Plain("none") /\ Given'[q] = Plain("none")
  BY <1>1 DEF Outcome, Given, Pending, Decided
<1>3. Outcome' = Outcome /\ Given' = Given
  BY <1>2, OneSeen, Abstractions DEF Step, TypeInv
<1>4. asked[q] \in Texts
  BY DEF Contextualize, At, TypeInv, Understood
<1>5. asked' = asked /\ \E w \in Texts : text' = [text EXCEPT ![q] = w]
  BY <1>4 DEF Contextualize
<1>6. QED
  BY <1>2, <1>3, <1>5 DEF Service!Understand

\* The hit: another query has been given the answer for the same text.
LEMMA HitStep ==
    ASSUME ServiceInv, NEW q \in Queries, LookUp(q), NEW e \in Hits(q),
           answer' = [answer EXCEPT ![q] = e.answer], node'[q] = "cached_response"
    PROVE  Service!Reuse(q)
<1>0. TypeOK
  BY DEF ServiceInv, GroundedInv, TypeInv
<1>1. node[q] = "cache_lookup" /\ UNCHANGED <<asked, text>>
  BY DEF LookUp, At
<1>2. e \in cache /\ e.key = key[q] /\ key[q] # NoKey
  <2>1. e \in cache /\ e.key = key[q]
    BY DEF Hits
  <2>2. e.key.text \in Texts
    BY <1>0, <2>1 DEF TypeOK, Entry, Key
  <2>3. QED
    BY <2>1, <2>2, QueryAssumption DEF NoKey
<1>3. e.key.text = text[q]
  BY <1>2 DEF ServiceInv, KeyOfText
<1>4. PICK p \in Queries : Decided(p) /\ answer[p] = e.answer /\ text[p] = e.key.text
  BY <1>2 DEF ServiceInv, GivenBefore
<1>5. e.answer.kind = "generated" /\ e.answer.grounded
  BY <1>2 DEF ServiceInv, GroundedInv, CachedAnswersGrounded
<1>6. Outcome[p] = "answered" /\ Given[p] = e.answer
  BY <1>4, <1>5, WhatIsSeen
<1>7. Outcome[q] = "pending"
  BY <1>1, WhatIsSeen DEF Pending, Decided, Dependencies
<1>8. answer'[q] = e.answer
  BY <1>0 DEF TypeOK
<1>9. Outcome'[q] = "answered" /\ Given'[q] = e.answer
  BY <1>5, <1>8 DEF Outcome, Given, Decided, Dependencies
<1>10. Outcome' = [Outcome EXCEPT ![q] = "answered"] /\ Given' = [Given EXCEPT ![q] = Given[p]]
  BY <1>0, <1>6, <1>9, OneSeen DEF Step
<1>11. Given[p].grounded /\ text[p] = text[q]
  BY <1>3, <1>4, <1>5, <1>6
<1>12. QED
  BY <1>1, <1>6, <1>7, <1>10, <1>11 DEF Service!Reuse, Service!End

LEMMA LookUpStep ==
    ASSUME ServiceInv, NEW q \in Queries, LookUp(q)
    PROVE  Service!Reuse(q) \/ UNCHANGED Service!vars
<1>0. TypeOK
  BY DEF ServiceInv, GroundedInv, TypeInv
<1>1. CASE \E e \in Hits(q) : answer' = [answer EXCEPT ![q] = e.answer] /\ node'[q] = "cached_response"
  BY <1>1, HitStep
<1>2. CASE node'[q] = "hybrid_retrieval"
  <2>1. Pending(q) /\ Pending(q)' /\ UNCHANGED <<asked, text>>
    BY <1>2 DEF LookUp, At, Pending, Decided, Dependencies
  <2>2. QED
    BY <1>0, <2>1, Unseen DEF Step
<1>3. QED
  BY <1>0, <1>1, <1>2 DEF LookUp, Goto, WithoutCache, TypeOK

LEMMA RecoverStep ==
    ASSUME TypeOK, NEW q \in Queries, Recover(q)
    PROVE  Service!Abstain(q) \/ UNCHANGED Service!vars
<1>1. Pending(q) /\ UNCHANGED <<asked, text>>
  BY DEF Recover, At, Pending, Decided, Dependencies
<1>2. CASE node'[q] = "contextops"
  <2>1. Pending(q)'
    BY <1>2 DEF Pending, Decided, Dependencies
  <2>2. QED
    BY <1>1, <2>1, Unseen DEF Step
<1>3. CASE Abstain(q)
  <2>1. node'[q] = "response" /\ answer'[q] = Plain("abstention")
    BY <1>3 DEF Abstain, AfterRecovery, Goto, TypeOK
  <2>2. Outcome'[q] = "abstained"
    BY <2>1 DEF Outcome, Decided, Dependencies, Plain
  <2>3. Outcome[q] = "pending"
    BY <1>1, WhatIsSeen
  <2>4. Outcome' = [Outcome EXCEPT ![q] = "abstained"] /\ Given' = [Given EXCEPT ![q] = Given'[q]]
    BY <2>2, OneSeen DEF Step
  <2>5. QED
    BY <1>1, <2>3, <2>4 DEF Service!Abstain, Service!End, Service!GivesOnly
<1>4. QED
  BY <1>2, <1>3 DEF Recover, AfterRecovery, Goto, TypeOK

LEMMA StoreStep ==
    ASSUME ServiceInv, NEW q \in Queries, Store(q)
    PROVE  Service!Generate(q)
<1>0. TypeOK
  BY DEF ServiceInv, GroundedInv, TypeInv
<1>1. /\ node[q] = "cache_store" /\ node'[q] = "response"
      /\ UNCHANGED <<asked, text>> /\ answer'[q] = answer[q]
  BY <1>0 DEF Store, At, Goto, TypeOK, request
<1>2. answer[q].question = asked[q] /\ answer[q].kind \in {"empty", "generated"}
  BY <1>1 DEF ServiceInv, AnswersQuestion, GroundedInv, WritesAnswers
<1>3. Outcome[q] = "pending"
  BY <1>1, WhatIsSeen DEF Pending, Decided, Dependencies
<1>4. Outcome'[q] = "answered" /\ Given'[q] = answer[q]
  BY <1>1, <1>2 DEF Outcome, Given, Decided, Dependencies
<1>5. Outcome' = [Outcome EXCEPT ![q] = "answered"] /\ Given' = [Given EXCEPT ![q] = Given'[q]]
  BY <1>0, <1>4, OneSeen DEF Step
<1>6. QED
  BY <1>1, <1>2, <1>3, <1>4, <1>5 DEF Service!Generate, Service!End, Service!GivesOnly

\* The other nodes before the write-back: the query goes on, or a dependency stops it.
LEMMA GoOnStep ==
    ASSUME TypeOK, NEW q \in Queries,
           \/ Admit(q) \/ LoadContext(q) \/ ReadGeneration(q) \/ Retrieve(q) \/ Rerank(q)
           \/ Validate(q) \/ ContextOps(q) \/ Generate(q) \/ Ground(q)
    PROVE  Service!Refuse(q) \/ UNCHANGED Service!vars
<1>1. Pending(q) /\ UNCHANGED <<asked, text>>
  BY DEF Admit, LoadContext, ReadGeneration, Retrieve, Rerank, Validate, ContextOps, Generate, Ground,
     At, Pending, Decided, Dependencies, request
<1>2. node'[q] \in Dependencies \/ Pending(q)'
  <2> USE QueryAssumption DEF TypeOK, Goto, Fail, Raises, Pending, Decided, Dependencies
  <2>1. CASE Admit(q) \/ LoadContext(q) \/ ReadGeneration(q)
    BY <2>1 DEF Admit, LoadContext, ReadGeneration, WithoutCache
  <2>2. CASE Retrieve(q) \/ Rerank(q) \/ Validate(q)
    BY <2>2 DEF Retrieve, Rerank, Validate
  <2>3. CASE ContextOps(q) \/ Generate(q) \/ Ground(q)
    BY <2>3 DEF ContextOps, Generate, Ground
  <2>4. QED
    BY <2>1, <2>2, <2>3
<1>3. QED
  BY <1>1, <1>2, Unseen, Refused DEF Step

\* What has been answered is only delivered.
LEMMA DeliverStep ==
    ASSUME TypeOK, NEW q \in Queries, CachedResponse(q) \/ Respond(q)
    PROVE  UNCHANGED Service!vars
<1>1. Decided(q) /\ Decided(q)' /\ UNCHANGED <<asked, text, answer>>
  BY DEF CachedResponse, Respond, At, Goto, Decided, TypeOK, request
<1>2. Outcome'[q] = Outcome[q] /\ Given'[q] = Given[q]
  BY <1>1 DEF Outcome, Given, Decided, Dependencies
<1>3. Outcome' = Outcome /\ Given' = Given
  BY <1>2, OneSeen, Abstractions DEF Step
<1>4. QED
  BY <1>1, <1>3 DEF Service!vars

-----------------------------------------------------------------------------
(* The refinement.                                                         *)

LEMMA InitRefines == Init => Service!Init
<1> HAVE Init
<1>1. \A q \in Queries : node[q] = "idle"
  BY DEF Init
<1>2. Outcome = [q \in Queries |-> "none"] /\ Given = [q \in Queries |-> Plain("none")]
  BY <1>1 DEF Outcome, Given, Decided
<1>3. asked = [q \in Queries |-> None] /\ text = [q \in Queries |-> None]
  BY DEF Init
<1>4. QED
  BY <1>2, <1>3 DEF Service!Init

LEMMA NextRefines ==
    ASSUME ServiceInv, [Next]_vars
    PROVE  [Service!Next]_(Service!vars)
<1>0. TypeInv /\ TypeOK
  BY DEF ServiceInv, GroundedInv, TypeInv
<1>1. ASSUME NEW q \in Queries, Step(q) \/ \E question \in Texts : Ask(q, question)
      PROVE  Service!Next \/ UNCHANGED Service!vars
  <2>1. \/ Service!Ask(q) \/ Service!Understand(q) \/ Service!Generate(q) \/ Service!Reuse(q)
        \/ Service!Abstain(q) \/ Service!Refuse(q) \/ UNCHANGED Service!vars
    BY <1>0, <1>1, AskStep, ContextualizeStep, LookUpStep, RecoverStep, StoreStep, GoOnStep,
       DeliverStep DEF Step
  <2>2. QED
    BY <2>1 DEF Service!Next
<1>2. CASE (\E e \in cache : Expire(e)) \/ (\E u \in Updates : Bump(u) \/ Promote(u))
  <2>1. UNCHANGED <<node, asked, text, answer>>
    BY <1>2 DEF Expire, Bump, Promote, request
  <2>2. QED
    BY <2>1 DEF Service!vars, Outcome, Given, Decided
<1>3. CASE UNCHANGED vars
  BY <1>3 DEF vars, request, Service!vars, Outcome, Given, Decided
<1>4. QED
  BY <1>1, <1>2, <1>3 DEF Next

\* Caching does not change what ask promises: for any number of queries, retries,
\* ingestions and failures, what a query is given was generated for its question, or
\* has been given, grounded, to a query with the same retrieval text, or is an
\* abstention; and it is given once.
THEOREM ImplementsService == Spec => ImplementsAnswerService
<1>1. Init => ServiceInv /\ Service!Init
  BY InitService, InitRefines
<1>2. ServiceInv /\ [Next]_vars => ServiceInv' /\ [Service!Next]_(Service!vars)
  BY NextService, NextRefines
<1>3. QED
  BY <1>1, <1>2, PTL DEF Spec, ImplementsAnswerService, Service!Spec
================================================================================
