--------------------------- MODULE ProvisioningProofs --------------------------
(***************************************************************************)
(* For any number of servers, starts, faults and crashes: who serves finds *)
(* the vector store provisioned, starts conflict only when both found no   *)
(* collection, and indexes are only missing after an interrupted start.    *)
(***************************************************************************)
EXTENDS Provisioning, TLAPS

-----------------------------------------------------------------------------
(* The inductive invariant: what a server knows at each step of its start. *)

FieldSet == ToSet(Fields)

Past == {"list", "shard", "compose", "serving", "closing"}

Types ==
    /\ TypeOK
    /\ todo \in [Servers -> Seq(FieldSet)]

\* What p has still to create goes on from what it found.
KnowsTodo(p) ==
    /\ step[p] \in {"check", "create", "index"} => pass[p] = 1
    /\ step[p] = "create" => todo[p] = Fields /\ ~saw[p]
    /\ step[p] = "index" => /\ collection
                            /\ "version_status" \in indexes \cup ToSet(todo[p])
                            /\ saw[p] => ToSet(todo[p]) \subseteq Tolerant

\* What p has ensured stays.
KnowsStore(p) ==
    /\ step[p] \in Past => collection /\ "version_status" \in indexes
    /\ step[p] \in Past /\ pass[p] = 2 => Default \in shards
    /\ step[p] \in {"compose", "serving", "closing"} => pass[p] = 2

Conflict(p) ==
    /\ cause[p] = "conflict" => collection /\ ~saw[p]
    /\ step[p] = "check" => cause[p] # "conflict"

ProvisioningInv ==
    /\ Types
    /\ \A p \in Servers : KnowsTodo(p) /\ KnowsStore(p) /\ Conflict(p)
    /\ IndexesComplete

-----------------------------------------------------------------------------
(* Lemmas on the sequence of indexes.                                      *)

LEMMA HeadAndRest ==
    ASSUME NEW S, NEW s \in Seq(S), s # <<>>
    PROVE  /\ Head(s) \in S /\ Tail(s) \in Seq(S)
           /\ ToSet(s) = {Head(s)} \cup ToSet(Tail(s))
<1>1. \A i \in DOMAIN s : i = 1 \/ (i - 1 \in DOMAIN Tail(s) /\ s[i] = Tail(s)[i - 1])
  OBVIOUS
<1>2. \A i \in DOMAIN Tail(s) : i + 1 \in DOMAIN s /\ Tail(s)[i] = s[i + 1]
  OBVIOUS
<1>3. 1 \in DOMAIN s /\ Head(s) = s[1]
  OBVIOUS
<1>4. ToSet(s) \subseteq {Head(s)} \cup ToSet(Tail(s))
  BY <1>1, <1>3 DEF ToSet
<1>5. {Head(s)} \cup ToSet(Tail(s)) \subseteq ToSet(s)
  BY <1>2, <1>3 DEF ToSet
<1> QED BY <1>4, <1>5

LEMMA NothingLeft == ToSet(<<>>) = {}
BY DEF ToSet

LEMMA FieldsAreFields ==
    /\ Fields \in Seq(FieldSet)
    /\ <<"version_status">> \in Seq(FieldSet)
    /\ "version_status" \in FieldSet
    /\ ToSet(<<"version_status">>) = {"version_status"}
    /\ "version_status" \in Tolerant
<1>1. FieldSet = {"tenant_id", "document_id", "document_version_id", "categories", "tags",
                  "content_type", "version_status"}
  BY DEF FieldSet, Fields, ToSet
<1>2. Fields \in Seq({"tenant_id", "document_id", "document_version_id", "categories", "tags",
                      "content_type", "version_status"})
  BY DEF Fields
<1>3. "version_status" \in FieldSet
  BY <1>1
<1>4. <<"version_status">> \in Seq(FieldSet)
  BY <1>3
<1>5. ToSet(<<"version_status">>) = {"version_status"}
  BY DEF ToSet
<1> QED BY <1>1, <1>2, <1>3, <1>4, <1>5 DEF Tolerant

-----------------------------------------------------------------------------
LEMMA InitProvisioned == Init => ProvisioningInv
<1> SUFFICES ASSUME Init PROVE ProvisioningInv
  OBVIOUS
<1>1. todo \in [Servers -> Seq(FieldSet)]
  BY DEF Init
<1>2. cause \in [Servers -> {None, "conflict", "fault", "crash", "stopped"}]
  BY DEF Init
<1>3. TypeOK
  BY <1>2 DEF Init, TypeOK, Starting
<1>4. ASSUME NEW p \in Servers PROVE KnowsTodo(p) /\ KnowsStore(p) /\ Conflict(p)
  BY ProvisioningAssumption DEF Init, KnowsTodo, KnowsStore, Conflict, Past
<1> QED BY <1>1, <1>3, <1>4 DEF ProvisioningInv, Types, IndexesComplete, Init

\* Types.
LEMMA TypesStep == ProvisioningInv /\ [Next]_vars => Types'
<1> SUFFICES ASSUME ProvisioningInv, [Next]_vars PROVE Types'
  OBVIOUS
<1> USE DEF ProvisioningInv, Types, TypeOK, Starting, At, Goto
<1>1. CASE UNCHANGED vars
  BY <1>1 DEF vars, qdrant, process, counts
<1>2. ASSUME NEW p \in Servers, Start(p) \/ Stop(p) \/ Crash(p) PROVE Types'
  BY <1>2 DEF Start, Stop, Crash, qdrant, counts
<1>3. ASSUME NEW p \in Servers, Check(p) PROVE Types'
  BY <1>3, FieldsAreFields DEF Check, qdrant, counts
<1>4. ASSUME NEW p \in Servers, CreateCollection(p) \/ LosesRace(p) \/ IndexesDone(p) PROVE Types'
  BY <1>4 DEF CreateCollection, LosesRace, IndexesDone, qdrant, counts
<1>5. ASSUME NEW p \in Servers, CreateIndex(p) PROVE Types'
  <2>1. Head(todo[p]) \in FieldSet /\ Tail(todo[p]) \in Seq(FieldSet)
    BY <1>5, HeadAndRest DEF CreateIndex
  <2> QED BY <1>5, <2>1 DEF CreateIndex, Fails, FieldSet
<1>6. ASSUME NEW p \in Servers, ListShardKeys(p) \/ CreateShardKey(p) \/ Compose(p) PROVE Types'
  BY <1>6 DEF ListShardKeys, CreateShardKey, Compose, Ensured, qdrant, counts
<1>7. ASSUME NEW p \in Servers, CallFails(p) PROVE Types'
  <2>1. CASE At(p, "index") /\ todo[p] # <<>> /\ indexes' = indexes \cup {Head(todo[p])}
    <3>1. Head(todo[p]) \in FieldSet
      BY <2>1, HeadAndRest
    <3>2. indexes' \subseteq ToSet(Fields)
      BY <2>1, <3>1 DEF FieldSet
    <3>3. collection' \in BOOLEAN /\ shards' \subseteq {Default}
      BY <1>7, <2>1 DEF CallFails, qdrant
    <3> QED BY <1>7, <3>2, <3>3 DEF CallFails, Fails
  <2>2. CASE indexes' = indexes
    BY <1>7, <2>2 DEF CallFails, Fails, qdrant
  <2> QED BY <1>7, <2>1, <2>2 DEF CallFails, qdrant
<1>8. ASSUME NEW p \in Servers, Close(p) \/ Dispose(p) PROVE Types'
  BY <1>8 DEF Close, Dispose, qdrant, counts
<1> QED BY <1>1, <1>2, <1>3, <1>4, <1>5, <1>6, <1>7, <1>8 DEF Next, Step

\* What exists in the vector store stays.
LEMMA StoreGrows ==
    [Next]_vars => /\ collection => collection'
                   /\ indexes \subseteq indexes'
                   /\ shards \subseteq shards'
BY DEF Next, Step, Start, Stop, Crash, Check, CreateCollection, LosesRace, CreateIndex, IndexesDone,
       ListShardKeys, CreateShardKey, Compose, CallFails, Close, Dispose, vars, qdrant

\* What one server knows does not change by a step of another.
LEMMA OthersKeep ==
    ASSUME ProvisioningInv, [Next]_vars, NEW p \in Servers,
           UNCHANGED <<step[p], pass[p], todo[p], cause[p], saw[p]>>
    PROVE  (KnowsTodo(p) /\ KnowsStore(p) /\ Conflict(p))'
<1>1. /\ collection => collection' /\ indexes \subseteq indexes' /\ shards \subseteq shards'
      /\ KnowsTodo(p) /\ KnowsStore(p) /\ Conflict(p)
  BY StoreGrows DEF ProvisioningInv
<1> QED BY <1>1 DEF KnowsTodo, KnowsStore, Conflict

\* A step of p itself.
LEMMA OwnStep ==
    ASSUME ProvisioningInv, NEW p \in Servers, Start(p) \/ Step(p) \/ Stop(p) \/ Crash(p)
    PROVE  (KnowsTodo(p) /\ KnowsStore(p) /\ Conflict(p))'
<1> USE DEF ProvisioningInv, Types, TypeOK, At, Goto
<1>1. KnowsTodo(p) /\ KnowsStore(p) /\ Conflict(p)
  OBVIOUS
<1>2. CASE Start(p)
  BY <1>1, <1>2, ProvisioningAssumption DEF Start, qdrant, KnowsTodo, KnowsStore, Conflict, Past
<1>11. CASE Stop(p)
  BY <1>1, <1>11 DEF Stop, qdrant, KnowsTodo, KnowsStore, Conflict, Past
<1>12. CASE Crash(p)
  BY <1>1, <1>12 DEF Crash, qdrant, KnowsTodo, KnowsStore, Conflict, Past
<1>3. CASE Check(p)
  <2>1. /\ step' = [step EXCEPT ![p] = IF collection THEN "index" ELSE "create"]
        /\ todo' = [todo EXCEPT ![p] = IF collection THEN <<"version_status">> ELSE Fields]
        /\ saw' = [saw EXCEPT ![p] = collection]
        /\ UNCHANGED <<collection, indexes, shards, pass, cause>>
    BY <1>3 DEF Check, qdrant
  <2>2. KnowsTodo(p)'
    BY <1>1, <1>3, <2>1, FieldsAreFields DEF KnowsTodo, Check
  <2>3. KnowsStore(p)'
    BY <2>1 DEF KnowsStore, Past
  <2>4. cause[p] # "conflict"
    BY <1>1, <1>3 DEF Check, Conflict
  <2>5. Conflict(p)'
    BY <2>1, <2>4 DEF Conflict
  <2> QED BY <2>2, <2>3, <2>5
<1>4. CASE CreateCollection(p)
  <2>1. "version_status" \in ToSet(Fields)
    BY FieldsAreFields DEF FieldSet
  <2> QED BY <1>1, <1>4, <2>1 DEF CreateCollection, counts, KnowsTodo, KnowsStore, Conflict, Past
<1>5. CASE LosesRace(p)
  BY <1>1, <1>5 DEF LosesRace, qdrant, counts, KnowsTodo, KnowsStore, Conflict, Past
<1>6. CASE CreateIndex(p)
  <2>1. ToSet(todo[p]) = {Head(todo[p])} \cup ToSet(Tail(todo[p]))
    BY <1>6, HeadAndRest DEF CreateIndex
  <2>2. CASE Head(todo[p]) \in indexes \ Tolerant
    BY <1>1, <1>6, <2>1, <2>2 DEF CreateIndex, Fails, KnowsTodo, KnowsStore, Conflict, Past
  <2>3. CASE Head(todo[p]) \notin indexes \ Tolerant
    BY <1>1, <1>6, <2>1, <2>3 DEF CreateIndex, KnowsTodo, KnowsStore, Conflict, Past
  <2> QED BY <2>2, <2>3
<1>7. CASE IndexesDone(p)
  <2>1. /\ step' = [step EXCEPT ![p] = "list"]
        /\ step[p] = "index" /\ ToSet(todo[p]) = {}
        /\ UNCHANGED <<collection, indexes, shards, pass, todo, cause, saw>>
    BY <1>7, NothingLeft DEF IndexesDone, qdrant
  <2> QED BY <1>1, <2>1 DEF KnowsTodo, KnowsStore, Conflict, Past
<1>8. CASE ListShardKeys(p) \/ CreateShardKey(p) \/ Compose(p)
  BY <1>1, <1>8 DEF ListShardKeys, CreateShardKey, Compose, Ensured, qdrant, counts, KnowsTodo,
                    KnowsStore, Conflict, Past
<1>9. CASE CallFails(p)
  BY <1>1, <1>9 DEF CallFails, Fails, KnowsTodo, KnowsStore, Conflict, Past
<1>10. CASE Close(p) \/ Dispose(p)
  BY <1>1, <1>10 DEF Close, Dispose, qdrant, counts, KnowsTodo, KnowsStore, Conflict, Past
<1> QED BY <1>2, <1>3, <1>4, <1>5, <1>6, <1>7, <1>8, <1>9, <1>10, <1>11, <1>12 DEF Step

\* Every server, whoever takes the step.
LEMMA KnowledgeStep ==
    ProvisioningInv /\ [Next]_vars
        => \A p \in Servers : (KnowsTodo(p) /\ KnowsStore(p) /\ Conflict(p))'
<1> SUFFICES ASSUME ProvisioningInv, [Next]_vars, NEW p \in Servers
             PROVE  (KnowsTodo(p) /\ KnowsStore(p) /\ Conflict(p))'
  OBVIOUS
<1>1. CASE UNCHANGED vars
  BY <1>1, OthersKeep DEF vars, process
<1>2. ASSUME NEW q \in Servers, Start(q) \/ Step(q) \/ Stop(q) \/ Crash(q)
      PROVE  (KnowsTodo(p) /\ KnowsStore(p) /\ Conflict(p))'
  <2>1. CASE q = p
    BY <1>2, <2>1, OwnStep
  <2>2. CASE q # p
    <3>1. UNCHANGED <<step[p], pass[p], todo[p], cause[p], saw[p]>>
      BY <1>2, <2>2 DEF Start, Step, Stop, Crash, Check, CreateCollection, LosesRace, CreateIndex,
            IndexesDone, ListShardKeys, CreateShardKey, Compose, CallFails, Close, Dispose, Fails,
            Ensured, Goto, counts, ProvisioningInv, Types, TypeOK
    <3> QED BY <3>1, OthersKeep
  <2> QED BY <2>1, <2>2
<1> QED BY <1>1, <1>2 DEF Next

-----------------------------------------------------------------------------
(* Missing indexes.                                                        *)

\* The server that created the collection is about to make what is missing.
Making(p) == At(p, "index") /\ FieldSet \ indexes \subseteq ToSet(todo[p])

\* Another server's step does not stop it.
LEMMA MakingGoesOn ==
    ASSUME [Next]_vars, NEW p \in Servers, Making(p), UNCHANGED <<step[p], todo[p]>>
    PROVE  Making(p)'
<1>1. indexes \subseteq indexes'
  BY StoreGrows
<1> QED BY <1>1 DEF Making, At

LEMMA IndexesStep == ProvisioningInv /\ [Next]_vars => IndexesComplete'
<1> SUFFICES ASSUME ProvisioningInv, [Next]_vars PROVE IndexesComplete'
  OBVIOUS
<1> DEFINE Complete == interrupted \/ FieldSet = indexes \/ \E p \in Servers : Making(p)
<1>1. /\ collection => Complete
      /\ Complete' => IndexesComplete'
  BY DEF ProvisioningInv, IndexesComplete, Making, FieldSet, At
<1>2. Types' /\ Types
  BY TypesStep DEF ProvisioningInv
<1>3. FieldSet = indexes => FieldSet = indexes'
  BY <1>2, StoreGrows DEF Types, TypeOK, FieldSet
<1>4. interrupted => interrupted'
  BY DEF Next, Step, Start, Stop, Crash, Check, CreateCollection, LosesRace, CreateIndex, IndexesDone,
         ListShardKeys, CreateShardKey, Compose, CallFails, Close, Dispose, Fails, vars, counts
<1>5. ASSUME ~interrupted', collection'
      PROVE  FieldSet = indexes' \/ \E p \in Servers : Making(p)'
  <2>1. CASE UNCHANGED vars
    BY <1>1, <1>4, <1>5, <2>1 DEF vars, qdrant, process, counts, Making, At
  <2>2. ASSUME NEW p \in Servers, CreateCollection(p)
        PROVE  Making(p)'
    <3>1. todo[p] = Fields
      BY <2>2 DEF CreateCollection, At, ProvisioningInv, KnowsTodo
    <3> QED BY <1>2, <2>2, <3>1 DEF CreateCollection, Making, At, Goto, FieldSet, Types, TypeOK
  <2>3. ASSUME NEW p \in Servers, Start(p) \/ Step(p) \/ Stop(p) \/ Crash(p), ~CreateCollection(p)
        PROVE  FieldSet = indexes' \/ \E q \in Servers : Making(q)'
    <3>1. collection
      BY <1>5, <2>3 DEF Start, Step, Stop, Crash, Check, LosesRace, CreateIndex, IndexesDone,
            ListShardKeys, CreateShardKey, Compose, CallFails, Close, Dispose, Fails, At, qdrant,
            counts, Goto
    <3>2. CASE FieldSet = indexes
      BY <1>3, <3>2
    <3>3. ASSUME NEW q \in Servers, Making(q), q # p
          PROVE  Making(q)'
      <4>1. UNCHANGED <<step[q], todo[q]>>
        <5>1. /\ step \in [Servers -> Starting \cup {"down", "serving", "closing"}]
              /\ todo \in [Servers -> Seq(FieldSet)]
          BY <1>2 DEF Types, TypeOK
        <5>2. CASE Start(p) \/ Stop(p) \/ Crash(p)
          BY <3>3, <5>1, <5>2 DEF Start, Stop, Crash, Goto
        <5>3. CASE Check(p) \/ LosesRace(p) \/ CreateIndex(p) \/ IndexesDone(p)
          BY <3>3, <5>1, <5>3 DEF Check, LosesRace, CreateIndex, IndexesDone, Fails, Goto
        <5>4. CASE ListShardKeys(p) \/ CreateShardKey(p) \/ Compose(p)
          BY <3>3, <5>1, <5>4 DEF ListShardKeys, CreateShardKey, Compose, Ensured, Goto
        <5>5. CASE CallFails(p) \/ Close(p) \/ Dispose(p)
          BY <3>3, <5>1, <5>5 DEF CallFails, Close, Dispose, Fails, Goto
        <5> QED BY <2>3, <5>2, <5>3, <5>4, <5>5 DEF Step
      <4> QED BY <3>3, <4>1, MakingGoesOn
    <3>4. CASE Making(p)
      <4>1. step[p] = "index" /\ step \in [Servers -> Starting \cup {"down", "serving", "closing"}]
        BY <1>2, <3>4 DEF Making, At, Types, TypeOK
      <4>2. CreateIndex(p) \/ IndexesDone(p)
        BY <1>5, <2>3, <4>1 DEF Start, Step, Stop, Crash, Check, LosesRace, ListShardKeys,
              CreateShardKey, Compose, CallFails, Close, Dispose, Fails, At
      <4>3. CASE CreateIndex(p)
        <5>1. ToSet(todo[p]) = {Head(todo[p])} \cup ToSet(Tail(todo[p]))
          BY <1>2, <4>3, HeadAndRest DEF CreateIndex, Types
        <5>2. /\ indexes' = indexes \cup {Head(todo[p])}
              /\ todo' = [todo EXCEPT ![p] = Tail(@)] /\ step' = step
          BY <1>5, <4>1, <4>3 DEF CreateIndex, Fails, At
        <5> QED BY <1>2, <3>4, <4>1, <5>1, <5>2 DEF Making, At, Types
      <4>4. CASE IndexesDone(p)
        <5>1. FieldSet \subseteq indexes /\ indexes' = indexes
          BY <3>4, <4>4, NothingLeft DEF IndexesDone, Making, qdrant
        <5> QED BY <1>2, <5>1 DEF Types, TypeOK, FieldSet
      <4> QED BY <4>2, <4>3, <4>4
    <3> QED BY <1>1, <1>4, <1>5, <3>1, <3>2, <3>3, <3>4
  <2> QED BY <2>1, <2>2, <2>3 DEF Next, Step
<1> QED BY <1>1, <1>5 DEF IndexesComplete

-----------------------------------------------------------------------------
LEMMA StepKeeps == ProvisioningInv /\ [Next]_vars => ProvisioningInv'
BY TypesStep, KnowledgeStep, IndexesStep DEF ProvisioningInv

LEMMA InvariantHolds == Spec => []ProvisioningInv
BY InitProvisioned, StepKeeps, PTL DEF Spec

\* Who serves, or composes its query service, finds the collection, the default shard and
\* the index on version_status (startup.py), for any number of servers and faults.
THEOREM ServersProvisioned == Spec => []ServingIsProvisioned
<1>1. ProvisioningInv => ServingIsProvisioned
  BY DEF ProvisioningInv, KnowsStore, Past, ServingIsProvisioned, Provisioned
<1> QED BY <1>1, InvariantHolds, PTL

\* A start that found a collection conflicts with no other (ensure_collection and
\* ensure_shard_key of qdrant.py).
THEOREM StartsConflictFirst == Spec => []OnlyFirstStartsConflict
<1>1. ProvisioningInv => OnlyFirstStartsConflict
  BY DEF ProvisioningInv, Conflict, OnlyFirstStartsConflict
<1> QED BY <1>1, InvariantHolds, PTL

\* Without an interrupted start, indexes are complete or being made (ensure_collection).
THEOREM IndexesAreComplete == Spec => []IndexesComplete
<1>1. ProvisioningInv => IndexesComplete
  BY DEF ProvisioningInv
<1> QED BY <1>1, InvariantHolds, PTL
================================================================================
