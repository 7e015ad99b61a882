------------------------- MODULE ContextAssemblyProofs -------------------------
(***************************************************************************)
(* For any reranked documents, similarities and limits: the selection is   *)
(* the greedy one in whatever order the candidates are run through, every  *)
(* source number of the context resolves, exactly what was detected in a   *)
(* text is cut out of it, the context stays within its budget, and nothing *)
(* is left out of it but what has to be.                                   *)
(***************************************************************************)
EXTENDS ContextAssembly, FoldLemmas, SequenceTheorems, TLAPS

-----------------------------------------------------------------------------
(* Numbers.                                                                *)

\* A finite set of numbers has a maximum: the element with the fewest above it.
LEMMA MaxInSet ==
    ASSUME NEW S, S \subseteq Int, IsFiniteSet(S), S # {}
    PROVE  Max(S) \in S /\ \A y \in S : Max(S) >= y
<1> DEFINE Above(x) == {y \in S : y > x}
           Aboves == {Above(x) : x \in S}
<1>1. Aboves \subseteq FiniteSubsetsOf(S) /\ Aboves # {}
  <2>1. \A x \in S : Above(x) \in SUBSET S
    OBVIOUS
  <2>2. \A x \in S : IsFiniteSet(Above(x))
    BY <2>1, FS_Subset
  <2> QED BY <2>1, <2>2 DEF FiniteSubsetsOf
<1>2. PICK A \in Aboves : \A B \in Aboves : ~(<<B, A>> \in StrictSubsetOrdering(S))
  BY <1>1, FS_StrictSubsetOrderingWellFounded, WFMin
<1>3. PICK x \in S : A = Above(x)
  BY <1>2
<1>4. \A y \in S : x >= y
  <2> SUFFICES ASSUME NEW y \in S, ~(x >= y) PROVE FALSE
    OBVIOUS
  <2>1. x \in Int /\ y \in Int /\ y > x
    OBVIOUS
  <2>2. \A z \in S : z > y => z > x
    <3> SUFFICES ASSUME NEW z \in S, z > y PROVE z > x
      OBVIOUS
    <3>1. z \in Int
      OBVIOUS
    <3> QED BY <2>1, <3>1
  <2>4. y \in Above(x) /\ y \notin Above(y)
    BY <2>1
  <2>5. Above(y) \subseteq Above(x)
    BY <2>2
  <2>3. <<Above(y), Above(x)>> \in StrictSubsetOrdering(S)
    BY <2>4, <2>5 DEF StrictSubsetOrdering
  <2> QED BY <1>2, <1>3, <2>3
<1> QED BY <1>4 DEF Max

InputOk == input \in Inputs

LEMMA InputTypes ==
    ASSUME InputOk
    PROVE  /\ input.documents \in Seq(Document)
           /\ Positions = 1 .. Len(input.documents) /\ Positions \subseteq Nat
           /\ \A i \in Positions : Content(i) \in Contents /\ input.documents[i].score \in Nat
           /\ \A x \in Contents : input.relevance[x] \in Int
           /\ \A x, y \in Contents : input.similarity[x][y] \in Int
           /\ None \notin Positions
<1>1. input \in Input
  BY ContextAssumption DEF InputOk
<1>2. /\ input.documents \in Seq(Document)
      /\ input.relevance \in [Contents -> Int]
      /\ input.similarity \in [Contents -> [Contents -> Int]]
  BY <1>1 DEF Input
<1>3. Positions = 1 .. Len(input.documents) /\ Len(input.documents) \in Nat
  BY <1>2 DEF Positions
<1>4. \A i \in Positions : input.documents[i] \in Document
  BY <1>2, <1>3
<1>5. \A i \in Positions : Content(i) \in Contents /\ input.documents[i].score \in Nat
  BY <1>4 DEF Content, Document
<1>6. None \notin Positions
  BY <1>3, ContextAssumption
<1>7. \A x, y \in Contents : input.relevance[x] \in Int /\ input.similarity[x][y] \in Int
  BY <1>2
<1> QED BY <1>2, <1>3, <1>5, <1>6, <1>7

LEMMA RedundancyInt ==
    ASSUME InputOk, NEW i \in Positions, NEW s \in Seq(Positions)
    PROVE  Redundancy(i, s) \in Int
<1>1. CASE s = <<>>
  BY <1>1 DEF Redundancy
<1>2. CASE s # <<>>
  <2> DEFINE Similar == [n \in DOMAIN s |-> input.similarity[Content(i)][Content(s[n])]]
             S == {input.similarity[Content(i)][Content(j)] : j \in ToSet(s)}
  <2>1. S = {Similar[n] : n \in DOMAIN s}
    BY DEF ToSet
  <2>2. S \subseteq Int
    BY InputTypes DEF ToSet
  <2>3. IsFiniteSet(DOMAIN s)
    BY FS_Interval
  <2>4. Similar \in Surjection(DOMAIN s, S)
    BY <2>1 DEF Surjection
  <2>5. IsFiniteSet(S)
    BY <2>3, <2>4, FS_Surjection
  <2>6. S # {}
    <3>1. 1 \in DOMAIN s
      BY <1>2
    <3> QED BY <2>1, <3>1
  <2>7. Max(S) \in Int
    BY <2>2, <2>5, <2>6, MaxInSet
  <2> QED BY <1>2, <2>7 DEF Redundancy
<1> QED BY <1>1, <1>2

LEMMA MmrInt ==
    ASSUME InputOk, NEW i \in Positions, NEW s \in Seq(Positions)
    PROVE  Mmr(i, s) \in Int
<1> DEFINE r == input.relevance[Content(i)]
           d == Redundancy(i, s)
<1>1. r \in Int /\ d \in Int /\ Lambda \in Int
  BY InputTypes, RedundancyInt, ContextAssumption
<1> HIDE DEF r, d
<1>2. Lambda * r \in Int /\ (10 - Lambda) * d \in Int
  BY <1>1
<1>3. Lambda * r - (10 - Lambda) * d \in Int
  BY <1>2
<1> QED BY <1>3 DEF Mmr, r, d

\* Among the candidates of a round the comparison is a strict total order.
LEMMA BeatsOrder ==
    ASSUME InputOk, NEW s \in Seq(Positions)
    PROVE  /\ \A i, j \in Positions : i # j => Beats(i, j, s) \/ Beats(j, i, s)
           /\ \A i, j, k \in Positions : Beats(i, j, s) /\ Beats(j, k, s) => Beats(i, k, s)
<1>1. \A i \in Positions : /\ Mmr(i, s) \in Int /\ Redundancy(i, s) \in Int
                           /\ input.documents[i].score \in Int /\ i \in Int
  BY MmrInt, RedundancyInt, InputTypes
<1>2. ASSUME NEW i \in Positions, NEW j \in Positions, i # j
      PROVE  Beats(i, j, s) \/ Beats(j, i, s)
  BY <1>1, <1>2 DEF Beats
<1>3. ASSUME NEW i \in Positions, NEW j \in Positions, NEW k \in Positions,
             Beats(i, j, s), Beats(j, k, s)
      PROVE  Beats(i, k, s)
  BY <1>1, <1>3 DEF Beats
<1> QED BY <1>2, <1>3

-----------------------------------------------------------------------------
(* The selection.                                                          *)

Searching == step \in {"embed_query", "embed_documents", "round", "candidates"}

SearchTypes ==
    /\ InputOk
    /\ selected \in Seq(Positions)
    /\ \A n \in DOMAIN selected : selected[n] \in Unique
    /\ \A m, n \in DOMAIN selected : m < n => selected[m] # selected[n]

\* The documents that are left are the ones not selected.
Left ==
    /\ step = "deduplicate" => selected = <<>> /\ best = None
    /\ Searching => Unique # {} /\ remaining = Unique \ ToSet(selected)
    /\ Searching /\ step # "candidates" => best = None

\* The best candidate beats the others that were looked at in this round.
RoundSoFar ==
    step = "candidates" =>
        /\ remaining # {}
        /\ unseen \subseteq remaining
        /\ best = None => unseen = remaining
        /\ best # None =>
              /\ best \in remaining \ unseen
              /\ \A i \in remaining \ unseen : i # best => Beats(best, i, selected)

GreedyInv == SearchTypes /\ Left /\ RoundSoFar /\ SelectionIsGreedy

LEMMA GreedyInit == Init => GreedyInv
<1> SUFFICES ASSUME Init PROVE GreedyInv
  OBVIOUS
<1> USE DEF Init
<1>1. SearchTypes
  BY DEF SearchTypes, InputOk
<1>2. Left /\ RoundSoFar
  BY DEF Left, RoundSoFar, Searching
<1>3. SelectionIsGreedy
  BY DEF SelectionIsGreedy
<1> QED BY <1>1, <1>2, <1>3 DEF GreedyInv

\* The operators that only depend on the input.
LEMMA SameInput ==
    ASSUME input' = input
    PROVE  /\ InputOk' = InputOk /\ Positions' = Positions /\ Unique' = Unique
           /\ \A i, j, s : Beats(i, j, s)' = Beats(i, j, s)
           /\ \A i : Content(i)' = Content(i)
BY DEF InputOk, Positions, Unique, Key, Content, Beats, Mmr, Redundancy

LEMMA SearchKept ==
    ASSUME GreedyInv, input' = input, selected' = selected
    PROVE  SearchTypes' /\ SelectionIsGreedy'
<1>1. SearchTypes'
  BY SameInput DEF GreedyInv, SearchTypes
<1>2. SelectionIsGreedy'
  BY SameInput DEF GreedyInv, SelectionIsGreedy
<1> QED BY <1>1, <1>2

LEMMA GreedyConsider ==
    ASSUME GreedyInv, NEW i \in Positions, Consider(i)
    PROVE  GreedyInv'
<1>1. /\ step = "candidates" /\ i \in unseen /\ unseen' = unseen \ {i}
      /\ best' = IF ShouldSelect(i) THEN i ELSE best
      /\ UNCHANGED <<input, step, remaining, selected>>
  BY DEF Consider
<1>2. SearchTypes' /\ SelectionIsGreedy'
  BY <1>1, SearchKept
<1>3. Left'
  BY <1>1, SameInput DEF GreedyInv, Left, Searching
<1>4. /\ unseen \subseteq remaining /\ remaining \subseteq Positions /\ None \notin Positions
      /\ InputOk /\ selected \in Seq(Positions)
  BY <1>1, InputTypes DEF GreedyInv, SearchTypes, Left, Searching, RoundSoFar, Unique
<1>5. \A k \in remaining \ (unseen \ {i}) : k # best' => Beats(best', k, selected)
  <2>1. CASE best = None
    BY <2>1, <1>1, <1>4 DEF GreedyInv, RoundSoFar, ShouldSelect
  <2>2. CASE best # None /\ Beats(i, best, selected)
    <3>1. best' = i
      BY <1>1, <2>2 DEF ShouldSelect
    <3>2. best \in remaining \ unseen /\ \A k \in remaining \ unseen : k # best => Beats(best, k, selected)
      BY <1>1, <2>2 DEF GreedyInv, RoundSoFar
    <3>3. ASSUME NEW k \in remaining \ (unseen \ {i}), k # i PROVE Beats(i, k, selected)
      <4>1. CASE k = best
        BY <4>1, <2>2
      <4>2. CASE k # best
        <5>1. Beats(best, k, selected) /\ k \in Positions /\ best \in Positions
          BY <4>2, <3>2, <3>3, <1>4
        <5> QED BY <5>1, <2>2, <1>4, BeatsOrder
      <4> QED BY <4>1, <4>2
    <3> QED BY <3>1, <3>3
  <2>3. CASE best # None /\ ~Beats(i, best, selected)
    <3>1. best' = best
      BY <1>1, <2>3 DEF ShouldSelect
    <3>2. best \in remaining \ unseen /\ \A k \in remaining \ unseen : k # best => Beats(best, k, selected)
      BY <1>1, <2>3 DEF GreedyInv, RoundSoFar
    <3>3. best \in Positions /\ i # best
      BY <3>2, <1>1, <1>4
    <3>4. Beats(best, i, selected)
      BY <3>3, <2>3, <1>4, BeatsOrder
    <3> QED BY <3>1, <3>2, <3>4
  <2> QED BY <2>1, <2>2, <2>3
<1>6. best' # None /\ best' \in remaining \ (unseen \ {i})
  BY <1>1, <1>4 DEF GreedyInv, RoundSoFar, ShouldSelect
<1>7. RoundSoFar'
  <2>1. \A j, k : Beats(j, k, selected)' = Beats(j, k, selected)
    BY <1>1, SameInput
  <2>2. \A k \in remaining' \ unseen' : k # best' => Beats(best', k, selected)
    BY <1>1, <1>5
  <2>3. \A k \in remaining' \ unseen' : k # best' => Beats(best, k, selected)'
    BY <1>1, <2>2, SameInput
  <2>4. remaining' # {} /\ unseen' \subseteq remaining' /\ best' # None /\ best' \in remaining' \ unseen'
    BY <1>1, <1>4, <1>6
  <2> QED BY <2>3, <2>4 DEF RoundSoFar
<1> QED BY <1>2, <1>3, <1>7 DEF GreedyInv

LEMMA GreedySelect ==
    ASSUME GreedyInv, Select
    PROVE  GreedyInv'
<1>1. /\ step = "candidates" /\ unseen = {}
      /\ selected' = Append(selected, best)
      /\ remaining' = remaining \ {best}
      /\ best' = None /\ step' = "round" /\ input' = input
  BY DEF Select
<1>2. /\ best \in Unique /\ best \notin ToSet(selected) /\ best \in Positions
      /\ \A i \in Unique \ ToSet(selected) : i # best => Beats(best, i, selected)
      /\ remaining = Unique \ ToSet(selected)
      /\ selected \in Seq(Positions) /\ Unique # {}
  BY <1>1 DEF GreedyInv, SearchTypes, Left, RoundSoFar, Searching, Unique
<1> DEFINE n == Len(selected)
<1>3. /\ n \in Nat /\ selected' \in Seq(Positions) /\ DOMAIN selected' = 1 .. (n + 1)
      /\ DOMAIN selected = 1 .. n
      /\ \A m \in 1 .. n : selected'[m] = selected[m]
      /\ selected'[n + 1] = best
  BY <1>1, <1>2
<1>4. ToSet(selected') = ToSet(selected) \cup {best}
  BY <1>3 DEF ToSet
<1>5. SearchTypes'
  <2>1. \A m \in DOMAIN selected' : selected'[m] \in Unique
    BY <1>2, <1>3 DEF GreedyInv, SearchTypes
  <2>2. ASSUME NEW k \in DOMAIN selected', NEW m \in DOMAIN selected', k < m
        PROVE  selected'[k] # selected'[m]
    <3>1. k \in 1 .. n
      BY <2>2, <1>3
    <3>2. CASE m = n + 1
      BY <3>1, <3>2, <1>2, <1>3 DEF ToSet
    <3>3. CASE m \in 1 .. n
      BY <3>1, <3>3, <2>2, <1>3 DEF GreedyInv, SearchTypes
    <3> QED BY <3>2, <3>3, <1>3
  <2> QED BY <2>1, <2>2, <1>1, <1>3, SameInput DEF GreedyInv, SearchTypes
<1>6. Left'
  <2>1. remaining' = Unique \ ToSet(selected')
    BY <1>1, <1>2, <1>4
  <2>2. ToSet(selected)' = ToSet(selected')
    BY DEF ToSet
  <2> QED BY <1>1, <1>2, <2>1, <2>2, SameInput DEF Left, Searching
<1>7. RoundSoFar'
  BY <1>1 DEF RoundSoFar
<1>8. SelectionIsGreedy'
  <2>1. ASSUME NEW m \in 1 .. n, NEW i \in Unique \ ToSet(SubSeq(selected', 1, m - 1)), i # selected'[m]
        PROVE  Beats(selected'[m], i, SubSeq(selected', 1, m - 1))
    <3>1. SubSeq(selected', 1, m - 1) = SubSeq(selected, 1, m - 1)
      BY <1>2, <1>3
    <3> QED BY <2>1, <3>1, <1>3 DEF GreedyInv, SelectionIsGreedy
  <2>2. SubSeq(selected', 1, n) = selected
    BY <1>2, <1>3
  <2>3. ASSUME NEW i \in Unique \ ToSet(SubSeq(selected', 1, n)), i # selected'[n + 1]
        PROVE  Beats(selected'[n + 1], i, SubSeq(selected', 1, n))
    BY <2>2, <2>3, <1>2, <1>3
  <2>4. \A m \in DOMAIN selected' :
           \A i \in Unique \ ToSet(SubSeq(selected', 1, m - 1)) :
               i # selected'[m] => Beats(selected'[m], i, SubSeq(selected', 1, m - 1))
    <3> SUFFICES ASSUME NEW m \in DOMAIN selected',
                        NEW i \in Unique \ ToSet(SubSeq(selected', 1, m - 1)), i # selected'[m]
                 PROVE  Beats(selected'[m], i, SubSeq(selected', 1, m - 1))
      OBVIOUS
    <3>1. CASE m \in 1 .. n
      BY <3>1, <2>1
    <3>2. CASE m = n + 1
      <4>1. m - 1 = n
        BY <3>2, <1>3
      <4> QED BY <3>2, <4>1, <2>3
    <3> QED BY <3>1, <3>2, <1>3
  <2> QED BY <1>1, <2>4, SameInput DEF SelectionIsGreedy
<1> QED BY <1>5, <1>6, <1>7, <1>8 DEF GreedyInv

LEMMA GreedyNext == GreedyInv /\ [Next]_vars => GreedyInv'
<1> SUFFICES ASSUME GreedyInv, [Next]_vars PROVE GreedyInv'
  OBVIOUS
<1>1. ASSUME input' = input, selected' = selected, Left', RoundSoFar' PROVE GreedyInv'
  BY <1>1, SearchKept DEF GreedyInv
<1>2. CASE Deduplicate
  <2>1. input' = input /\ selected' = selected /\ selected = <<>> /\ remaining' = Unique
    BY <1>2 DEF Deduplicate, GreedyInv, Left
  <2>2. ToSet(selected') = {} /\ ToSet(selected)' = ToSet(selected')
    BY <2>1 DEF ToSet
  <2>3. /\ step' = IF Unique = {} THEN "done" ELSE "embed_query"
        /\ step = "deduplicate" /\ best' = best /\ best = None
    BY <1>2 DEF Deduplicate, GreedyInv, Left
  <2>4. Left'
    BY <2>1, <2>2, <2>3, SameInput DEF Left, Searching
  <2>5. RoundSoFar'
    BY <2>3 DEF RoundSoFar
  <2> QED BY <1>1, <2>1, <2>4, <2>5
<1>3. CASE Embed
  BY <1>1, <1>3, SameInput DEF Embed, search, GreedyInv, Left, RoundSoFar, Searching, ToSet
<1>4. CASE Round
  BY <1>1, <1>4, SameInput DEF Round, GreedyInv, Left, RoundSoFar, Searching, ToSet
<1>5. CASE Build
  BY <1>1, <1>5 DEF Build, search, Left, RoundSoFar, Searching
<1>6. CASE Pack
  BY <1>1, <1>6 DEF Pack, search, Left, RoundSoFar, Searching
<1>7. CASE UNCHANGED vars
  <2>1. Left'
    BY <1>7, SameInput DEF vars, search, GreedyInv, Left, Searching, ToSet
  <2>2. RoundSoFar'
    BY <1>7, SameInput DEF vars, search, GreedyInv, RoundSoFar
  <2> QED BY <1>1, <1>7, <2>1, <2>2 DEF vars, search
<1> QED BY <1>2, <1>3, <1>4, <1>5, <1>6, <1>7, GreedyConsider, GreedySelect DEF Next

LEMMA GreedyAlways == Spec => []GreedyInv
BY GreedyInit, GreedyNext, PTL DEF Spec

\* In whatever order the set of candidates is run through, the selection is the
\* one of the definition of MMR (_select_documents_with_mmr).
THEOREM GreedySelection == Spec => []SelectionIsGreedy
<1>1. GreedyInv => SelectionIsGreedy
  BY DEF GreedyInv
<1> QED BY <1>1, GreedyAlways, PTL
-----------------------------------------------------------------------------
(* The sources.                                                            *)

Redactions == {Redacted(input.scans[x]) : x \in Contents}

\* There are no more blocks than selected documents, and nothing is selected after them.
BlocksBuilt ==
    /\ blocks \in Seq(Redactions)
    /\ Len(blocks) <= Len(selected)
    /\ Searching \/ step = "deduplicate" => blocks = <<>>
    /\ step = "build" => Len(blocks) < Len(selected)
    /\ \A n \in DOMAIN blocks : blocks[n] = Redacted(input.scans[Content(selected[n])])

IsSequence(s) == \E S : s \in Seq(S)

\* A packed part is of an earlier turn, and holds the document of its number.
PartsPacked ==
    /\ turn \in Nat \ {0} /\ turn <= Len(blocks) + 1
    /\ step \notin {"pack", "done"} => parts = <<>> /\ turn = 1
    /\ IsSequence(parts)
    /\ \A n \in DOMAIN parts :
          /\ parts[n].source \in 1 .. (turn - 1)
          /\ parts[n].document = selected[parts[n].source]
    /\ \A m, n \in DOMAIN parts : m < n => parts[m].source < parts[n].source

SourcesInv == GreedyInv /\ BlocksBuilt /\ PartsPacked

\* The documents selected are distinct ones of those that were reranked.
LEMMA SelectedFew ==
    ASSUME SearchTypes
    PROVE  Len(selected) <= Len(input.documents)
<1>1. selected \in Injection(1 .. Len(selected), Positions)
  <2>1. selected \in [1 .. Len(selected) -> Positions]
    BY DEF SearchTypes
  <2>2. \A m, n \in 1 .. Len(selected) : m < n => selected[m] # selected[n]
    BY DEF SearchTypes
  <2>3. \A m, n \in 1 .. Len(selected) : selected[m] = selected[n] => m = n
    BY <2>2
  <2> QED BY <2>1, <2>3 DEF Injection, IsInjective
<1>2. Positions = 1 .. Len(input.documents) /\ Len(input.documents) \in Nat /\ Len(selected) \in Nat
  BY InputTypes DEF SearchTypes
<1>3. \A k \in Nat : IsFiniteSet(1 .. k) /\ Cardinality(1 .. k) = k
  <2> SUFFICES ASSUME NEW k \in Nat PROVE IsFiniteSet(1 .. k) /\ Cardinality(1 .. k) = k
    OBVIOUS
  <2>1. IsFiniteSet(1 .. k) /\ Cardinality(1 .. k) = IF 1 > k THEN 0 ELSE k - 1 + 1
    BY FS_Interval
  <2> QED BY <2>1
<1>4. IsFiniteSet(Positions) /\ Cardinality(Positions) = Len(input.documents)
  BY <1>2, <1>3
<1>5. Cardinality(1 .. Len(selected)) = Len(selected)
  BY <1>2, <1>3
<1>6. Cardinality(1 .. Len(selected)) <= Cardinality(Positions)
  BY <1>1, <1>4, FS_Injection
<1> QED BY <1>4, <1>5, <1>6

\* Compressed or not, the block of turn n has number n and the n-th document.
LEMMA FittedIsOfItsTurn ==
    ASSUME NEW n, NEW room
    PROVE  Fitted(n, room).source = n /\ Fitted(n, room).document = selected[n]
<1>1. \A kept : Block(n, kept).source = n /\ Block(n, kept).document = selected[n]
  BY DEF Block
<1>2. \E kept : Fitted(n, room) = Block(n, kept)
  BY DEF Fitted
<1> QED BY <1>1, <1>2

LEMMA SourcesInit == Init => SourcesInv
<1> SUFFICES ASSUME Init PROVE SourcesInv
  OBVIOUS
<1>1. GreedyInv
  BY GreedyInit
<1>2. BlocksBuilt /\ PartsPacked
  BY DEF Init, BlocksBuilt, PartsPacked, IsSequence
<1> QED BY <1>1, <1>2 DEF SourcesInv

LEMMA SourcesBuild ==
    ASSUME SourcesInv, Build
    PROVE  BlocksBuilt' /\ PartsPacked'
<1>1. /\ step = "build" /\ UNCHANGED <<input, selected, turn, parts>>
      /\ step' \in {"raised", "pack", "build"}
  BY DEF Build, search, output
<1>2. /\ blocks \in Seq(Redactions) /\ Len(blocks) < Len(selected)
      /\ selected \in Seq(Positions) /\ InputOk
      /\ parts = <<>> /\ turn = 1
  BY <1>1 DEF SourcesInv, BlocksBuilt, PartsPacked, GreedyInv, SearchTypes
<1>3. Redactions' = Redactions /\ \A n : Content(n)' = Content(n)
  BY <1>1 DEF Redactions, Content
<1>4. CASE UNCHANGED blocks /\ step' = "raised"
  BY <1>1, <1>2, <1>3, <1>4 DEF SourcesInv, BlocksBuilt, PartsPacked, Searching, Content, IsSequence
<1>5. CASE /\ blocks' = Append(blocks, Redacted(input.scans[Content(selected[Len(blocks) + 1])]))
           /\ step' = IF Len(blocks') = Len(selected) THEN "pack" ELSE "build"
  <2> DEFINE k == Len(blocks) + 1
             r == Redacted(input.scans[Content(selected[k])])
  <2>1. k \in 1 .. Len(selected) /\ selected[k] \in Positions
    BY <1>2
  <2>2. r \in Redactions
    BY <2>1, <1>2, InputTypes DEF Redactions
  <2> HIDE DEF r
  <2>3. blocks' = Append(blocks, r)
    BY <1>5 DEF r
  <2>4. /\ blocks' \in Seq(Redactions) /\ Len(blocks') = k /\ blocks'[k] = r
        /\ \A n \in 1 .. Len(blocks) : blocks'[n] = blocks[n]
    BY <1>2, <2>2, <2>3
  <2>5. Len(blocks') <= Len(selected) /\ (step' = "build" => Len(blocks') < Len(selected))
    BY <1>2, <1>5, <2>4
  <2>6. \A n \in DOMAIN blocks' : blocks'[n] = Redacted(input.scans[Content(selected[n])])
    <3> SUFFICES ASSUME NEW n \in 1 .. k PROVE blocks'[n] = Redacted(input.scans[Content(selected[n])])
      BY <2>4, <1>2
    <3>1. CASE n = k
      BY <3>1, <2>4 DEF r
    <3>2. CASE n \in 1 .. Len(blocks)
      BY <3>2, <2>4, <1>2 DEF SourcesInv, BlocksBuilt
    <3> QED BY <3>1, <3>2, <1>2
  <2>7. BlocksBuilt'
    BY <1>1, <1>3, <1>5, <2>4, <2>5, <2>6 DEF BlocksBuilt, Searching, Content
  <2>8. PartsPacked'
    BY <1>1, <1>2, <2>4 DEF PartsPacked, IsSequence
  <2> QED BY <2>7, <2>8
<1> QED BY <1>4, <1>5 DEF Build

LEMMA SourcesPack ==
    ASSUME SourcesInv, Pack
    PROVE  BlocksBuilt' /\ PartsPacked'
<1>1. step = "pack" /\ UNCHANGED <<input, selected, blocks>>
  BY DEF Pack, search
<1>2. /\ turn \in Nat \ {0} /\ turn <= Len(blocks) + 1 /\ Len(blocks) \in Nat
      /\ IsSequence(parts)
  BY DEF SourcesInv, BlocksBuilt, PartsPacked
<1>3. step' \in {"pack", "done"}
  BY <1>1 DEF Pack
<1>4. BlocksBuilt'
  BY <1>1, <1>3, SameInput DEF SourcesInv, BlocksBuilt, Searching, Redactions, Content
<1>5. CASE UNCHANGED <<turn, parts>>
  BY <1>1, <1>3, <1>4, <1>5 DEF SourcesInv, PartsPacked, IsSequence
<1>6. CASE ~UNCHANGED <<turn, parts>>
  <2> DEFINE b == Fitted(turn, Available)
  <2>1. ~(turn > Len(blocks)) /\ turn' = turn + 1
    BY <1>6 DEF Pack, output
  <2>2. parts' = parts \/ parts' = Append(parts, b)
    BY <1>6 DEF Pack, output, Numbered
  <2>3. b.source = turn /\ b.document = selected[turn]
    BY FittedIsOfItsTurn
  <2> HIDE DEF b
  <2>4. turn' \in Nat \ {0} /\ turn' <= Len(blocks') + 1
    BY <1>1, <1>2, <2>1
  <2>5. CASE parts' = parts
    BY <1>1, <1>2, <1>3, <1>4, <2>1, <2>4, <2>5 DEF SourcesInv, PartsPacked, IsSequence
  <2>6. CASE parts' = Append(parts, b)
    <3>1. PICK S : parts \in Seq(S)
      BY <1>2 DEF IsSequence
    <3>2. parts \in Seq(S \cup {b})
      BY <3>1
    <3>3. /\ parts' \in Seq(S \cup {b}) /\ Len(parts) \in Nat
          /\ DOMAIN parts = 1 .. Len(parts) /\ DOMAIN parts' = 1 .. (Len(parts) + 1)
          /\ parts'[Len(parts) + 1] = b
          /\ \A n \in 1 .. Len(parts) : parts'[n] = parts[n]
      BY <3>2, <2>6
    <3>4. IsSequence(parts')
      BY <3>3 DEF IsSequence
    <3>5. \A n \in DOMAIN parts : /\ parts[n].source \in 1 .. (turn - 1)
                                  /\ parts[n].document = selected[parts[n].source]
      BY DEF SourcesInv, PartsPacked
    <3>6. ASSUME NEW n \in DOMAIN parts'
          PROVE  /\ parts'[n].source \in 1 .. (turn' - 1)
                 /\ parts'[n].document = selected'[parts'[n].source]
      <4>1. CASE n = Len(parts) + 1
        BY <4>1, <3>3, <2>1, <2>3, <1>1, <1>2
      <4>2. CASE n \in DOMAIN parts
        BY <4>2, <3>3, <3>5, <2>1, <1>1, <1>2
      <4> QED BY <4>1, <4>2, <3>3
    <3>7. ASSUME NEW m \in DOMAIN parts', NEW n \in DOMAIN parts', m < n
          PROVE  parts'[m].source < parts'[n].source
      <4>1. m \in DOMAIN parts /\ parts'[m] = parts[m]
        BY <3>3, <3>7
      <4>2. CASE n = Len(parts) + 1
        BY <4>1, <4>2, <3>3, <3>5, <2>3, <1>2
      <4>3. CASE n \in DOMAIN parts
        BY <4>1, <4>3, <3>3, <3>7 DEF SourcesInv, PartsPacked
      <4> QED BY <4>2, <4>3, <3>3
    <3> QED BY <1>3, <1>4, <2>4, <3>4, <3>6, <3>7 DEF PartsPacked, IsSequence
  <2> QED BY <2>2, <2>5, <2>6
<1> QED BY <1>4, <1>5, <1>6

\* Before the blocks are built there is nothing to disturb.
LEMMA SourcesSearch ==
    ASSUME SourcesInv, GreedyInv', input' = input, UNCHANGED <<blocks, output>>,
           Searching \/ step = "deduplicate",
           step' = "build" => selected' # <<>>, step' # "pack"
    PROVE  BlocksBuilt' /\ PartsPacked'
<1>1. blocks = <<>> /\ blocks' = <<>> /\ parts = <<>> /\ turn = 1 /\ parts' = <<>> /\ turn' = 1
  BY DEF SourcesInv, BlocksBuilt, PartsPacked, Searching, output
<1>2. selected' \in Seq(Positions)
  BY SameInput DEF GreedyInv, SearchTypes
<1>3. BlocksBuilt'
  BY <1>1, <1>2 DEF BlocksBuilt
<1>4. PartsPacked'
  BY <1>1 DEF PartsPacked, IsSequence
<1> QED BY <1>3, <1>4

LEMMA SourcesNext == SourcesInv /\ [Next]_vars => SourcesInv'
<1> SUFFICES ASSUME SourcesInv, [Next]_vars PROVE SourcesInv'
  OBVIOUS
<1>1. GreedyInv'
  BY GreedyNext DEF SourcesInv
<1>2. CASE Deduplicate
  BY <1>1, <1>2, SourcesSearch DEF Deduplicate, SourcesInv
<1>3. CASE Embed
  BY <1>1, <1>3, SourcesSearch DEF Embed, SourcesInv, Searching
<1>4. CASE Round
  <2>1. step' = "build" => selected' # <<>>
    <3> SUFFICES ASSUME step' = "build", selected = <<>> PROVE FALSE
      BY <1>4 DEF Round
    <3>1. remaining = {}
      BY <1>4, ContextAssumption DEF Round, Enough
    <3>2. remaining = Unique /\ Unique # {}
      BY <1>4 DEF Round, SourcesInv, GreedyInv, Left, Searching, ToSet
    <3> QED BY <3>1, <3>2
  <2> QED BY <1>1, <1>4, <2>1, SourcesSearch DEF Round, SourcesInv, Searching
<1>5. ASSUME NEW i \in Positions, Consider(i) PROVE SourcesInv'
  BY <1>1, <1>5, SourcesSearch DEF Consider, SourcesInv, Searching
<1>6. CASE Select
  BY <1>1, <1>6, SourcesSearch DEF Select, SourcesInv, Searching
<1>7. CASE Build
  BY <1>1, <1>7, SourcesBuild DEF SourcesInv
<1>8. CASE Pack
  BY <1>1, <1>8, SourcesPack DEF SourcesInv
<1>9. CASE UNCHANGED vars
  <2>1. BlocksBuilt'
    BY <1>9, SameInput DEF vars, search, SourcesInv, BlocksBuilt, Searching, Redactions, Content
  <2>2. PartsPacked'
    BY <1>9 DEF vars, search, output, SourcesInv, PartsPacked, IsSequence
  <2> QED BY <1>1, <2>1, <2>2 DEF SourcesInv
<1> QED BY <1>2, <1>3, <1>4, <1>5, <1>6, <1>7, <1>8, <1>9 DEF Next

LEMMA SourcesAlways == Spec => []SourcesInv
BY SourcesInit, SourcesNext, PTL DEF Spec

\* Whatever is compressed or left out, the number of a packed block is that of its
\* document among the selected ones, increases, and is one that the grounding
\* validator accepts.
THEOREM NumbersResolve == Spec => []SourcesResolve
<1>1. SourcesInv => SourcesResolve
  <2> SUFFICES ASSUME SourcesInv PROVE SourcesResolve
    OBVIOUS
  <2>1. Len(selected) <= Len(input.documents) /\ Positions = 1 .. Len(input.documents)
    BY SelectedFew, InputTypes DEF SourcesInv, GreedyInv, SearchTypes
  <2>2. /\ turn \in Nat /\ turn - 1 <= Len(blocks) /\ Len(blocks) <= Len(selected)
        /\ Len(blocks) \in Nat /\ Len(selected) \in Nat /\ Len(input.documents) \in Nat
    BY InputTypes DEF SourcesInv, PartsPacked, BlocksBuilt, GreedyInv, SearchTypes
  <2>3. \A k \in 1 .. (turn - 1) : k \in Positions
    BY <2>1, <2>2
  <2> QED BY <2>3 DEF SourcesInv, PartsPacked, SourcesResolve
<1> QED BY <1>1, SourcesAlways, PTL
-----------------------------------------------------------------------------
(* The text of a block.                                                    *)

\* What texts are made of, and what is detected in a text of so many characters.
Kinds  == {"email", "phone", "aadhaar"}
Chars  == ({"character"} \cup Kinds) \X Nat
Marks  == Kinds \X Nat
Found(length) == {e \in [type : Kinds, start : Nat, end : Nat] : e.start < e.end /\ e.end <= length}

LEMMA KindsOfPatterns == ToSet(Patterns) = Kinds /\ DOMAIN Patterns = 1..3
<1>1. DOMAIN Patterns = 1..3 /\ Patterns[1] = "email" /\ Patterns[2] = "phone" /\ Patterns[3] = "aadhaar"
  BY DEF Patterns
<1>2. \A i \in 1..3 : i = 1 \/ i = 2 \/ i = 3
  OBVIOUS
<1>3. ToSet(Patterns) = {Patterns[i] : i \in 1..3}
  BY <1>1 DEF ToSet
<1>4. ToSet(Patterns) \subseteq Kinds
  BY <1>1, <1>2, <1>3 DEF Kinds
<1>5. Kinds \subseteq ToSet(Patterns)
  <2>1. 1 \in 1..3 /\ 2 \in 1..3 /\ 3 \in 1..3
    OBVIOUS
  <2> QED BY <1>1, <1>3, <2>1 DEF Kinds
<1> QED BY <1>1, <1>4, <1>5

LEMMA MarkerType ==
    ASSUME NEW length, NEW e \in Found(length)
    PROVE  /\ Marker(e) \in Seq(Chars) /\ Len(Marker(e)) = MarkerSize /\ MarkerSize \in Nat \ {0}
           /\ \A i \in 1..MarkerSize : Marker(e)[i] \in Marks
<1>1. MarkerSize \in Nat \ {0}
  BY RedactionAssumption
<1>2. \A i \in 1..MarkerSize : <<e.type, i>> \in Marks /\ <<e.type, i>> \in Chars
  BY <1>1 DEF Found, Marks, Chars
<1> QED BY <1>1, <1>2 DEF Marker

\* The slices of a text are texts.
LEMMA SliceType ==
    ASSUME NEW S, NEW text \in Seq(S), NEW n \in Nat
    PROVE  /\ UpTo(text, n) \in Seq(S) /\ After(text, n) \in Seq(S)
           /\ n <= Len(text) => UpTo(text, n) = SubSeq(text, 1, n) /\ Len(UpTo(text, n)) = n
<1>1. PICK k \in Nat : k = Len(text) /\ DOMAIN text = 1..k
  BY LenProperties
<1>2. PICK m : m = Min({n, k})
  OBVIOUS
<1>3. m \in {n, k} /\ \A y \in {n, k} : m <= y
  <2>1. {n, k} \in SUBSET Nat /\ {n, k} # {}
    BY <1>1
  <2> QED BY <1>2, <2>1, MinOf
<1>4. m \in 0..k /\ (n <= k => m = n)
  BY <1>3
<1>5. UpTo(text, n) = SubSeq(text, 1, m)
  BY <1>1, <1>2 DEF UpTo
<1>6. UpTo(text, n) \in Seq(S) /\ Len(SubSeq(text, 1, m)) = m
  <2>1. \A i \in 1..m : text[i] \in S /\ i \in 1..k
    BY <1>1, <1>4, ElementOfSeq
  <2> QED BY <1>1, <1>4, <1>5, <2>1, FrontPart
<1>7. After(text, n) \in Seq(S)
  <2>1. CASE n + 1 <= k
    BY <1>1, <2>1, PartType DEF After
  <2>2. CASE ~(n + 1 <= k)
    BY <1>1, <2>2, EmptySeq DEF After
  <2> QED BY <2>1, <2>2
<1> QED BY <1>1, <1>4, <1>5, <1>6, <1>7

LEMMA ReplacedType ==
    ASSUME NEW length, NEW e \in Found(length), NEW text \in Seq(Chars)
    PROVE  Replaced(text, e) \in Seq(Chars)
<1>1. e.start \in Nat /\ e.end \in Nat
  BY DEF Found
<1>2. UpTo(text, e.start) \in Seq(Chars) /\ After(text, e.end) \in Seq(Chars)
  BY <1>1, SliceType
<1> QED BY <1>2, MarkerType, ConcatProperties DEF Replaced

\* The entities from the end of the text toward its beginning: entity i of them is o[i].
Backward(es, o, s) ==
    /\ o \in [1..Len(s) -> 1..Len(s)]
    /\ \A i, j \in 1..Len(s) : o[i] = o[j] => i = j
    /\ \A k \in 1..Len(s) : \E i \in 1..Len(s) : o[i] = k
    /\ Len(es) = Len(s) /\ \A i \in 1..Len(s) : es[i] = s[o[i]]
    /\ \A i, j \in 1..Len(s) : i < j => es[j].start <= es[i].start

LEMMA SortedBackward ==
    ASSUME NEW length, NEW s \in Seq(Found(length))
    PROVE  LastStartFirst(s) \in Seq(Found(length)) /\ \E o : Backward(LastStartFirst(s), o, s)
<1>1. PICK n \in Nat : n = Len(s) /\ DOMAIN s = 1..n
  BY LenProperties
<1>2. \A i \in 1..n : s[i] \in Found(length) /\ s[i].start \in Nat
  BY <1>1, ElementOfSeq DEF Found
<1>3. PICK r : r = {p \in (1..n) \X (1..n) : Precedes(s, p[1], p[2])}
  OBVIOUS
<1>4. \A x, y \in 1..n : <<x, y>> \in r <=> Precedes(s, x, y)
  BY <1>3
<1>5. LastStartFirst(s) = Sorted(s, r)
  BY <1>1, <1>3 DEF LastStartFirst
<1>6. /\ \A x, y \in 1..n : x # y => Precedes(s, x, y) \/ Precedes(s, y, x)
      /\ \A x, y, z \in 1..n : Precedes(s, x, y) /\ Precedes(s, y, z) => Precedes(s, x, z)
      /\ \A x, y \in 1..n : Precedes(s, x, y) => s[y].start <= s[x].start
  BY <1>2 DEF Precedes
<1> DEFINE Good(o) == o \in Bijection(1..n, 1..n) /\ \A i, j \in 1..n : i < j => <<o[i], o[j]>> \in r
<1>7. PICK o : Good(o) /\ LastStartFirst(s) = [i \in 1..n |-> s[o[i]]]
  <2>1. IsFiniteSet(1..n) /\ Cardinality(1..n) = n
    BY FS_Interval
  <2>2. \A x, y \in 1..n : x # y => <<x, y>> \in r \/ <<y, x>> \in r
    BY <1>4, <1>6
  <2>3. \A x, y, z \in 1..n : <<x, y>> \in r /\ <<y, z>> \in r => <<x, z>> \in r
    BY <1>4, <1>6
  <2>4. PICK o : Orders(o, n, 1..n, r)
    BY <2>1, <2>2, <2>3, OrderExists
  <2>5. Good(o)
    BY <2>4 DEF Orders, Bijection, Injection, Surjection, IsInjective
  <2>6. PICK p : p = CHOOSE q \in Bijection(1..n, 1..n) : \A i, j \in 1..n : i < j => <<q[i], q[j]>> \in r
    OBVIOUS
  <2>7. Good(p)
    BY <2>5, <2>6
  <2>8. LastStartFirst(s) = [i \in 1..n |-> s[p[i]]]
    <3>1. Sorted(s, r) = [i \in 1..n |-> s[p[i]]]
      BY <1>1, <2>6 DEF Sorted
    <3> QED BY <1>5, <3>1
  <2> QED BY <2>7, <2>8
<1>8. /\ o \in [1..n -> 1..n]
      /\ \A i, j \in 1..n : o[i] = o[j] => i = j
      /\ \A k \in 1..n : \E i \in 1..n : o[i] = k
  BY <1>7 DEF Bijection, Injection, Surjection, IsInjective
<1>9. PICK es : es = LastStartFirst(s)
  OBVIOUS
<1>10. es \in Seq(Found(length)) /\ Len(es) = n /\ \A i \in 1..n : es[i] = s[o[i]]
  <2>1. \A i \in 1..n : s[o[i]] \in Found(length)
    BY <1>2, <1>8
  <2> QED BY <1>7, <1>9, <2>1
<1>11. \A i, j \in 1..n : i < j => es[j].start <= es[i].start
  <2>1. \A i, j \in 1..n : i < j => <<o[i], o[j]>> \in r
    BY <1>7
  <2>2. \A i, j \in 1..n : i < j => s[o[j]].start <= s[o[i]].start
    <3> SUFFICES ASSUME NEW i \in 1..n, NEW j \in 1..n, i < j PROVE s[o[j]].start <= s[o[i]].start
      OBVIOUS
    <3>1. o[i] \in 1..n /\ o[j] \in 1..n /\ Precedes(s, o[i], o[j])
      BY <1>8, <1>4, <2>1
    <3> QED BY <1>6, <3>1
  <2> QED BY <1>10, <2>2
<1>12. Backward(es, o, s)
  BY <1>1, <1>8, <1>10, <1>11 DEF Backward
<1> QED BY <1>9, <1>10, <1>12

\* A text from which the entities are cut, one after the other.
Cuts(d, es, text) ==
    /\ d \in [0..Len(es) -> Seq(Chars)] /\ d[0] = text
    /\ \A i \in 1..Len(es) : d[i] = Replaced(d[i - 1], es[i])

LEMMA CutSteps ==
    ASSUME NEW length, NEW es \in Seq(Found(length)), NEW text \in Seq(Chars)
    PROVE  \E d : Cuts(d, es, text) /\ FoldLeft(Replaced, text, es) = d[Len(es)]
<1>1. PICK n \in Nat : n = Len(es) /\ DOMAIN es = 1..n
  BY LenProperties
<1>0. \A i \in 1..n : es[i] \in Found(length)
  BY <1>1, ElementOfSeq
<1>2. PICK V : V = Seq(Chars)
  OBVIOUS
<1>3. PICK op : op = [q \in (1..n) \X V |-> Replaced(q[2], es[q[1]])]
  OBVIOUS
<1>4. op \in [(1..n) \X V -> V]
  <2>1. ASSUME NEW i \in 1..n, NEW acc \in V PROVE Replaced(acc, es[i]) \in V
    BY <1>0, <1>2, ReplacedType
  <2> QED BY <1>3, <2>1
<1>5. text \in V
  BY <1>2
<1>6. \A i \in 1..n, acc \in V : op[<<i, acc>>] = Replaced(acc, es[i])
  BY <1>3
<1> DEFINE R(h) == h = [s \in SUBSET DOMAIN es |->
                          IF s = {} THEN text
                          ELSE LET x == Max(s)
                               IN  Replaced(h[s \ {x}], es[x])]
<1>7. PICK g \in [SUBSET (1..n) -> V] : Unfolds(g, n, op, text)
  BY <1>4, <1>5, FoldUnfolds
<1>8. R(g)
  <2>1. ASSUME NEW s \in SUBSET (1..n), s # {}
        PROVE  g[s] = Replaced(g[s \ {Max(s)}], es[Max(s)])
    BY <1>6, <1>7, <2>1 DEF Unfolds
  <2>2. \A s \in SUBSET (1..n) : s # {} => Max(s) \in 1..n
    BY <1>7 DEF Unfolds
  <2>3. g[{}] = text
    BY <1>7 DEF Unfolds
  <2> QED BY <1>1, <2>1, <2>2, <2>3
<1>9. PICK h : h = CHOOSE x : R(x)
  OBVIOUS
<1>10. R(h)
  BY <1>8, <1>9
<1>11. FoldLeft(Replaced, text, es) = h[1..n]
  BY <1>1, <1>9 DEF FoldLeft, MapThenFoldSet
<1>12. Follows(h, n, op, text, V)
  <2>0. h[{}] = text
    BY <1>10
  <2> SUFFICES ASSUME NEW s \in SUBSET (1..n), s # {}, h[s \ {Max(s)}] \in V
               PROVE  h[s] = op[<<Max(s), h[s \ {Max(s)}]>>]
    BY <2>0 DEF Follows
  <2>1. Max(s) \in 1..n
    BY <1>7 DEF Unfolds
  <2>2. h[s] = Replaced(h[s \ {Max(s)}], es[Max(s)])
    BY <1>1, <1>10, <2>1
  <2> QED BY <1>6, <2>1, <2>2
<1> HIDE DEF R
<1>13. PICK d \in [0..n -> V] : Chain(d, n, op, text) /\ EndsWith(d, n, h[1..n])
  BY <1>4, <1>5, <1>12, FoldChain
<1>14. ASSUME NEW i \in 1..n PROVE d[i] = Replaced(d[i - 1], es[i])
  <2>1. i - 1 \in 0..n
    OBVIOUS
  <2> QED BY <1>6, <1>13, <2>1 DEF Chain
<1>15. Cuts(d, es, text)
  BY <1>1, <1>2, <1>13, <1>14 DEF Cuts, Chain
<1> QED BY <1>1, <1>11, <1>13, <1>15 DEF EndsWith

\* The characters a + 1 .. b of a text.
Stretch(a, b) == [i \in 1..(b - a) |-> <<"character", a + i>>]

LEMMA StretchType ==
    ASSUME NEW a \in Nat, NEW b \in Nat, a <= b
    PROVE  /\ Stretch(a, b) \in Seq(Chars) /\ Len(Stretch(a, b)) = b - a
           /\ DOMAIN Stretch(a, b) = 1..(b - a)
           /\ \A i \in 1..(b - a) : Stretch(a, b)[i] = <<"character", a + i>> /\ a + i \in Nat
<1>1. b - a \in Nat
  OBVIOUS
<1>2. \A i \in 1..(b - a) : <<"character", a + i>> \in Chars /\ a + i \in Nat
  BY DEF Chars
<1> QED BY <1>1, <1>2 DEF Stretch

LEMMA StretchSplit ==
    ASSUME NEW a \in Nat, NEW b \in Nat, NEW c \in Nat, a <= b, b <= c
    PROVE  Stretch(a, c) = Stretch(a, b) \o Stretch(b, c)
<1>1. PICK n, m : n = b - a /\ m = c - b
  OBVIOUS
<1>2. n \in Nat /\ m \in Nat /\ c - a = n + m /\ b = a + n
  BY <1>1
<1>3. PICK s, t, all : s = Stretch(a, b) /\ t = Stretch(b, c) /\ all = Stretch(a, c)
  OBVIOUS
<1>4. /\ s \in Seq(Chars) /\ Len(s) = n /\ \A i \in 1..n : s[i] = <<"character", a + i>>
      /\ t \in Seq(Chars) /\ Len(t) = m /\ \A i \in 1..m : t[i] = <<"character", b + i>>
  BY <1>1, <1>3, StretchType
<1>5. all \in Seq(Chars) /\ Len(all) = n + m /\ \A i \in 1..(n + m) : all[i] = <<"character", a + i>>
  <2>1. a <= c
    OBVIOUS
  <2> QED BY <1>2, <1>3, <2>1, StretchType
<1>6. PICK u : u = s \o t
  OBVIOUS
<1>7. /\ u \in Seq(Chars) /\ Len(u) = n + m
      /\ \A i \in 1..(n + m) : u[i] = IF i <= n THEN s[i] ELSE t[i - n]
  <2>1. /\ u \in Seq(Chars) /\ Len(u) = Len(s) + Len(t)
        /\ \A i \in 1..(Len(s) + Len(t)) : u[i] = IF i <= Len(s) THEN s[i] ELSE t[i - Len(s)]
    BY <1>4, <1>6, ConcatProperties
  <2> QED BY <1>4, <2>1
<1>8. ASSUME NEW i \in 1..(n + m) PROVE u[i] = all[i]
  <2>1. CASE i <= n
    <3>1. i \in 1..n
      BY <1>2, <2>1
    <3>2. u[i] = s[i]
      BY <1>7, <2>1
    <3> QED BY <1>4, <1>5, <3>1, <3>2
  <2>2. CASE ~(i <= n)
    <3>1. i - n \in 1..m /\ b + (i - n) = a + i
      BY <1>2, <2>2
    <3> QED BY <1>4, <1>5, <1>7, <2>2, <3>1
  <2> QED BY <2>1, <2>2
<1>9. u = all
  BY <1>5, <1>7, <1>8, <1>2, SeqEqual
<1> QED BY <1>3, <1>6, <1>9

\* What slices of two texts in a row are.
LEMMA SliceOfFirst ==
    ASSUME NEW S, NEW s \in Seq(S), NEW t \in Seq(S), NEW n \in 0..Len(s)
    PROVE  /\ UpTo(s \o t, n) = SubSeq(s, 1, n)
           /\ After(s \o t, n) = After(s, n) \o t
<1>1. PICK k, m : k = Len(s) /\ m = Len(t)
  OBVIOUS
<1>2. k \in Nat /\ m \in Nat
  BY <1>1, LenProperties
<1>3. PICK u : u = s \o t
  OBVIOUS
<1>4. /\ u \in Seq(S) /\ Len(u) = k + m
      /\ \A i \in 1..(k + m) : u[i] = IF i <= k THEN s[i] ELSE t[i - k]
  <2>1. /\ u \in Seq(S) /\ Len(u) = Len(s) + Len(t)
        /\ \A i \in 1..(Len(s) + Len(t)) : u[i] = IF i <= Len(s) THEN s[i] ELSE t[i - Len(s)]
    BY <1>3, ConcatProperties
  <2> QED BY <1>1, <2>1
<1>5. \A i \in 1..k : s[i] \in S
  BY <1>1, ElementOfSeq
<1>6. \A i \in 1..(k + m) : u[i] \in S
  BY <1>4, ElementOfSeq
<1>7. n \in Nat /\ n <= k
  BY <1>1, <1>2
<1>8. UpTo(u, n) = SubSeq(s, 1, n)
  <2>1. UpTo(u, n) = SubSeq(u, 1, n)
    <3>1. n \in Nat /\ u \in Seq(S) /\ n <= Len(u)
      BY <1>2, <1>4, <1>7
    <3> QED BY <3>1, SliceType
  <2>2. PICK x, y : x = SubSeq(u, 1, n) /\ y = SubSeq(s, 1, n)
    OBVIOUS
  <2>3. n - 1 + 1 = n /\ 1 \in Int /\ n \in Int
    BY <1>7
  <2>4. /\ x \in Seq(S) /\ Len(x) = n /\ \A i \in 1..n : x[i] = u[i]
    <3>1. \A i \in 1..n : u[i] \in S
      BY <1>2, <1>6, <1>7
    <3>2. /\ x \in Seq(S) /\ Len(x) = (IF 1 <= n THEN n - 1 + 1 ELSE 0)
          /\ \A i \in 1..(n - 1 + 1) : x[i] = u[1 + i - 1]
      <4>1. 1 \in Int /\ n \in Int /\ \A i \in 1..n : u[i] \in S
        BY <2>3, <3>1
      <4> QED BY ONLY <2>2, <4>1, SubSeqProperties
    <3> QED BY <1>7, <2>3, <3>2
  <2>5. /\ y \in Seq(S) /\ Len(y) = n /\ \A i \in 1..n : y[i] = s[i]
    <3>1. \A i \in 1..n : s[i] \in S
      BY <1>5, <1>7
    <3>2. /\ y \in Seq(S) /\ Len(y) = (IF 1 <= n THEN n - 1 + 1 ELSE 0)
          /\ \A i \in 1..(n - 1 + 1) : y[i] = s[1 + i - 1]
      BY <2>2, <2>3, <3>1, SubSeqProperties
    <3> QED BY <1>7, <2>3, <3>2
  <2>6. \A i \in 1..n : x[i] = y[i]
    BY <1>2, <1>4, <1>7, <2>4, <2>5
  <2>7. x = y
    BY <2>4, <2>5, <2>6, SeqEqual
  <2> QED BY <2>1, <2>2, <2>7
<1>9. After(u, n) = After(s, n) \o t
  <2>1. PICK x, y, z : x = After(u, n) /\ y = After(s, n) /\ z = y \o t
    OBVIOUS
  <2>2. n + 1 \in Int /\ k \in Int /\ k + m \in Int
    BY <1>2, <1>7
  <2>3. x \in Seq(S) /\ Len(x) = k + m - n /\ \A i \in 1..(k + m - n) : x[i] = u[n + i]
    <3>1. \A i \in (n + 1)..(k + m) : u[i] \in S
      BY <1>2, <1>6, <1>7
    <3>2. x = SubSeq(u, n + 1, k + m)
      BY <1>4, <2>1 DEF After
    <3>3. /\ x \in Seq(S) /\ Len(x) = (IF n + 1 <= k + m THEN (k + m) - (n + 1) + 1 ELSE 0)
          /\ \A i \in 1..((k + m) - (n + 1) + 1) : x[i] = u[(n + 1) + i - 1]
      BY <2>2, <3>1, <3>2, SubSeqProperties
    <3>4. /\ (k + m) - (n + 1) + 1 = k + m - n
          /\ \A i \in 1..(k + m - n) : (n + 1) + i - 1 = n + i
      BY <1>2, <1>7
    <3> QED BY <1>2, <1>7, <3>3, <3>4
  <2>4. y \in Seq(S) /\ Len(y) = k - n /\ \A i \in 1..(k - n) : y[i] = s[n + i]
    <3>1. \A i \in (n + 1)..k : s[i] \in S
      BY <1>2, <1>5, <1>7
    <3>2. y = SubSeq(s, n + 1, k)
      BY <1>1, <2>1 DEF After
    <3>3. /\ y \in Seq(S) /\ Len(y) = (IF n + 1 <= k THEN k - (n + 1) + 1 ELSE 0)
          /\ \A i \in 1..(k - (n + 1) + 1) : y[i] = s[(n + 1) + i - 1]
      BY <2>2, <3>1, <3>2, SubSeqProperties
    <3>4. k - (n + 1) + 1 = k - n /\ \A i \in 1..(k - n) : (n + 1) + i - 1 = n + i
      BY <1>2, <1>7
    <3> QED BY <1>2, <1>7, <3>3, <3>4
  <2>5. PICK p : p = k - n
    OBVIOUS
  <2>6. p \in Nat /\ k = n + p /\ k + m - n = p + m
    BY <1>2, <1>7, <2>5
  <2>7. /\ z \in Seq(S) /\ Len(z) = p + m
        /\ \A i \in 1..(p + m) : z[i] = IF i <= p THEN y[i] ELSE t[i - p]
    <3>1. /\ z \in Seq(S) /\ Len(z) = Len(y) + Len(t)
          /\ \A i \in 1..(Len(y) + Len(t)) : z[i] = IF i <= Len(y) THEN y[i] ELSE t[i - Len(y)]
      BY <2>1, <2>4, ConcatProperties
    <3> QED BY <1>1, <2>4, <2>5, <3>1
  <2>8. ASSUME NEW i \in 1..(p + m) PROVE x[i] = z[i]
    <3>1. x[i] = u[n + i] /\ n + i \in 1..(k + m)
      BY <1>2, <1>7, <2>3, <2>6
    <3>2. CASE i <= p
      <4>1. i \in 1..p /\ n + i <= k
        BY <2>6, <3>2
      <4> QED BY <1>4, <2>4, <2>5, <2>7, <3>1, <3>2, <4>1
    <3>3. CASE ~(i <= p)
      <4>1. ~(n + i <= k) /\ (n + i) - k = i - p
        BY <1>7, <2>6, <3>3
      <4> QED BY <1>4, <2>7, <3>1, <3>3, <4>1
    <3> QED BY <3>2, <3>3
  <2>9. x = z
    BY <1>2, <2>3, <2>6, <2>7, <2>8, SeqEqual
  <2> QED BY <2>1, <2>9
<1> QED BY <1>3, <1>8, <1>9

LEMMA SliceOfSecond ==
    ASSUME NEW S, NEW s \in Seq(S), NEW t \in Seq(S), NEW n \in 0..Len(t)
    PROVE  After(s \o t, Len(s) + n) = After(t, n)
<1>1. PICK k, m : k = Len(s) /\ m = Len(t)
  OBVIOUS
<1>2. k \in Nat /\ m \in Nat /\ n \in Nat /\ n <= m
  BY <1>1, LenProperties
<1>3. PICK u : u = s \o t
  OBVIOUS
<1>4. /\ u \in Seq(S) /\ Len(u) = k + m
      /\ \A i \in 1..(k + m) : u[i] = IF i <= k THEN s[i] ELSE t[i - k]
  <2>1. /\ u \in Seq(S) /\ Len(u) = Len(s) + Len(t)
        /\ \A i \in 1..(Len(s) + Len(t)) : u[i] = IF i <= Len(s) THEN s[i] ELSE t[i - Len(s)]
    BY <1>3, ConcatProperties
  <2> QED BY <1>1, <2>1
<1>5. \A i \in 1..m : t[i] \in S
  BY <1>1, ElementOfSeq
<1>6. \A i \in 1..(k + m) : u[i] \in S
  BY <1>4, ElementOfSeq
<1>7. PICK x, y : x = After(u, k + n) /\ y = After(t, n)
  OBVIOUS
<1>8. x \in Seq(S) /\ Len(x) = m - n /\ \A i \in 1..(m - n) : x[i] = u[k + n + i]
  <2>1. \A i \in (k + n + 1)..(k + m) : u[i] \in S
    BY <1>2, <1>6
  <2>2. x = SubSeq(u, k + n + 1, k + m)
    BY <1>4, <1>7 DEF After
  <2>3. /\ x \in Seq(S) /\ Len(x) = (IF k + n + 1 <= k + m THEN (k + m) - (k + n + 1) + 1 ELSE 0)
        /\ \A i \in 1..((k + m) - (k + n + 1) + 1) : x[i] = u[(k + n + 1) + i - 1]
    <3>1. k + n + 1 \in Int /\ k + m \in Int
      BY <1>2
    <3> QED BY <2>1, <2>2, <3>1, SubSeqProperties
  <2>4. (k + m) - (k + n + 1) + 1 = m - n /\ \A i \in 1..(m - n) : (k + n + 1) + i - 1 = k + n + i
    BY <1>2
  <2> QED BY <1>2, <2>3, <2>4
<1>9. y \in Seq(S) /\ Len(y) = m - n /\ \A i \in 1..(m - n) : y[i] = t[n + i]
  <2>1. \A i \in (n + 1)..m : t[i] \in S
    BY <1>2, <1>5
  <2>2. y = SubSeq(t, n + 1, m)
    BY <1>1, <1>7 DEF After
  <2>3. /\ y \in Seq(S) /\ Len(y) = (IF n + 1 <= m THEN m - (n + 1) + 1 ELSE 0)
        /\ \A i \in 1..(m - (n + 1) + 1) : y[i] = t[(n + 1) + i - 1]
    <3>1. n + 1 \in Int /\ m \in Int
      BY <1>2
    <3> QED BY <2>1, <2>2, <3>1, SubSeqProperties
  <2>4. m - (n + 1) + 1 = m - n /\ \A i \in 1..(m - n) : (n + 1) + i - 1 = n + i
    BY <1>2
  <2> QED BY <1>2, <2>3, <2>4
<1>10. ASSUME NEW i \in 1..(m - n) PROVE x[i] = y[i]
  <2>1. k + n + i \in 1..(k + m) /\ ~(k + n + i <= k) /\ (k + n + i) - k = n + i
    BY <1>2
  <2> QED BY <1>4, <1>8, <1>9, <2>1
<1>11. m - n \in Nat
  BY <1>2
<1>12. x = y
  BY <1>8, <1>9, <1>10, <1>11, SeqEqual
<1> QED BY <1>1, <1>3, <1>7, <1>12

\* The slices of a stretch.
LEMMA SliceOfStretch ==
    ASSUME NEW b \in Nat, NEW n \in 0..b
    PROVE  SubSeq(Stretch(0, b), 1, n) = Stretch(0, n) /\ After(Stretch(0, b), n) = Stretch(n, b)
<1>1. n \in Nat /\ n <= b /\ 0 <= n /\ 0 <= b
  OBVIOUS
<1>2. PICK s, t : s = Stretch(0, n) /\ t = Stretch(n, b)
  OBVIOUS
<1>3. s \in Seq(Chars) /\ t \in Seq(Chars) /\ Len(s) = n
  <2>1. 0 \in Nat /\ n - 0 = n
    OBVIOUS
  <2> QED BY <1>1, <1>2, <2>1, StretchType
<1>4. Stretch(0, b) = s \o t
  BY <1>1, <1>2, StretchSplit
<1>5. PICK u : u = s \o t
  OBVIOUS
<1>6. /\ u \in Seq(Chars) /\ n <= Len(u)
  <2>1. u \in Seq(Chars) /\ Len(u) = Len(s) + Len(t) /\ Len(t) \in Nat
    BY <1>3, <1>5, ConcatProperties, LenProperties
  <2> QED BY <1>1, <1>3, <2>1
<1>7. UpTo(u, n) = SubSeq(s, 1, n) /\ After(u, n) = After(s, n) \o t
  <2>1. n \in 0..Len(s)
    BY <1>1, <1>3
  <2> QED BY <1>3, <1>5, <2>1, SliceOfFirst
<1>8. UpTo(u, n) = SubSeq(u, 1, n)
  BY <1>1, <1>6, SliceType
<1>9. SubSeq(s, 1, n) = s
  BY <1>3, FrontPart
<1>10. After(s, n) = <<>>
  BY <1>1, <1>3, SubSeqEmpty DEF After
<1> QED BY <1>2, <1>3, <1>4, <1>5, <1>7, <1>8, <1>9, <1>10, ConcatEmptySeq

\* The characters of the entities 1 .. m.
Gone(es, m) == {c \in {"character"} \X Nat : \E k \in 1..m : Covers(es[k], c[2])}

\* The text has w in it.
Occurs(w, text) == \E a, b \in Seq(Chars) : text = a \o (w \o b)

\* It still has when something is put in front.
LEMMA OccursLater ==
    ASSUME NEW w \in Seq(Chars), NEW text \in Seq(Chars), NEW p \in Seq(Chars), Occurs(w, text)
    PROVE  Occurs(w, p \o text)
<1>1. PICK a \in Seq(Chars), b \in Seq(Chars) : text = a \o (w \o b)
  BY DEF Occurs
<1>2. PICK t : t = w \o b
  OBVIOUS
<1>3. t \in Seq(Chars) /\ p \o a \in Seq(Chars)
  BY <1>2, ConcatProperties
<1>4. (p \o a) \o t = p \o (a \o t)
  BY <1>3, ConcatAssociative
<1> QED BY <1>1, <1>2, <1>3, <1>4 DEF Occurs

\* An entity that ends before all that was cut.
LEMMA CutApart ==
    ASSUME NEW length \in Nat, NEW e \in Found(length), NEW S \in 0..length, e.end <= S,
           NEW rest \in Seq(Chars)
    PROVE  Replaced(Stretch(0, S) \o rest, e)
             = Stretch(0, e.start) \o (Marker(e) \o (Stretch(e.end, S) \o rest))
<1>1. e.start \in Nat /\ e.end \in Nat /\ e.start < e.end /\ S \in Nat /\ 0 <= S /\ S - 0 = S
  BY DEF Found
<1>2. PICK text : text = Stretch(0, S)
  OBVIOUS
<1>3. text \in Seq(Chars) /\ Len(text) = S
  BY <1>1, <1>2, StretchType
<1>4. e.start \in 0..S /\ e.end \in 0..S
  BY <1>1
<1>5. UpTo(text \o rest, e.start) = SubSeq(text, 1, e.start)
  BY <1>3, <1>4, SliceOfFirst
<1>6. After(text \o rest, e.end) = After(text, e.end) \o rest
  BY <1>3, <1>4, SliceOfFirst
<1>7. SubSeq(text, 1, e.start) = Stretch(0, e.start) /\ After(text, e.end) = Stretch(e.end, S)
  BY <1>1, <1>2, <1>4, SliceOfStretch
<1>8. Replaced(text \o rest, e) = Stretch(0, e.start) \o Marker(e) \o (Stretch(e.end, S) \o rest)
  BY <1>5, <1>6, <1>7 DEF Replaced
<1>9. PICK a, w, b : a = Stretch(0, e.start) /\ w = Marker(e) /\ b = Stretch(e.end, S) \o rest
  OBVIOUS
<1>10. a \in Seq(Chars) /\ w \in Seq(Chars) /\ b \in Seq(Chars)
  <2>1. Stretch(e.end, S) \in Seq(Chars)
    BY <1>1, StretchType
  <2>2. a \in Seq(Chars)
    <3>1. 0 \in Nat /\ 0 <= e.start
      BY <1>1
    <3> QED BY <1>1, <1>9, <3>1, StretchType
  <2>3. w \in Seq(Chars)
    BY <1>9, MarkerType
  <2> QED BY <1>9, <2>1, <2>2, <2>3, ConcatProperties
<1>11. a \o w \o b = a \o (w \o b)
  BY <1>10, ConcatAssociative
<1> QED BY <1>2, <1>8, <1>9, <1>11

\* The end of a marker is nothing but marks.
LEMMA MarkerTail ==
    ASSUME NEW length \in Nat, NEW f \in Found(length), NEW n \in 0..MarkerSize
    PROVE  /\ After(Marker(f), n) \in Seq(Chars)
           /\ \A i \in DOMAIN After(Marker(f), n) : After(Marker(f), n)[i] \in Marks
<1>1. PICK k, w, t : k = MarkerSize /\ w = Marker(f) /\ t = After(w, n)
  OBVIOUS
<1>2. k \in Nat /\ w \in Seq(Chars) /\ Len(w) = k /\ \A i \in 1..k : w[i] \in Marks
  BY <1>1, MarkerType
<1>3. n \in Nat /\ n <= k
  BY <1>1, <1>2
<1>4. t = SubSeq(w, n + 1, k)
  BY <1>1, <1>2 DEF After
<1>5. \A i \in (n + 1)..k : w[i] \in Marks
  BY <1>2, <1>3
<1>6. t \in Seq(Marks)
  <2>1. n + 1 \in Int /\ k \in Int
    BY <1>2, <1>3
  <2> QED BY <1>4, <1>5, <2>1, SubSeqProperties
<1>7. \A i \in DOMAIN t : t[i] \in Marks
  BY <1>6, ElementOfSeq, LenProperties
<1>8. t \in Seq(Chars)
  <2>1. Marks \subseteq Chars
    BY DEF Marks, Chars
  <2> QED BY <1>6, <2>1
<1> QED BY <1>1, <1>7, <1>8

\* An entity that begins before the last one cut and ends in what is now its marker.
LEMMA CutWithin ==
    ASSUME NEW length \in Nat, NEW e \in Found(length), NEW f \in Found(length),
           NEW S \in 0..length, e.start <= S, e.end > S, e.end - S <= MarkerSize,
           NEW rest \in Seq(Chars)
    PROVE  \E tail \in Seq(Chars) :
              /\ \A i \in DOMAIN tail : tail[i] \in Marks
              /\ Replaced(Stretch(0, S) \o (Marker(f) \o rest), e)
                   = Stretch(0, e.start) \o (Marker(e) \o (tail \o rest))
<1>1. e.start \in Nat /\ e.end \in Nat /\ e.start < e.end /\ S \in Nat /\ 0 <= S /\ S - 0 = S
  BY DEF Found
<1>2. PICK text, w, more : text = Stretch(0, S) /\ w = Marker(f) /\ more = w \o rest
  OBVIOUS
<1>3. text \in Seq(Chars) /\ Len(text) = S
  BY <1>1, <1>2, StretchType
<1>4. w \in Seq(Chars) /\ Len(w) = MarkerSize /\ MarkerSize \in Nat
  BY <1>2, MarkerType
<1>5. PICK n : n = e.end - S
  OBVIOUS
<1>6. n \in Nat /\ n \in 0..MarkerSize /\ e.end = S + n /\ e.start \in 0..S
  BY <1>1, <1>4, <1>5
<1>7. more \in Seq(Chars) /\ n \in 0..Len(more)
  <2>1. more \in Seq(Chars) /\ Len(more) = Len(w) + Len(rest) /\ Len(rest) \in Nat
    BY <1>2, <1>4, ConcatProperties, LenProperties
  <2> QED BY <1>4, <1>6, <2>1
<1>8. UpTo(text \o more, e.start) = SubSeq(text, 1, e.start)
  BY <1>3, <1>6, <1>7, SliceOfFirst
<1>9. SubSeq(text, 1, e.start) = Stretch(0, e.start)
  BY <1>1, <1>2, <1>6, SliceOfStretch
<1>10. After(text \o more, e.end) = After(more, n)
  <2>1. After(text \o more, Len(text) + n) = After(more, n)
    BY <1>3, <1>7, SliceOfSecond
  <2> QED BY <1>3, <1>6, <2>1
<1>11. After(more, n) = After(w, n) \o rest
  BY <1>2, <1>4, <1>6, SliceOfFirst
<1>12. PICK tail : tail = After(w, n)
  OBVIOUS
<1>13. tail \in Seq(Chars) /\ \A i \in DOMAIN tail : tail[i] \in Marks
  BY <1>2, <1>6, <1>12, MarkerTail
<1>14. Replaced(text \o more, e) = Stretch(0, e.start) \o Marker(e) \o (tail \o rest)
  BY <1>8, <1>9, <1>10, <1>11, <1>12 DEF Replaced
<1>15. PICK a, m, b : a = Stretch(0, e.start) /\ m = Marker(e) /\ b = tail \o rest
  OBVIOUS
<1>16. a \in Seq(Chars) /\ m \in Seq(Chars) /\ b \in Seq(Chars)
  <2>1. a \in Seq(Chars)
    <3>1. 0 \in Nat /\ 0 <= e.start
      BY <1>1
    <3> QED BY <1>1, <1>15, <3>1, StretchType
  <2>2. m \in Seq(Chars)
    BY <1>15, MarkerType
  <2> QED BY <1>13, <1>15, <2>1, <2>2, ConcatProperties
<1>17. a \o m \o b = a \o (m \o b)
  BY <1>16, ConcatAssociative
<1> QED BY <1>2, <1>13, <1>14, <1>15, <1>17

\* No character is a mark.
LEMMA CharactersKept ==
    ASSUME NEW a \in Nat, NEW b \in Nat, a <= b
    PROVE  Keep(Stretch(a, b), Marks) = Stretch(a, b)
<1>1. PICK s : s = Stretch(a, b)
  OBVIOUS
<1>2. /\ s \in Seq(Chars) /\ DOMAIN s = 1..(b - a)
      /\ \A i \in 1..(b - a) : s[i] = <<"character", a + i>>
  BY <1>1, StretchType
<1>3. \A i \in DOMAIN s : s[i] \notin Marks
  BY <1>2 DEF Marks, Kinds
<1> QED BY <1>1, <1>2, <1>3, KeepAll

\* Nothing is kept of a stretch that is gone, all of one that is not.
LEMMA StretchGone ==
    ASSUME NEW N, NEW a \in Nat, NEW b \in Nat, a <= b,
           \A i \in 1..(b - a) : <<"character", a + i>> \in N
    PROVE  Keep(Stretch(a, b), N) = <<>>
<1>1. PICK s : s = Stretch(a, b)
  OBVIOUS
<1>2. s \in Seq(Chars) /\ \A i \in DOMAIN s : s[i] \in N
  BY <1>1, StretchType
<1> QED BY <1>1, <1>2, KeepNone

LEMMA StretchStays ==
    ASSUME NEW N, NEW a \in Nat, NEW b \in Nat, a <= b,
           \A i \in 1..(b - a) : <<"character", a + i>> \notin N
    PROVE  Keep(Stretch(a, b), N) = Stretch(a, b)
<1>1. PICK s : s = Stretch(a, b)
  OBVIOUS
<1>2. /\ s \in Seq(Chars) /\ DOMAIN s = 1..(b - a)
      /\ \A i \in 1..(b - a) : s[i] = <<"character", a + i>>
  BY <1>1, StretchType
<1>3. \A i \in DOMAIN s : s[i] \notin N
  BY <1>2
<1> QED BY <1>1, <1>2, <1>3, KeepAll

LEMMA StretchAgrees ==
    ASSUME NEW N, NEW M, NEW a \in Nat, NEW b \in Nat, a <= b,
           \A i \in 1..(b - a) : <<"character", a + i>> \in N <=> <<"character", a + i>> \in M
    PROVE  Keep(Stretch(a, b), N) = Keep(Stretch(a, b), M)
<1>1. PICK s : s = Stretch(a, b)
  OBVIOUS
<1>2. s \in Seq(Chars) /\ \A i \in DOMAIN s : s[i] \in N <=> s[i] \in M
  BY <1>1, StretchType
<1> QED BY <1>1, <1>2, KeepAgrees

LEMMA KeepSplit ==
    \A N : \A a, b, c \in Nat :
        a <= b /\ b <= c => Keep(Stretch(a, c), N) = Keep(Stretch(a, b), N) \o Keep(Stretch(b, c), N)
<1> TAKE N
<1> TAKE a, b, c \in Nat
<1> HAVE a <= b /\ b <= c
<1>1. Stretch(a, b) \in Seq(Chars) /\ Stretch(b, c) \in Seq(Chars)
  BY StretchType
<1>2. Stretch(a, c) = Stretch(a, b) \o Stretch(b, c)
  BY StretchSplit
<1> QED BY <1>1, <1>2, KeepConcat

\* Where the last of the first m entities begins.
Place(es, m, length) == IF m = 0 THEN length ELSE es[m].start

\* es are entities of a text of so many characters, those that begin later first.
Descending(es, length) ==
    /\ length \in Nat /\ es \in Seq(Found(length))
    /\ \A i, j \in 1..Len(es) : i < j => es[j].start <= es[i].start

\* What is left of the text from there on.
LeftOver(es, m, length, rest) ==
    rest \in Seq(Chars) /\ Keep(rest, Marks) = Keep(Stretch(Place(es, m, length), length), Gone(es, m))

LEMMA Places ==
    ASSUME NEW length, NEW es, Descending(es, length), NEW m \in 0..Len(es)
    PROVE  /\ Place(es, m, length) \in 0..length /\ length \in Nat /\ Len(es) \in Nat
           /\ \A k \in 1..m : k \in 1..Len(es) /\ es[k].start >= Place(es, m, length)
           /\ \A k \in 1..Len(es) : es[k] \in Found(length) /\ es[k].start \in Nat /\ es[k].end \in Nat
                                    /\ es[k].start < es[k].end /\ es[k].end <= length
           /\ m > 0 => m \in 1..m /\ Place(es, m, length) = es[m].start
           /\ m + 1 <= Len(es) => /\ m + 1 \in 1..Len(es) /\ Place(es, m + 1, length) = es[m + 1].start
                                  /\ es[m + 1].start <= Place(es, m, length)
<1>1. PICK n \in Nat : n = Len(es) /\ DOMAIN es = 1..n
  BY LenProperties DEF Descending
<1>2. \A k \in 1..n : es[k] \in Found(length)
  BY <1>1, ElementOfSeq DEF Descending
<1>3. \A k \in 1..n : es[k].start \in Nat /\ es[k].end \in Nat
                      /\ es[k].start < es[k].end /\ es[k].end <= length
  BY <1>2 DEF Found
<1>4. \A i, j \in 1..n : i < j => es[j].start <= es[i].start
  BY <1>1 DEF Descending
<1>5. length \in Nat /\ m \in 0..n
  BY <1>1 DEF Descending
<1>6. CASE m = 0
  <2>1. Place(es, m, length) = length /\ 1..m = {}
    BY <1>6 DEF Place
  <2>2. m + 1 <= n => 1 \in 1..n /\ Place(es, 1, length) = es[1].start /\ m + 1 = 1
    BY <1>1, <1>6 DEF Place
  <2>3. m + 1 <= n => es[1].start <= length
    BY <1>3, <1>5, <2>2
  <2> QED BY <1>1, <1>2, <1>3, <1>5, <1>6, <2>1, <2>2, <2>3
<1>7. CASE m # 0
  <2>1. Place(es, m, length) = es[m].start /\ m \in 1..n /\ m \in 1..m
    BY <1>5, <1>7 DEF Place
  <2>2. PICK S : S = es[m].start
    OBVIOUS
  <2>3. S \in Nat /\ S \in 0..length
    BY <1>3, <1>5, <2>1, <2>2
  <2>4. \A k \in 1..m : k \in 1..n /\ es[k].start >= S
    <3> SUFFICES ASSUME NEW k \in 1..m PROVE k \in 1..n /\ es[k].start >= S
      OBVIOUS
    <3>1. k \in 1..n
      BY <1>5
    <3>2. CASE k = m
      BY <2>2, <2>3, <3>1, <3>2
    <3>3. CASE k < m
      <4>1. es[m].start <= es[k].start
        BY <1>4, <2>1, <3>1, <3>3
      <4> QED BY <1>3, <2>2, <2>3, <3>1, <4>1
    <3> QED BY <3>1, <3>2, <3>3
  <2>5. m + 1 <= n => /\ m + 1 \in 1..n /\ Place(es, m + 1, length) = es[m + 1].start
                      /\ es[m + 1].start <= S
    BY <1>4, <1>5, <2>1, <2>2 DEF Place
  <2> QED BY <1>1, <1>2, <1>3, <1>5, <1>7, <2>1, <2>2, <2>3, <2>4, <2>5
<1> QED BY <1>6, <1>7

LEMMA InGone ==
    ASSUME NEW es, NEW m, NEW i \in Nat
    PROVE  <<"character", i>> \in Gone(es, m) <=> \E k \in 1..m : Covers(es[k], i)
BY DEF Gone

\* The entity ends before the others begin: its marker takes its place.
LEMMA LeftApart ==
    ASSUME NEW length, NEW es, Descending(es, length), NEW m \in 0..Len(es), m + 1 <= Len(es),
           NEW e, e = es[m + 1], NEW S, S = Place(es, m, length), e.end <= S,
           NEW rest, LeftOver(es, m, length, rest)
    PROVE  LeftOver(es, m + 1, length, Marker(e) \o (Stretch(e.end, S) \o rest))
<1>1. /\ S \in 0..length /\ length \in Nat /\ e \in Found(length) /\ e.start \in Nat /\ e.end \in Nat
      /\ e.start < e.end /\ e.end <= length /\ e.start <= S
      /\ Place(es, m + 1, length) = e.start /\ S \in Nat /\ S <= length /\ m \in Nat
  BY Places
<1>2. PICK x, y : x = e.start /\ y = e.end
  OBVIOUS
<1>3. /\ x \in Nat /\ y \in Nat /\ S \in Nat /\ length \in Nat /\ m \in Nat
      /\ x < y /\ x <= y /\ y <= S /\ S <= length /\ x <= length /\ y <= length
  BY <1>1, <1>2
<1>4. \A k \in 1..m : es[k].start \in Nat /\ es[k].end \in Nat /\ es[k].start >= S
  BY Places
<1>5. PICK N, M : N = Gone(es, m + 1) /\ M = Gone(es, m)
  OBVIOUS
<1>6. \A i \in Nat : <<"character", i>> \in M <=> \E k \in 1..m : es[k].start < i /\ i <= es[k].end
  <2> SUFFICES ASSUME NEW i \in Nat
               PROVE  <<"character", i>> \in M <=> \E k \in 1..m : es[k].start < i /\ i <= es[k].end
    OBVIOUS
  <2>1. \A k \in 1..m : Covers(es[k], i) <=> es[k].start < i /\ i <= es[k].end
    BY <1>4 DEF Covers
  <2> QED BY <1>5, <2>1, InGone
<1>7. \A i \in Nat : <<"character", i>> \in N <=> \/ <<"character", i>> \in M
                                                  \/ x < i /\ i <= y
  <2> SUFFICES ASSUME NEW i \in Nat
               PROVE  <<"character", i>> \in N <=> \/ <<"character", i>> \in M
                                                   \/ x < i /\ i <= y
    OBVIOUS
  <2>1. \A k : k \in 1..(m + 1) <=> k \in 1..m \/ k = m + 1
    BY <1>3
  <2>2. Covers(e, i) <=> x < i /\ i <= y
    BY <1>2, <1>3 DEF Covers
  <2>3. (\E k \in 1..(m + 1) : Covers(es[k], i)) <=> (\E k \in 1..m : Covers(es[k], i)) \/ Covers(e, i)
    BY <2>1
  <2> QED BY <1>5, <2>2, <2>3, InGone
<1>8. PICK a, b, c : a = Stretch(x, y) /\ b = Stretch(y, S) /\ c = Stretch(S, length)
  OBVIOUS
<1>9. a \in Seq(Chars) /\ b \in Seq(Chars) /\ c \in Seq(Chars)
  <2>1. a \in Seq(Chars)
    BY <1>3, <1>8, StretchType
  <2>2. b \in Seq(Chars)
    BY <1>3, <1>8, StretchType
  <2>3. c \in Seq(Chars)
    BY <1>3, <1>8, StretchType
  <2> QED BY <2>1, <2>2, <2>3
<1>10. Keep(a, N) = <<>>
  <2>1. \A i \in 1..(y - x) : <<"character", x + i>> \in N
    BY <1>3, <1>7
  <2> QED BY <1>3, <1>8, <2>1, StretchGone
<1>11. Keep(b, N) = b
  <2>1. \A i \in 1..(S - y) : <<"character", y + i>> \notin N
    <3> SUFFICES ASSUME NEW i \in 1..(S - y) PROVE <<"character", y + i>> \notin N
      OBVIOUS
    <3>1. y + i \in Nat /\ y + i <= S /\ ~(y + i <= y)
      BY <1>3
    <3>2. <<"character", y + i>> \notin M
      <4>1. \A k \in 1..m : ~(es[k].start < y + i)
        BY <1>3, <1>4, <3>1
      <4> QED BY <1>6, <3>1, <4>1
    <3> QED BY <1>7, <3>1, <3>2
  <2> QED BY <1>3, <1>8, <2>1, StretchStays
<1>12. Keep(c, N) = Keep(c, M)
  <2>1. \A i \in 1..(length - S) : <<"character", S + i>> \in N <=> <<"character", S + i>> \in M
    <3> SUFFICES ASSUME NEW i \in 1..(length - S)
                 PROVE  <<"character", S + i>> \in N <=> <<"character", S + i>> \in M
      OBVIOUS
    <3>1. S + i \in Nat /\ ~(S + i <= y)
      BY <1>3
    <3> QED BY <1>7, <3>1
  <2>2. S \in Nat /\ length \in Nat /\ S <= length
    BY <1>3
  <2>3. Keep(Stretch(S, length), N) = Keep(Stretch(S, length), M)
    BY ONLY <2>1, <2>2, StretchAgrees
  <2> QED BY <1>8, <2>3
<1>13. Keep(Stretch(x, length), N) = Keep(a, N) \o (Keep(b, N) \o Keep(c, N))
  <2>1. Keep(Stretch(x, length), N) = Keep(Stretch(x, y), N) \o Keep(Stretch(y, length), N)
    BY ONLY <1>3, KeepSplit
  <2>2. Keep(Stretch(y, length), N) = Keep(Stretch(y, S), N) \o Keep(Stretch(S, length), N)
    BY ONLY <1>3, KeepSplit
  <2> QED BY <1>2, <1>8, <2>1, <2>2
<1>14. PICK w, all : w = Marker(e) /\ all = w \o (b \o rest)
  OBVIOUS
<1>15. rest \in Seq(Chars) /\ w \in Seq(Chars) /\ b \o rest \in Seq(Chars) /\ all \in Seq(Chars)
  <2>1. rest \in Seq(Chars)
    BY DEF LeftOver
  <2>2. w \in Seq(Chars)
    BY <1>1, <1>14, MarkerType
  <2>3. b \o rest \in Seq(Chars)
    BY <1>9, <2>1, ConcatProperties
  <2> QED BY <1>14, <2>1, <2>2, <2>3, ConcatProperties
<1>16. Keep(all, Marks) = Keep(w, Marks) \o (Keep(b, Marks) \o Keep(rest, Marks))
  <2>1. PICK u : u = b \o rest
    OBVIOUS
  <2>2. Keep(w \o u, Marks) = Keep(w, Marks) \o Keep(u, Marks)
    BY <1>15, <2>1, KeepConcat
  <2>3. Keep(u, Marks) = Keep(b, Marks) \o Keep(rest, Marks)
    BY <1>9, <1>15, <2>1, KeepConcat
  <2> QED BY <1>14, <2>1, <2>2, <2>3
<1>17. Keep(w, Marks) = <<>>
  <2>1. \A i \in DOMAIN w : w[i] \in Marks
    <3>1. DOMAIN w = 1..MarkerSize /\ \A i \in 1..MarkerSize : w[i] \in Marks
      BY <1>1, <1>14, MarkerType, LenProperties
    <3> QED BY <3>1
  <2> QED BY <1>15, <2>1, KeepNone
<1>18. Keep(b, Marks) = b
  BY <1>3, <1>8, CharactersKept
<1>19. Keep(rest, Marks) = Keep(c, M)
  BY <1>5, <1>8 DEF LeftOver
<1>20. Keep(all, Marks) = Keep(Stretch(x, length), N)
  BY <1>10, <1>11, <1>12, <1>13, <1>16, <1>17, <1>18, <1>19
<1> QED BY <1>1, <1>2, <1>5, <1>8, <1>14, <1>15, <1>20 DEF LeftOver

\* The entity ends in the marker of the last one, where that ended.
LEMMA LeftWithin ==
    ASSUME NEW length, NEW es, Descending(es, length), NEW m \in 1..Len(es), m + 1 <= Len(es),
           NEW e, e = es[m + 1], NEW S, S = es[m].start, e.end > S, e.end = es[m].end,
           NEW later \in Seq(Chars), LeftOver(es, m, length, Marker(es[m]) \o later),
           NEW tail \in Seq(Chars), \A i \in DOMAIN tail : tail[i] \in Marks
    PROVE  LeftOver(es, m + 1, length, Marker(e) \o (tail \o later))
<1>1. m \in 0..Len(es) /\ m > 0
  BY DEF Descending
<1>2. /\ S \in 0..length /\ length \in Nat /\ e \in Found(length) /\ e.start \in Nat /\ e.end \in Nat
      /\ e.start < e.end /\ e.end <= length /\ e.start <= S /\ es[m] \in Found(length)
      /\ Place(es, m + 1, length) = e.start /\ S \in Nat /\ S <= length /\ m \in Nat
      /\ Place(es, m, length) = S /\ m \in 1..m
  BY <1>1, Places
<1>3. PICK x, y : x = e.start /\ y = e.end
  OBVIOUS
<1>4. /\ x \in Nat /\ y \in Nat /\ S \in Nat /\ length \in Nat /\ m \in Nat /\ m \in 1..m
      /\ x < y /\ x <= y /\ S < y /\ S <= length /\ x <= length /\ y <= length /\ x <= S
      /\ es[m].start = S
  BY <1>2, <1>3
<1>5. es[m].end = y
  BY <1>3
<1>6. \A k \in 1..m : es[k].start \in Nat /\ es[k].end \in Nat
  BY <1>1, Places
<1>7. PICK N, M : N = Gone(es, m + 1) /\ M = Gone(es, m)
  OBVIOUS
<1>8. \A i \in Nat : <<"character", i>> \in M <=> \E k \in 1..m : es[k].start < i /\ i <= es[k].end
  <2> SUFFICES ASSUME NEW i \in Nat
               PROVE  <<"character", i>> \in M <=> \E k \in 1..m : es[k].start < i /\ i <= es[k].end
    OBVIOUS
  <2>1. \A k \in 1..m : Covers(es[k], i) <=> es[k].start < i /\ i <= es[k].end
    BY <1>6 DEF Covers
  <2> QED BY <1>7, <2>1, InGone
<1>9. \A i \in Nat : <<"character", i>> \in N <=> \/ <<"character", i>> \in M
                                                  \/ x < i /\ i <= y
  <2> SUFFICES ASSUME NEW i \in Nat
               PROVE  <<"character", i>> \in N <=> \/ <<"character", i>> \in M
                                                   \/ x < i /\ i <= y
    OBVIOUS
  <2>1. \A k : k \in 1..(m + 1) <=> k \in 1..m \/ k = m + 1
    BY <1>4
  <2>2. Covers(e, i) <=> x < i /\ i <= y
    BY <1>3, <1>4 DEF Covers
  <2>3. (\E k \in 1..(m + 1) : Covers(es[k], i)) <=> (\E k \in 1..m : Covers(es[k], i)) \/ Covers(e, i)
    BY <2>1
  <2> QED BY <1>7, <2>2, <2>3, InGone
<1>10. PICK a, c : a = Stretch(x, S) /\ c = Stretch(S, length)
  OBVIOUS
<1>11. a \in Seq(Chars) /\ c \in Seq(Chars)
  <2>1. a \in Seq(Chars)
    BY <1>4, <1>10, StretchType
  <2>2. c \in Seq(Chars)
    BY <1>4, <1>10, StretchType
  <2> QED BY <2>1, <2>2
<1>12. Keep(a, N) = <<>>
  <2>1. \A i \in 1..(S - x) : <<"character", x + i>> \in N
    <3> SUFFICES ASSUME NEW i \in 1..(S - x) PROVE <<"character", x + i>> \in N
      OBVIOUS
    <3>1. x + i \in Nat /\ x < x + i /\ x + i <= y
      BY <1>4
    <3> QED BY <1>9, <3>1
  <2> QED BY <1>4, <1>10, <2>1, StretchGone
<1>13. Keep(c, N) = Keep(c, M)
  <2>1. \A i \in 1..(length - S) : <<"character", S + i>> \in N <=> <<"character", S + i>> \in M
    <3> SUFFICES ASSUME NEW i \in 1..(length - S)
                 PROVE  <<"character", S + i>> \in N <=> <<"character", S + i>> \in M
      OBVIOUS
    <3>1. S + i \in Nat /\ S < S + i
      BY <1>4
    <3>2. S + i <= y => <<"character", S + i>> \in M
      BY <1>4, <1>5, <1>8, <3>1
    <3> QED BY <1>9, <3>1, <3>2
  <2>2. S \in Nat /\ length \in Nat /\ S <= length
    BY <1>4
  <2>3. Keep(Stretch(S, length), N) = Keep(Stretch(S, length), M)
    BY ONLY <2>1, <2>2, StretchAgrees
  <2> QED BY <1>10, <2>3
<1>14. Keep(Stretch(x, length), N) = Keep(a, N) \o Keep(c, N)
  <2>1. x \in Nat /\ S \in Nat /\ length \in Nat /\ x <= S /\ S <= length
    BY <1>4
  <2>2. Keep(Stretch(x, length), N) = Keep(Stretch(x, S), N) \o Keep(Stretch(S, length), N)
    BY ONLY <2>1, KeepSplit
  <2> QED BY <1>3, <1>10, <2>2
<1>15. PICK w, v, all : w = Marker(e) /\ v = Marker(es[m]) /\ all = w \o (tail \o later)
  OBVIOUS
<1>16. w \in Seq(Chars) /\ v \in Seq(Chars) /\ tail \o later \in Seq(Chars) /\ all \in Seq(Chars)
  <2>1. w \in Seq(Chars) /\ v \in Seq(Chars)
    BY <1>2, <1>15, MarkerType
  <2>2. tail \o later \in Seq(Chars)
    BY ConcatProperties
  <2> QED BY <1>15, <2>1, <2>2, ConcatProperties
<1>17. Keep(all, Marks) = Keep(w, Marks) \o (Keep(tail, Marks) \o Keep(later, Marks))
  <2>1. PICK u : u = tail \o later
    OBVIOUS
  <2>2. Keep(w \o u, Marks) = Keep(w, Marks) \o Keep(u, Marks)
    BY <1>16, <2>1, KeepConcat
  <2>3. Keep(u, Marks) = Keep(tail, Marks) \o Keep(later, Marks)
    BY <2>1, KeepConcat
  <2> QED BY <1>15, <2>1, <2>2, <2>3
<1>18. Keep(v \o later, Marks) = Keep(v, Marks) \o Keep(later, Marks)
  BY <1>16, KeepConcat
<1>19. Keep(w, Marks) = <<>> /\ Keep(v, Marks) = <<>> /\ Keep(tail, Marks) = <<>>
  <2>1. \A i \in DOMAIN w : w[i] \in Marks
    <3>1. DOMAIN w = 1..MarkerSize /\ \A i \in 1..MarkerSize : w[i] \in Marks
      BY <1>2, <1>15, MarkerType, LenProperties
    <3> QED BY <3>1
  <2>2. \A i \in DOMAIN v : v[i] \in Marks
    <3>1. DOMAIN v = 1..MarkerSize /\ \A i \in 1..MarkerSize : v[i] \in Marks
      BY <1>2, <1>15, MarkerType, LenProperties
    <3> QED BY <3>1
  <2> QED BY <1>16, <2>1, <2>2, KeepNone
<1>20. Keep(v \o later, Marks) = Keep(c, M)
  BY <1>2, <1>7, <1>10, <1>15 DEF LeftOver
<1>21. Keep(later, Marks) \in Seq(Chars) /\ Keep(c, M) \in Seq(Chars)
  BY <1>11, KeptType
<1>22. Keep(later, Marks) = Keep(c, M)
  BY <1>18, <1>19, <1>20, <1>21, ConcatEmptySeq
<1>23. Keep(all, Marks) = Keep(c, M)
  BY <1>17, <1>19, <1>21, <1>22, ConcatEmptySeq
<1>24. Keep(Stretch(x, length), N) = Keep(c, M)
  BY <1>12, <1>13, <1>14, <1>21, ConcatEmptySeq
<1> QED BY <1>2, <1>3, <1>7, <1>15, <1>16, <1>23, <1>24 DEF LeftOver

\* Overlapping entities end together (EndTogether, of the entities in that order).
Together(es) ==
    \A i, j \in 1..Len(es) : i # j /\ Overlap(es[i], es[j]) =>
        es[i].end = es[j].end /\ es[i].end - es[i].start <= MarkerSize

\* Entity k is not part of another one.
Outer(es, k) ==
    \A j \in 1..Len(es) : j # k => ~Overlap(es[j], es[k]) \/ es[j].start > es[k].start

\* The markers of the first entities, but for the last of them, are in the text.
Marked(es, m, later) == \A k \in 1..(m - 1) : Outer(es, k) => Occurs(Marker(es[k]), later)

\* After m entities: the text up to the last one as it was, then its marker.
Redacting(text, es, m, length) ==
    \E rest : /\ LeftOver(es, m, length, rest)
              /\ text = Stretch(0, Place(es, m, length)) \o rest
              /\ m > 0 => \E later \in Seq(Chars) : rest = Marker(es[m]) \o later /\ Marked(es, m, later)

LEMMA RedactingBegins ==
    ASSUME NEW length, NEW es, Descending(es, length)
    PROVE  Redacting(Stretch(0, length), es, 0, length)
<1>1. length \in Nat /\ 0 \in 0..Len(es) /\ 0 \in Nat /\ Place(es, 0, length) = length
  BY LenProperties DEF Descending, Place
<1>2. Stretch(length, length) = <<>> /\ <<>> \in Seq(Chars)
  <2>1. Stretch(length, length) \in Seq(Chars) /\ Len(Stretch(length, length)) = 0
    BY <1>1, StretchType
  <2> QED BY <2>1, EmptySeq
<1>3. LeftOver(es, 0, length, <<>>)
  BY <1>1, <1>2, KeepNothing DEF LeftOver
<1>4. Stretch(0, length) \in Seq(Chars)
  BY <1>1, StretchType
<1>5. Stretch(0, length) = Stretch(0, Place(es, 0, length)) \o <<>>
  BY <1>1, <1>4, ConcatEmptySeq
<1>6. PICK r, z : r = <<>> /\ z = 0
  OBVIOUS
<1>7. LeftOver(es, z, length, r) /\ Stretch(0, length) = Stretch(0, Place(es, z, length)) \o r /\ ~(z > 0)
  BY <1>3, <1>5, <1>6
<1>8. Redacting(Stretch(0, length), es, z, length)
  BY <1>7 DEF Redacting
<1> QED BY <1>6, <1>8

LEMMA RedactingGoesOn ==
    ASSUME NEW length, NEW es, Descending(es, length), Together(es),
           NEW m \in 0..Len(es), m + 1 <= Len(es), NEW text, Redacting(text, es, m, length)
    PROVE  Redacting(Replaced(text, es[m + 1]), es, m + 1, length)
<1>1. PICK S : S = Place(es, m, length)
  OBVIOUS
<1>2. PICK e : e = es[m + 1]
  OBVIOUS
<1>3. PICK rest : /\ LeftOver(es, m, length, rest) /\ text = Stretch(0, S) \o rest
                  /\ m > 0 => \E later \in Seq(Chars) : rest = Marker(es[m]) \o later /\ Marked(es, m, later)
  BY <1>1 DEF Redacting
<1>4. /\ S \in 0..length /\ length \in Nat /\ e \in Found(length) /\ e.start \in Nat /\ e.end \in Nat
      /\ e.start < e.end /\ e.end <= length /\ e.start <= S /\ m \in Nat /\ S \in Nat /\ Len(es) \in Nat
      /\ Place(es, m + 1, length) = e.start /\ m + 1 \in 1..Len(es)
      /\ m > 0 => S = es[m].start /\ m \in 1..Len(es)
  BY <1>1, <1>2, Places
<1>5. \A k \in 1..Len(es) : Marker(es[k]) \in Seq(Chars)
  <2>1. \A k \in 1..Len(es) : es[k] \in Found(length)
    BY Places
  <2> QED BY <2>1, MarkerType
<1>6. rest \in Seq(Chars) /\ Marker(e) \in Seq(Chars)
  BY <1>2, <1>3, <1>4, <1>5 DEF LeftOver
\* Either way the marker is followed by more of the text.
<1>7. ASSUME NEW later \in Seq(Chars), Marked(es, m + 1, later),
             LeftOver(es, m + 1, length, Marker(e) \o later),
             Replaced(text, e) = Stretch(0, e.start) \o (Marker(e) \o later)
      PROVE  Redacting(Replaced(text, e), es, m + 1, length)
  <2>1. PICK r : r = Marker(e) \o later
    OBVIOUS
  <2>2. LeftOver(es, m + 1, length, r) /\ Replaced(text, e) = Stretch(0, Place(es, m + 1, length)) \o r
    BY <1>4, <1>7, <2>1
  <2>3. r = Marker(es[m + 1]) \o later /\ Marked(es, m + 1, later)
    BY <1>2, <1>7, <2>1
  <2> QED BY <2>2, <2>3 DEF Redacting
<1>8. CASE e.end <= S
  <2>1. PICK between : between = Stretch(e.end, S)
    OBVIOUS
  <2>2. between \in Seq(Chars)
    BY <1>4, <1>8, <2>1, StretchType
  <2>3. PICK later : later = between \o rest
    OBVIOUS
  <2>4. later \in Seq(Chars)
    BY <1>6, <2>2, <2>3, ConcatProperties
  <2>5. Replaced(text, e) = Stretch(0, e.start) \o (Marker(e) \o later)
    BY <1>3, <1>4, <1>6, <1>8, <2>1, <2>3, CutApart
  <2>6. LeftOver(es, m + 1, length, Marker(e) \o later)
    BY <1>1, <1>2, <1>3, <1>8, <2>1, <2>3, LeftApart
  <2>7. Marked(es, m + 1, later)
    <3> SUFFICES ASSUME NEW k \in 1..m, Outer(es, k) PROVE Occurs(Marker(es[k]), later)
      BY <1>4 DEF Marked
    <3>1. m > 0 /\ k \in 1..Len(es) /\ Marker(es[k]) \in Seq(Chars)
      BY <1>4, <1>5
    <3>2. PICK l \in Seq(Chars) : rest = Marker(es[m]) \o l /\ Marked(es, m, l)
      BY <1>3, <3>1
    <3>3. Marker(es[m]) \in Seq(Chars)
      BY <1>4, <1>5, <3>1
    <3>4. CASE k = m
      <4>1. later = between \o (Marker(es[k]) \o l)
        BY <2>3, <3>2, <3>4
      <4> QED BY <2>2, <4>1 DEF Occurs
    <3>5. CASE k # m
      <4>1. k \in 1..(m - 1)
        BY <1>4, <3>5
      <4>2. Occurs(Marker(es[k]), l)
        BY <3>2, <4>1 DEF Marked
      <4>3. Occurs(Marker(es[k]), rest)
        BY <3>1, <3>2, <3>3, <4>2, OccursLater
      <4> QED BY <1>6, <2>2, <2>3, <3>1, <4>3, OccursLater
    <3> QED BY <3>4, <3>5
  <2> QED BY <1>2, <1>7, <2>4, <2>5, <2>6, <2>7
<1>9. CASE ~(e.end <= S)
  <2>1. m > 0
    BY <1>1, <1>4, <1>9 DEF Place
  <2>2. /\ m \in 1..Len(es) /\ S = es[m].start /\ es[m] \in Found(length) /\ es[m].start \in Nat
        /\ es[m].end \in Nat /\ es[m].start < es[m].end
    <3>1. \A k \in 1..Len(es) : es[k] \in Found(length)
      BY Places
    <3>2. m \in 1..Len(es) /\ es[m] \in Found(length)
      BY <1>4, <2>1, <3>1
    <3> QED BY <1>4, <2>1, <3>2 DEF Found
  <2>3. Overlap(e, es[m])
    BY <1>4, <1>9, <2>2 DEF Overlap
  <2>4. e.end = es[m].end /\ e.end - e.start <= MarkerSize
    <3>1. m + 1 # m
      BY <1>4
    <3> QED BY <1>2, <1>4, <2>2, <2>3, <3>1 DEF Together
  <2>5. e.end > S /\ e.end - S <= MarkerSize
    BY <1>4, <1>9, <2>4, RedactionAssumption
  <2>6. PICK l \in Seq(Chars) : rest = Marker(es[m]) \o l /\ Marked(es, m, l)
    BY <1>3, <2>1
  <2>7. PICK tail \in Seq(Chars) :
             /\ \A i \in DOMAIN tail : tail[i] \in Marks
             /\ Replaced(text, e) = Stretch(0, e.start) \o (Marker(e) \o (tail \o l))
    <3>1. text = Stretch(0, S) \o (Marker(es[m]) \o l)
      BY <1>3, <2>6
    <3> QED BY <1>4, <2>2, <2>5, <3>1, CutWithin
  <2>8. PICK later : later = tail \o l
    OBVIOUS
  <2>9. later \in Seq(Chars)
    BY <2>8, ConcatProperties
  <2>10. LeftOver(es, m + 1, length, Marker(e) \o later)
    <3>1. LeftOver(es, m, length, Marker(es[m]) \o l)
      BY <1>3, <2>6
    <3> QED BY <1>2, <2>2, <2>4, <2>5, <2>7, <2>8, <3>1, LeftWithin
  <2>11. Marked(es, m + 1, later)
    <3> SUFFICES ASSUME NEW k \in 1..m, Outer(es, k) PROVE Occurs(Marker(es[k]), later)
      BY <1>4 DEF Marked
    <3>1. k \in 1..Len(es) /\ Marker(es[k]) \in Seq(Chars)
      BY <1>4, <1>5
    <3>2. k # m
      <4>1. m + 1 # m
        BY <1>4
      <4>2. ~(e.start > es[m].start)
        BY <1>4, <2>2
      <4> QED BY <1>2, <1>4, <2>3, <4>1, <4>2 DEF Outer
    <3>3. k \in 1..(m - 1)
      BY <1>4, <3>2
    <3>4. Occurs(Marker(es[k]), l)
      BY <2>6, <3>3 DEF Marked
    <3> QED BY <2>8, <3>1, <3>4, OccursLater
  <2> QED BY <1>2, <1>7, <2>7, <2>8, <2>9, <2>10, <2>11
<1> QED BY <1>8, <1>9

\* All entities are cut, and the markers of the outer ones are left.
LEMMA RedactingEnds ==
    ASSUME NEW length, NEW es, Descending(es, length), NEW text, Redacting(text, es, Len(es), length)
    PROVE  /\ text \in Seq(Chars)
           /\ Keep(text, Marks) = Keep(Stretch(0, length), Gone(es, Len(es)))
           /\ \A k \in 1..Len(es) : Outer(es, k) => Occurs(Marker(es[k]), text)
<1>1. PICK n : n = Len(es)
  OBVIOUS
<1>2. PICK S : S = Place(es, n, length)
  OBVIOUS
<1>3. n \in Nat /\ n \in 0..Len(es)
  BY <1>1, LenProperties DEF Descending
<1>4. /\ S \in 0..length /\ length \in Nat /\ S \in Nat /\ S <= length /\ 0 \in Nat /\ 0 <= S
      /\ \A k \in 1..n : es[k].start \in Nat /\ es[k].start >= S /\ es[k] \in Found(length)
      /\ n > 0 => n \in 1..n
  BY <1>1, <1>2, <1>3, Places
<1>5. PICK rest : /\ LeftOver(es, n, length, rest) /\ text = Stretch(0, S) \o rest
                  /\ n > 0 => \E later \in Seq(Chars) : rest = Marker(es[n]) \o later /\ Marked(es, n, later)
  BY <1>1, <1>2 DEF Redacting
<1>6. PICK s, N : s = Stretch(0, S) /\ N = Gone(es, n)
  OBVIOUS
<1>7. s \in Seq(Chars) /\ rest \in Seq(Chars) /\ Keep(rest, Marks) = Keep(Stretch(S, length), N)
  BY <1>2, <1>4, <1>5, <1>6, StretchType DEF LeftOver
<1>8. Keep(s, Marks) = s
  BY <1>4, <1>6, CharactersKept
<1>9. Keep(s, N) = s
  <2>1. \A i \in 1..(S - 0) : <<"character", 0 + i>> \notin N
    <3> SUFFICES ASSUME NEW i \in 1..S PROVE <<"character", i>> \notin N
      <4>1. S - 0 = S /\ \A i \in 1..S : 0 + i = i
        BY <1>4
      <4> QED BY <4>1
    <3>1. i \in Nat /\ i <= S
      BY <1>4
    <3>2. \A k \in 1..n : ~Covers(es[k], i)
      <4> SUFFICES ASSUME NEW k \in 1..n PROVE ~Covers(es[k], i)
        OBVIOUS
      <4>1. es[k].start \in Nat /\ es[k].end \in Nat /\ es[k].start >= S
        BY <1>4 DEF Found
      <4> QED BY <1>4, <3>1, <4>1 DEF Covers
    <3> QED BY <1>6, <3>1, <3>2, InGone
  <2>2. 0 \in Nat /\ S \in Nat /\ 0 <= S
    BY <1>4
  <2>3. Keep(Stretch(0, S), N) = Stretch(0, S)
    BY ONLY <2>1, <2>2, StretchStays
  <2> QED BY <1>6, <2>3
<1>10. Keep(Stretch(0, length), N) = Keep(s, N) \o Keep(Stretch(S, length), N)
  <2>1. 0 \in Nat /\ S \in Nat /\ length \in Nat /\ 0 <= S /\ S <= length
    BY <1>4
  <2>2. Keep(Stretch(0, length), N) = Keep(Stretch(0, S), N) \o Keep(Stretch(S, length), N)
    BY ONLY <2>1, KeepSplit
  <2> QED BY <1>6, <2>2
<1>11. text \in Seq(Chars) /\ Keep(text, Marks) = Keep(s, Marks) \o Keep(rest, Marks)
  BY <1>5, <1>6, <1>7, KeepConcat, ConcatProperties
<1>12. Keep(text, Marks) = Keep(Stretch(0, length), N)
  BY <1>7, <1>8, <1>9, <1>10, <1>11
<1>13. ASSUME NEW k \in 1..n, Outer(es, k) PROVE Occurs(Marker(es[k]), text)
  <2>1. n > 0 /\ Marker(es[k]) \in Seq(Chars)
    BY <1>3, <1>4, MarkerType
  <2>2. PICK l \in Seq(Chars) : rest = Marker(es[n]) \o l /\ Marked(es, n, l)
    BY <1>5, <2>1
  <2>3. Marker(es[n]) \in Seq(Chars)
    BY <1>4, <2>1, MarkerType
  <2>4. CASE k = n
    BY <1>5, <1>6, <1>7, <2>2, <2>4 DEF Occurs
  <2>5. CASE k # n
    <3>1. k \in 1..(n - 1)
      BY <1>3, <2>5
    <3>2. Occurs(Marker(es[k]), l)
      BY <1>13, <2>2, <3>1 DEF Marked
    <3>3. Occurs(Marker(es[k]), rest)
      BY <2>1, <2>2, <2>3, <3>2, OccursLater
    <3> QED BY <1>5, <1>6, <1>7, <2>1, <3>3, OccursLater
  <2> QED BY <2>4, <2>5
<1> QED BY <1>1, <1>6, <1>11, <1>12, <1>13

\* Where a text has w in it.
LEMMA OccursAt ==
    ASSUME NEW w \in Seq(Chars), Len(w) > 0, NEW text \in Seq(Chars), Occurs(w, text)
    PROVE  \E i \in 1..(Len(text) + 1 - Len(w)) : SubSeq(text, i, i + Len(w) - 1) = w
<1>1. PICK a \in Seq(Chars), b \in Seq(Chars) : text = a \o (w \o b)
  BY DEF Occurs
<1>2. PICK n, m, l, k : n = Len(a) /\ m = Len(w) /\ l = Len(b) /\ k = Len(text)
  OBVIOUS
<1>3. n \in Nat /\ m \in Nat /\ l \in Nat /\ k \in Nat /\ m > 0
  BY <1>2, LenProperties
<1>4. PICK t : t = w \o b
  OBVIOUS
<1>5. t \in Seq(Chars) /\ Len(t) = m + l /\ \A i \in 1..m : t[i] = w[i]
  <2>1. /\ t \in Seq(Chars) /\ Len(t) = Len(w) + Len(b)
        /\ \A i \in 1..(Len(w) + Len(b)) : t[i] = IF i <= Len(w) THEN w[i] ELSE b[i - Len(w)]
    BY <1>4, ConcatProperties
  <2>2. \A i \in 1..m : i \in 1..(m + l) /\ i <= m
    BY <1>3
  <2> QED BY <1>2, <2>1, <2>2
<1>6. k = n + m + l /\ \A i \in 1..m : text[n + i] = w[i]
  <2>1. /\ text \in Seq(Chars) /\ Len(text) = Len(a) + Len(t)
        /\ \A i \in 1..(Len(a) + Len(t)) : text[i] = IF i <= Len(a) THEN a[i] ELSE t[i - Len(a)]
    BY <1>1, <1>4, <1>5, ConcatProperties
  <2>2. k = n + m + l
    BY <1>2, <1>3, <1>5, <2>1
  <2>3. ASSUME NEW i \in 1..m PROVE text[n + i] = w[i]
    <3>1. n + i \in 1..(n + (m + l)) /\ ~(n + i <= n) /\ (n + i) - n = i
      BY <1>3
    <3>2. text[n + i] = t[i]
      BY <1>2, <1>5, <2>1, <3>1
    <3> QED BY <1>5, <3>2
  <2> QED BY <2>2, <2>3
<1>7. PICK i : i = n + 1
  OBVIOUS
<1>8. i \in 1..(k + 1 - m) /\ i \in Nat /\ i + m - 1 \in Nat /\ i + m - 1 = n + m
  BY <1>3, <1>6, <1>7
<1>9. PICK s : s = SubSeq(text, i, n + m)
  OBVIOUS
<1>10. s \in Seq(Chars) /\ Len(s) = m /\ \A j \in 1..m : s[j] = text[n + j]
  <2>1. \A j \in i..(n + m) : text[j] \in Chars
    <3>1. \A j \in i..(n + m) : j \in 1..k
      BY <1>3, <1>6, <1>7
    <3> QED BY <1>2, <3>1, ElementOfSeq
  <2>2. i \in Int /\ n + m \in Int
    BY <1>3, <1>7
  <2>3. /\ s \in Seq(Chars) /\ Len(s) = (IF i <= n + m THEN (n + m) - i + 1 ELSE 0)
        /\ \A j \in 1..((n + m) - i + 1) : s[j] = text[i + j - 1]
    BY <1>9, <2>1, <2>2, SubSeqProperties
  <2>4. (n + m) - i + 1 = m /\ i <= n + m /\ \A j \in 1..m : i + j - 1 = n + j
    BY <1>3, <1>7
  <2> QED BY <2>3, <2>4
<1>11. s = w
  <2>1. \A j \in 1..m : s[j] = w[j]
    BY <1>6, <1>10
  <2> QED BY <1>2, <1>10, <2>1, SeqEqual
<1>12. SubSeq(text, i, i + m - 1) = w
  BY <1>8, <1>9, <1>11
<1> QED BY <1>2, <1>8, <1>12

\* What is detected lies in the text.
LEMMA EntitiesType ==
    ASSUME NEW scan \in Scan
    PROVE  scan.length \in Nat /\ Entities(scan) \in Seq(Found(scan.length))
<1>1. /\ scan.length \in Nat /\ scan.matches \in [Kinds -> Seq(Span)]
      /\ \A p \in Kinds : \A m \in DOMAIN scan.matches[p] : scan.matches[p][m].end <= scan.length
  BY KindsOfPatterns DEF Scan
<1>2. PICK F : F = Found(scan.length)
  OBVIOUS
<1>3. ASSUME NEW p \in Kinds
      PROVE  [m \in DOMAIN scan.matches[p] |->
                 [type |-> p, start |-> scan.matches[p][m].start, end |-> scan.matches[p][m].end]] \in Seq(F)
  <2>1. PICK ms : ms = scan.matches[p]
    OBVIOUS
  <2>2. ms \in Seq(Span) /\ \A m \in DOMAIN ms : ms[m].end <= scan.length
    BY <1>1, <2>1
  <2>3. PICK n \in Nat : n = Len(ms) /\ DOMAIN ms = 1..n
    BY <2>2, LenProperties
  <2>4. \A m \in 1..n : ms[m] \in Span
    BY <2>2, <2>3, ElementOfSeq
  <2>5. \A m \in 1..n : [type |-> p, start |-> ms[m].start, end |-> ms[m].end] \in F
    BY <1>2, <2>2, <2>3, <2>4 DEF Found, Span
  <2>6. [m \in 1..n |-> [type |-> p, start |-> ms[m].start, end |-> ms[m].end]] \in Seq(F)
    BY <2>5
  <2> QED BY <2>1, <2>3, <2>6
<1>4. PICK all : all = [p \in DOMAIN Patterns |->
        [m \in DOMAIN scan.matches[Patterns[p]] |->
            [type  |-> Patterns[p],
             start |-> scan.matches[Patterns[p]][m].start,
             end   |-> scan.matches[Patterns[p]][m].end]]]
  OBVIOUS
<1>5. \A p \in 1..3 : all[p] \in Seq(F)
  <2> SUFFICES ASSUME NEW p \in 1..3 PROVE all[p] \in Seq(F)
    OBVIOUS
  <2>1. PICK k : k = Patterns[p]
    OBVIOUS
  <2>2. k \in Kinds
    <3>1. k \in ToSet(Patterns)
      BY <2>1, KindsOfPatterns DEF ToSet
    <3> QED BY <3>1, KindsOfPatterns
  <2>3. all[p] = [m \in DOMAIN scan.matches[k] |->
                     [type |-> k, start |-> scan.matches[k][m].start, end |-> scan.matches[k][m].end]]
    BY <1>4, <2>1, KindsOfPatterns
  <2> QED BY <1>3, <2>2, <2>3
<1>6. DOMAIN all = 1..3 /\ all = [p \in 1..3 |-> all[p]]
  BY <1>4, KindsOfPatterns
<1>7. all \in Seq(Seq(F))
  BY <1>5, <1>6
<1>8. FlattenSeq(all) \in Seq(F)
  BY <1>7, FlattenType
<1> QED BY <1>1, <1>2, <1>4, <1>8 DEF Entities

\* The redaction of a text cuts all entities.
LEMMA RedactedEntities ==
    ASSUME NEW scan \in Scan, NEW es, Descending(es, scan.length), Together(es),
           es = LastStartFirst(Entities(scan))
    PROVE  Redacting(Redacted(scan), es, Len(es), scan.length)
<1>1. PICK length : length = scan.length
  OBVIOUS
<1>2. PICK text : text = Stretch(0, length)
  OBVIOUS
<1>3. length \in Nat /\ es \in Seq(Found(length))
  BY <1>1 DEF Descending
<1>4. Text(scan) = text
  <2>1. length - 0 = length /\ \A i \in 1..length : 0 + i = i
    BY <1>3
  <2> QED BY <1>1, <1>2, <2>1 DEF Text, Stretch
<1>5. text \in Seq(Chars)
  <2>1. 0 \in Nat /\ 0 <= length
    BY <1>3
  <2> QED BY <1>2, <1>3, <2>1, StretchType
<1>6. PICK d : Cuts(d, es, text) /\ FoldLeft(Replaced, text, es) = d[Len(es)]
  BY <1>3, <1>5, CutSteps
<1>7. Redacted(scan) = d[Len(es)]
  BY <1>4, <1>6 DEF Redacted
<1>8. PICK n \in Nat : n = Len(es)
  BY <1>3, LenProperties
<1>9. PICK good : good = {i \in 0..n : Redacting(d[i], es, i, length)}
  OBVIOUS
<1>10. 0 \in good
  <2>1. Redacting(text, es, 0, length)
    BY <1>1, <1>2, RedactingBegins
  <2>2. d[0] = text
    BY <1>6 DEF Cuts
  <2>3. 0 \in 0..n
    OBVIOUS
  <2> QED BY ONLY <1>9, <2>1, <2>2, <2>3
<1>11. ASSUME NEW i \in 1..n, i - 1 \in good PROVE i \in good
  <2>1. PICK m : m = i - 1
    OBVIOUS
  <2>2. m \in 0..n /\ m + 1 = i /\ m + 1 <= n /\ i \in 0..n
    BY <2>1
  <2>3. Redacting(d[m], es, m, length)
    BY <1>9, <1>11, <2>1
  <2>4. Redacting(Replaced(d[m], es[m + 1]), es, m + 1, length)
    BY <1>1, <1>8, <2>2, <2>3, RedactingGoesOn
  <2>5. d[i] = Replaced(d[m], es[i])
    BY <1>6, <1>8, <2>1 DEF Cuts
  <2>6. Redacting(d[i], es, i, length)
    BY <2>2, <2>4, <2>5
  <2> QED BY ONLY <1>9, <2>2, <2>6
<1>12. \A i \in 1..n : i - 1 \in good => i \in good
  BY <1>11
<1>13. 0..n \subseteq good
  BY ONLY n \in Nat, <1>10, <1>12, UptoInduction
<1>14. n \in good
  BY <1>13
<1> QED BY <1>1, <1>7, <1>8, <1>9, <1>14

LEMMA RedactedExact ==
    ASSUME NEW scan \in Scan, EndTogether(Entities(scan))
    PROVE  CutExactly(scan, Redacted(scan))
<1>1. PICK length, entities, es, text, redacted :
          /\ length = scan.length /\ entities = Entities(scan) /\ es = LastStartFirst(entities)
          /\ text = Stretch(0, length) /\ redacted = Redacted(scan)
  OBVIOUS
<1>2. length \in Nat /\ entities \in Seq(Found(length))
  BY <1>1, EntitiesType
<1>3. es \in Seq(Found(length)) /\ \E o : Backward(es, o, entities)
  BY <1>1, <1>2, SortedBackward
<1>4. PICK o : Backward(es, o, entities)
  BY <1>3
<1>5. PICK n \in Nat : n = Len(entities) /\ DOMAIN entities = 1..n
  BY <1>2, LenProperties
<1>6. /\ Len(es) = n /\ \A i \in 1..n : o[i] \in 1..n /\ es[i] = entities[o[i]]
      /\ \A i, j \in 1..n : o[i] = o[j] => i = j
      /\ \A k \in 1..n : \E i \in 1..n : o[i] = k
      /\ \A i, j \in 1..n : i < j => es[j].start <= es[i].start
  BY <1>4, <1>5 DEF Backward
<1>7. Descending(es, length)
  BY <1>2, <1>3, <1>6 DEF Descending
<1>8. Together(es)
  <2> SUFFICES ASSUME NEW i \in 1..n, NEW j \in 1..n, i # j, Overlap(es[i], es[j])
               PROVE  es[i].end = es[j].end /\ es[i].end - es[i].start <= MarkerSize
    BY <1>6 DEF Together
  <2>1. PICK k, l : k = o[i] /\ l = o[j]
    OBVIOUS
  <2>2. /\ k \in 1..n /\ l \in 1..n /\ k # l /\ es[i] = entities[k] /\ es[j] = entities[l]
    BY <1>6, <2>1
  <2>3. Overlap(entities[k], entities[l])
    BY <2>2
  <2> QED BY <1>1, <1>5, <2>2, <2>3 DEF EndTogether
<1>9. Redacting(redacted, es, n, length)
  BY <1>1, <1>6, <1>7, <1>8, RedactedEntities
<1>10. /\ redacted \in Seq(Chars)
       /\ Keep(redacted, Marks) = Keep(text, Gone(es, n))
       /\ \A k \in 1..n : Outer(es, k) => Occurs(Marker(es[k]), redacted)
  <2>1. Redacting(redacted, es, Len(es), length)
    BY <1>6, <1>9
  <2>2. /\ redacted \in Seq(Chars)
        /\ Keep(redacted, Marks) = Keep(Stretch(0, length), Gone(es, Len(es)))
        /\ \A k \in 1..Len(es) : Outer(es, k) => Occurs(Marker(es[k]), redacted)
    BY ONLY <1>7, <2>1, RedactingEnds
  <2> QED BY <1>1, <1>6, <2>2
<1>11. text = Text(scan) /\ text \in Seq(Chars) /\ DOMAIN text = 1..length
       /\ \A i \in 1..length : text[i] = <<"character", i>>
  <2>1. length - 0 = length /\ \A i \in 1..length : 0 + i = i
    BY <1>2
  <2>2. text = Text(scan)
    BY <1>1, <2>1 DEF Text, Stretch
  <2>3. text \in Seq(Chars) /\ DOMAIN text = 1..(length - 0) /\ \A i \in 1..(length - 0) : text[i] = <<"character", 0 + i>>
    <3>1. 0 \in Nat /\ length \in Nat /\ 0 <= length
      BY <1>2
    <3> QED BY <1>1, <3>1, StretchType
  <2> QED BY <2>1, <2>2, <2>3
<1>12. \A s, N : Without(s, N) = Keep(s, N)
  BY DEF Without, Keep, Singles, Unless
<1>13. Without(redacted, {c \in ToSet(redacted) : ~IsCharacter(c)}) = Keep(redacted, Marks)
  <2>1. PICK N : N = {c \in ToSet(redacted) : ~IsCharacter(c)}
    OBVIOUS
  <2>2. \A k \in DOMAIN redacted : redacted[k] \in N <=> redacted[k] \in Marks
    <3> SUFFICES ASSUME NEW k \in DOMAIN redacted PROVE redacted[k] \in N <=> redacted[k] \in Marks
      OBVIOUS
    <3>1. redacted[k] \in Chars /\ redacted[k] \in ToSet(redacted)
      BY <1>10, ElementOfSeq, LenProperties DEF ToSet
    <3>2. ~IsCharacter(redacted[k]) <=> redacted[k] \in Marks
      BY <3>1 DEF IsCharacter, Chars, Marks, Kinds
    <3> QED BY <2>1, <3>1, <3>2
  <2>3. Keep(redacted, N) = Keep(redacted, Marks)
    BY <1>10, <2>2, KeepAgrees
  <2> QED BY <1>12, <2>1, <2>3
<1>14. Without(text, {c \in ToSet(text) : \E k \in DOMAIN entities : Covers(entities[k], c[2])})
         = Keep(text, Gone(es, n))
  <2>1. PICK N, M : N = {c \in ToSet(text) : \E k \in DOMAIN entities : Covers(entities[k], c[2])}
                    /\ M = Gone(es, n)
    OBVIOUS
  <2>2. \A i \in DOMAIN text : text[i] \in N <=> text[i] \in M
    <3> SUFFICES ASSUME NEW i \in 1..length PROVE text[i] \in N <=> text[i] \in M
      BY <1>11
    <3>1. text[i] = <<"character", i>> /\ text[i] \in ToSet(text) /\ text[i][2] = i /\ i \in Nat
      BY <1>2, <1>11 DEF ToSet
    <3>2. text[i] \in N <=> \E k \in 1..n : Covers(entities[k], i)
      BY <1>5, <2>1, <3>1
    <3>3. text[i] \in M <=> \E k \in 1..n : Covers(es[k], i)
      BY <2>1, <3>1, InGone
    <3>4. (\E k \in 1..n : Covers(entities[k], i)) <=> (\E k \in 1..n : Covers(es[k], i))
      <4>1. ASSUME NEW k \in 1..n, Covers(entities[k], i) PROVE \E j \in 1..n : Covers(es[j], i)
        <5>1. PICK j \in 1..n : o[j] = k
          BY <1>6
        <5>2. es[j] = entities[k]
          BY <1>6, <5>1
        <5> QED BY <4>1, <5>2
      <4>2. ASSUME NEW k \in 1..n, Covers(es[k], i) PROVE \E j \in 1..n : Covers(entities[j], i)
        <5>1. o[k] \in 1..n /\ es[k] = entities[o[k]]
          BY <1>6
        <5> QED BY <4>2, <5>1
      <4> QED BY <4>1, <4>2
    <3> QED BY <3>2, <3>3, <3>4
  <2>3. Keep(text, N) = Keep(text, M)
    <3>1. text \in Seq(Chars)
      BY <1>11
    <3> QED BY ONLY <2>2, <3>1, KeepAgrees
  <2> QED BY <1>12, <2>1, <2>3
<1>15. ASSUME NEW k \in 1..n,
              \A j \in 1..n : j # k => ~Overlap(entities[j], entities[k])
                                       \/ entities[j].start > entities[k].start
       PROVE  \E i \in 1..(Len(redacted) + 1 - MarkerSize) :
                  SubSeq(redacted, i, i + MarkerSize - 1) = Marker(entities[k])
  <2>1. PICK i \in 1..n : o[i] = k
    BY <1>6
  <2>2. es[i] = entities[k]
    BY <1>6, <2>1
  <2>3. Outer(es, i)
    <3> SUFFICES ASSUME NEW j \in 1..n, j # i
                 PROVE  ~Overlap(es[j], es[i]) \/ es[j].start > es[i].start
      BY <1>6 DEF Outer
    <3>1. o[j] \in 1..n /\ o[j] # k /\ es[j] = entities[o[j]]
      BY <1>6, <2>1
    <3> QED BY <1>15, <2>2, <3>1
  <2>4. Occurs(Marker(entities[k]), redacted)
    BY <1>10, <2>2, <2>3
  <2>5. PICK w : w = Marker(entities[k])
    OBVIOUS
  <2>6. w \in Seq(Chars) /\ Len(w) = MarkerSize /\ Len(w) > 0
    <3>1. entities[k] \in Found(length)
      BY <1>2, <1>5, ElementOfSeq
    <3>2. w \in Seq(Chars) /\ Len(w) = MarkerSize /\ MarkerSize \in Nat \ {0}
      BY <2>5, <3>1, MarkerType
    <3> QED BY <3>2
  <2>7. \E x \in 1..(Len(redacted) + 1 - Len(w)) : SubSeq(redacted, x, x + Len(w) - 1) = w
    BY <1>10, <2>4, <2>5, <2>6, OccursAt
  <2> QED BY <2>5, <2>6, <2>7
<1>16. Without(redacted, {c \in ToSet(redacted) : ~IsCharacter(c)})
         = Without(text, {c \in ToSet(text) : \E k \in DOMAIN entities : Covers(entities[k], c[2])})
  BY <1>10, <1>13, <1>14
<1>17. CutExactly(scan, redacted)
  BY <1>1, <1>5, <1>11, <1>15, <1>16 DEF CutExactly
<1> QED BY <1>1, <1>17

\* In every block the text is the retrieved one without exactly what was detected in it, and
\* every entity that is not part of another one has left its marker (_redact_pii).
THEOREM RedactedExactly == Spec => []RedactionExact
<1>1. SourcesInv => RedactionExact
  <2> SUFFICES ASSUME SourcesInv, NEW n \in DOMAIN blocks, NEW scan,
                      scan = input.scans[Content(selected[n])], EndTogether(Entities(scan))
               PROVE  CutExactly(scan, blocks[n])
    BY DEF RedactionExact
  <2>1. n \in 1 .. Len(selected) /\ blocks[n] = Redacted(scan)
    BY DEF SourcesInv, BlocksBuilt, GreedyInv, SearchTypes
  <2>2. Content(selected[n]) \in Contents
    BY <2>1, InputTypes DEF SourcesInv, GreedyInv, SearchTypes
  <2>3. scan \in Scan
    <3>1. input \in Input
      BY ContextAssumption DEF SourcesInv, GreedyInv, SearchTypes, InputOk
    <3>2. input.scans \in [Contents -> Scan]
      BY <3>1 DEF Input
    <3> QED BY <2>2, <3>2
  <2> QED BY <2>1, <2>3, RedactedExact
<1> QED BY <1>1, SourcesAlways, PTL

-----------------------------------------------------------------------------
(* The tokens of a source, and of the context.                             *)

TokensOf(c) == [i \in Everything(c) |-> Sentences(c)[i].tokens]

LEMMA SentenceTypes ==
    ASSUME InputOk, NEW c \in Contents
    PROVE  /\ IsFiniteSet(Everything(c)) /\ Everything(c) \subseteq Nat
           /\ \A i \in Everything(c) : /\ Sentences(c)[i].tokens \in Nat \ {0}
                                       /\ Sentences(c)[i].overlap \in Nat
           /\ Summable(TokensOf(c), Everything(c))
<1>1. input \in Input
  BY ContextAssumption DEF InputOk
<1>2. Sentences(c) \in Seq(Sentence)
  BY <1>1 DEF Input, Sentences
<1>3. IsFiniteSet(Everything(c)) /\ Everything(c) \subseteq Nat
  BY <1>2, FS_Interval DEF Everything
<1>4. \A i \in Everything(c) : Sentences(c)[i] \in Sentence
  BY <1>2 DEF Everything
<1>5. \A i \in Everything(c) : /\ Sentences(c)[i].tokens \in Nat \ {0}
                               /\ Sentences(c)[i].overlap \in Nat
  BY <1>4 DEF Sentence
<1> QED BY <1>3, <1>5 DEF Summable, TokensOf

LEMMA TokensTotal ==
    ASSUME InputOk, NEW c \in Contents, NEW S \in SUBSET Everything(c)
    PROVE  Tokens(c, S) = Total(TokensOf(c), S)
<1> DEFINE iter == CHOOSE h : h = [s \in SUBSET S |-> IF s = {} THEN 0
                           ELSE LET x == CHOOSE x \in s : TRUE IN Sentences(c)[x].tokens + h[s \ {x}]]
<1>1. Summable(TokensOf(c), S)
  BY SentenceTypes, FS_Subset DEF Summable
<1>2. ASSUME NEW h
      PROVE  Sums(h, TokensOf(c), S) <=>
                h = [s \in SUBSET S |-> IF s = {} THEN 0
                           ELSE LET x == CHOOSE x \in s : TRUE IN Sentences(c)[x].tokens + h[s \ {x}]]
  <2> DEFINE a == [s \in SUBSET S |-> IF s = {} THEN 0
                     ELSE LET x == CHOOSE x \in s : TRUE IN Sentences(c)[x].tokens + h[s \ {x}]]
             b == [s \in SUBSET S |-> IF s = {} THEN 0
                     ELSE LET x == CHOOSE x \in s : TRUE IN TokensOf(c)[x] + h[s \ {x}]]
  <2>1. \A x \in S : TokensOf(c)[x] = Sentences(c)[x].tokens
    BY DEF TokensOf
  <2>2. \A s \in SUBSET S : s # {} => (CHOOSE x \in s : TRUE) \in S
    OBVIOUS
  <2>3. \A s \in SUBSET S : a[s] = b[s]
    BY <2>1, <2>2
  <2>4. a = [s \in SUBSET S |-> a[s]] /\ b = [s \in SUBSET S |-> b[s]]
    OBVIOUS
  <2>5. Sums(h, TokensOf(c), S) <=> h = b
    BY DEF Sums
  <2> HIDE DEF b
  <2>6. a = b
    <3> HIDE DEF a
    <3> QED BY <2>3, <2>4
  <2> QED BY <2>5, <2>6
<1>3. PICK k : Sums(k, TokensOf(c), S)
  BY <1>1, SumsExist DEF TheSum
<1>4. Sums(iter, TokensOf(c), S)
  BY <1>2, <1>3
<1>5. Tokens(c, S) = iter[S]
  BY DEF Tokens, MapThenSumSet, MapThenFoldSet
<1> HIDE DEF iter
<1> QED BY <1>1, <1>4, <1>5, TotalSums

\* A sentence more makes that many tokens more.
LEMMA TokensNat ==
    ASSUME InputOk, NEW c \in Contents
    PROVE  /\ Tokens(c, {}) = 0
           /\ \A S \in SUBSET Everything(c) : Tokens(c, S) \in Nat
           /\ \A S \in SUBSET Everything(c) : \A i \in S :
                 Tokens(c, S) = Sentences(c)[i].tokens + Tokens(c, S \ {i})
<1>1. \A S \in SUBSET Everything(c) : Tokens(c, S) = Total(TokensOf(c), S)
  BY TokensTotal
<1>2. \A i \in Everything(c) : TokensOf(c)[i] = Sentences(c)[i].tokens
  BY DEF TokensOf
<1> QED BY <1>1, <1>2, SentenceTypes, TotalTake

\* The sizes of blocks.
SizesOf(bs) == [n \in DOMAIN bs |-> Size(bs[n])]

LEMMA SizeTotal ==
    ASSUME NEW bs, IsFiniteSet(DOMAIN bs), \A n \in DOMAIN bs : Size(bs[n]) \in Nat
    PROVE  Summable(SizesOf(bs), DOMAIN bs) /\ TotalSize(bs) = Total(SizesOf(bs), DOMAIN bs)
<1> PICK S : S = DOMAIN bs
  OBVIOUS
<1> DEFINE iter == CHOOSE h : h = [s \in SUBSET S |-> IF s = {} THEN 0
                           ELSE LET x == CHOOSE x \in s : TRUE IN Size(bs[x]) + h[s \ {x}]]
<1>1. Summable(SizesOf(bs), S)
  BY DEF Summable, SizesOf
<1>2. ASSUME NEW h
      PROVE  Sums(h, SizesOf(bs), S) <=>
                h = [s \in SUBSET S |-> IF s = {} THEN 0
                           ELSE LET x == CHOOSE x \in s : TRUE IN Size(bs[x]) + h[s \ {x}]]
  <2> DEFINE a == [s \in SUBSET S |-> IF s = {} THEN 0
                     ELSE LET x == CHOOSE x \in s : TRUE IN Size(bs[x]) + h[s \ {x}]]
             b == [s \in SUBSET S |-> IF s = {} THEN 0
                     ELSE LET x == CHOOSE x \in s : TRUE IN SizesOf(bs)[x] + h[s \ {x}]]
  <2>1. \A x \in S : SizesOf(bs)[x] = Size(bs[x])
    BY DEF SizesOf
  <2>2. \A s \in SUBSET S : s # {} => (CHOOSE x \in s : TRUE) \in S
    OBVIOUS
  <2>3. \A s \in SUBSET S : a[s] = b[s]
    BY <2>1, <2>2
  <2>4. a = [s \in SUBSET S |-> a[s]] /\ b = [s \in SUBSET S |-> b[s]]
    OBVIOUS
  <2>5. Sums(h, SizesOf(bs), S) <=> h = b
    BY DEF Sums
  <2> HIDE DEF b
  <2>6. a = b
    <3> HIDE DEF a
    <3> QED BY <2>3, <2>4
  <2> QED BY <2>5, <2>6
<1>3. PICK k : Sums(k, SizesOf(bs), S)
  BY <1>1, SumsExist DEF TheSum
<1>4. iter = [s \in SUBSET S |-> IF s = {} THEN 0
                 ELSE LET x == CHOOSE x \in s : TRUE IN Size(bs[x]) + iter[s \ {x}]]
  <2>1. k = [s \in SUBSET S |-> IF s = {} THEN 0
                 ELSE LET x == CHOOSE x \in s : TRUE IN Size(bs[x]) + k[s \ {x}]]
    BY <1>2, <1>3
  <2> QED BY <2>1
<1>5. TotalSize(bs) = iter[S]
  BY DEF TotalSize, MapThenSumSet, MapThenFoldSet
<1>6. Sums(iter, SizesOf(bs), S)
  <2> HIDE DEF iter
  <2> QED BY <1>2, <1>4
<1> HIDE DEF iter
<1> QED BY <1>1, <1>5, <1>6, TotalSums

\* A block more makes the context that much larger.
LEMMA SizeOfMore ==
    ASSUME NEW bs, IsSequence(bs), \A n \in DOMAIN bs : Size(bs[n]) \in Nat,
           NEW b, Size(b) \in Nat
    PROVE  TotalSize(bs) \in Nat /\ TotalSize(Append(bs, b)) = TotalSize(bs) + Size(b)
<1>1. PICK R : bs \in Seq(R)
  BY DEF IsSequence
<1>2. PICK D : D = DOMAIN bs
  OBVIOUS
<1>3. PICK m : m = Len(bs) + 1
  OBVIOUS
<1>4. PICK more : more = Append(bs, b)
  OBVIOUS
<1>5. bs \in Seq(R \cup {b})
  BY <1>1
<1>6. /\ m \in Nat /\ D = 1 .. Len(bs) /\ m \notin D /\ Len(bs) \in Nat
      /\ DOMAIN more = D \cup {m} /\ DOMAIN more = 1 .. m
      /\ \A n \in D : more[n] = bs[n]
      /\ more[m] = b
  BY <1>2, <1>3, <1>4, <1>5
<1>7. IsFiniteSet(D) /\ IsFiniteSet(DOMAIN more)
  BY <1>6, FS_Interval
<1>8. \A n \in DOMAIN more : Size(more[n]) \in Nat
  BY <1>2, <1>6
<1>9. /\ Summable(SizesOf(bs), D) /\ TotalSize(bs) = Total(SizesOf(bs), D)
      /\ Summable(SizesOf(more), DOMAIN more) /\ TotalSize(more) = Total(SizesOf(more), DOMAIN more)
  BY <1>2, <1>7, <1>8, SizeTotal
<1>10. Total(SizesOf(more), DOMAIN more) = SizesOf(more)[m] + Total(SizesOf(more), (DOMAIN more) \ {m})
  BY <1>6, <1>9, TotalTake
<1>11. (DOMAIN more) \ {m} = D /\ SizesOf(more)[m] = Size(b)
  BY <1>6 DEF SizesOf
<1>12. \A n \in D : SizesOf(bs)[n] = SizesOf(more)[n]
  BY <1>2, <1>6 DEF SizesOf
<1>13. Total(SizesOf(bs), D) = Total(SizesOf(more), D)
  BY <1>9, <1>12, TotalAgree
<1>14. Total(SizesOf(bs), D) \in Nat
  BY <1>9, TotalTake
<1>15. Total(SizesOf(more), DOMAIN more) = Size(b) + Total(SizesOf(bs), D)
  BY <1>10, <1>11, <1>13
<1>16. TotalSize(more) = TotalSize(bs) + Size(b)
  BY <1>9, <1>14, <1>15
<1> QED BY <1>4, <1>9, <1>14, <1>16

LEMMA SizeOfNothing == TotalSize(<<>>) = 0
<1>1. IsFiniteSet(DOMAIN <<>>) /\ DOMAIN <<>> = {}
  BY FS_EmptySet
<1> QED BY <1>1, SizeTotal, TotalTake

-----------------------------------------------------------------------------
(* Compression.                                                            *)

LEMMA WorstIsLast ==
    ASSUME InputOk, NEW c \in Contents, NEW T \in SUBSET Everything(c), T # {}
    PROVE  Worst(c, T) \in T /\ \A j \in T \ {Worst(c, T)} : RanksBefore(c, j, Worst(c, T))
<1> DEFINE R == {p \in Everything(c) \X Everything(c) : RanksBefore(c, p[1], p[2])}
<1>1. /\ IsFiniteSet(Everything(c))
      /\ \A i \in Everything(c) : i \in Nat /\ Sentences(c)[i].overlap \in Nat
  BY SentenceTypes
<1>2. \A i, j \in Everything(c) : <<i, j>> \in R <=> RanksBefore(c, i, j)
  OBVIOUS
<1>3. \A i, j \in Everything(c) : i # j => <<i, j>> \in R \/ <<j, i>> \in R
  BY <1>1, <1>2 DEF RanksBefore
<1>4. \A i, j, k \in Everything(c) : <<i, j>> \in R /\ <<j, k>> \in R => <<i, k>> \in R
  BY <1>1, <1>2 DEF RanksBefore
<1> HIDE DEF R
<1>5. \E i \in T : \A j \in T \ {i} : <<j, i>> \in R
  BY <1>1, <1>3, <1>4, LastOfOrder
<1>6. \E i \in T : \A j \in T \ {i} : RanksBefore(c, j, i)
  BY <1>2, <1>5
<1> QED BY <1>6 DEF Worst

\* What BestThatFit unfolds to.
Keeps(h, c, room, S) ==
    h = [s \in SUBSET S |->
            IF s = {} THEN {}
            ELSE LET x == Worst(c, s)
                 IN  IF LeftOut(c, room, h[s \ {x}], x) THEN h[s \ {x}] ELSE h[s \ {x}] \cup {x}]

LEMMA KeepsExists ==
    ASSUME InputOk, NEW c \in Contents, NEW room
    PROVE  \E h : Keeps(h, c, room, Everything(c))
<1> DEFINE S == Everything(c)
           V == SUBSET S
           op == [p \in S \X V |-> IF LeftOut(c, room, p[2], p[1]) THEN p[2] ELSE p[2] \cup {p[1]}]
           pick == [s \in SUBSET S |-> Worst(c, s)]
<1>1. IsFiniteSet(S)
  BY SentenceTypes
<1>2. Picks(pick, S)
  BY WorstIsLast DEF Picks
<1>3. op \in [S \X V -> V]
  OBVIOUS
<1>4. {} \in V
  OBVIOUS
<1>5. \A x \in S, v \in V : op[<<x, v>>] = IF LeftOut(c, room, v, x) THEN v ELSE v \cup {x}
  OBVIOUS
<1>6. PICK h \in [SUBSET S -> V] : Recursive(h, S, pick, op, {})
  <2> HIDE DEF S, V, op, pick
  <2> QED BY <1>1, <1>2, <1>3, <1>4, RecursiveExists
<1>7. Keeps(h, c, room, S)
  <2> DEFINE a == [s \in SUBSET S |->
                     IF s = {} THEN {}
                     ELSE LET x == Worst(c, s)
                          IN  IF LeftOut(c, room, h[s \ {x}], x) THEN h[s \ {x}] ELSE h[s \ {x}] \cup {x}]
  <2>1. ASSUME NEW s \in SUBSET S, s # {} PROVE h[s] = a[s]
    <3>1. PICK x : x = Worst(c, s)
      OBVIOUS
    <3>2. x \in s /\ pick[s] = x
      BY <2>1, <3>1, WorstIsLast
    <3>3. h[s] = op[<<x, h[s \ {x}]>>]
      <4> HIDE DEF op, S, V, pick
      <4> QED BY <1>6, <2>1, <3>2 DEF Recursive
    <3>4. h[s \ {x}] \in V /\ x \in S
      BY <3>2
    <3>5. h[s] = IF LeftOut(c, room, h[s \ {x}], x) THEN h[s \ {x}] ELSE h[s \ {x}] \cup {x}
      <4> HIDE DEF op, S, V, pick
      <4> QED BY <1>5, <3>3, <3>4
    <3> QED BY <2>1, <3>1, <3>5
  <2>2. h[{}] = a[{}]
    BY <1>6 DEF Recursive
  <2>3. h = [s \in SUBSET S |-> h[s]] /\ a = [s \in SUBSET S |-> a[s]]
    OBVIOUS
  <2>4. Keeps(h, c, room, S) <=> h = a
    BY DEF Keeps
  <2> HIDE DEF a, S
  <2> QED BY <2>1, <2>2, <2>3, <2>4
<1> QED BY <1>7

LEMMA BestUnfolds ==
    ASSUME InputOk, NEW c \in Contents, NEW room
    PROVE  \E h : /\ Keeps(h, c, room, Everything(c))
                  /\ BestThatFit(c, room, Everything(c)) = h[Everything(c)]
<1> PICK S : S = Everything(c)
  OBVIOUS
<1> DEFINE iter == CHOOSE h : h = [s \in SUBSET S |->
            IF s = {} THEN {}
            ELSE LET x == Worst(c, s)
                 IN  IF LeftOut(c, room, h[s \ {x}], x) THEN h[s \ {x}] ELSE h[s \ {x}] \cup {x}]
<1>1. PICK k : Keeps(k, c, room, S)
  BY KeepsExists
<1>2. Keeps(iter, c, room, S)
  BY <1>1 DEF Keeps
<1>3. BestThatFit(c, room, S) = iter[S]
  BY DEF BestThatFit, MapThenFoldSet
<1> HIDE DEF iter
<1> QED BY <1>2, <1>3

\* Whatever is kept is of the text, and what shares a term with the query is only left out
\* for want of room.
LEMMA BestKept ==
    ASSUME InputOk, NEW c \in Contents, NEW room
    PROVE  LET kept == BestThatFit(c, room, Everything(c))
           IN  /\ kept \subseteq Everything(c)
               /\ \A i \in Everything(c) \ kept :
                     \/ Sentences(c)[i].overlap = 0
                     \/ Tokens(c, {j \in kept : RanksBefore(c, j, i)} \cup {i}) > room
<1> PICK S : S = Everything(c)
  OBVIOUS
<1>1. PICK h : Keeps(h, c, room, S) /\ BestThatFit(c, room, S) = h[S]
  BY BestUnfolds
<1> DEFINE Justified(kept, i) ==
               \/ Sentences(c)[i].overlap = 0
               \/ Tokens(c, {j \in kept : RanksBefore(c, j, i)} \cup {i}) > room
           Good == {T \in SUBSET S : h[T] \subseteq T /\ \A i \in T \ h[T] : Justified(h[T], i)}
<1>2. {} \in Good
  BY <1>1 DEF Keeps
<1>3. ASSUME NEW T \in SUBSET S, T # {}, \A U \in SUBSET T : U # T => U \in Good
      PROVE  T \in Good
  <2>1. PICK x : x = Worst(c, T)
    OBVIOUS
  <2>2. x \in T /\ \A j \in T \ {x} : RanksBefore(c, j, x)
    BY <1>3, <2>1, WorstIsLast
  <2>3. PICK kept : kept = h[T \ {x}]
    OBVIOUS
  <2>4. h[T] = IF LeftOut(c, room, kept, x) THEN kept ELSE kept \cup {x}
    BY <1>1, <1>3, <2>1, <2>3 DEF Keeps
  <2>5. T \ {x} \in Good
    <3>1. T \ {x} \in SUBSET T /\ T \ {x} # T
      BY <2>2
    <3> QED BY ONLY <1>3, <3>1
  <2>6. kept \subseteq T \ {x} /\ \A i \in (T \ {x}) \ kept : Justified(kept, i)
    BY <2>3, <2>5
  <2> HIDE DEF Justified
  <2>7. CASE LeftOut(c, room, kept, x)
    <3>1. {j \in kept : RanksBefore(c, j, x)} = kept
      BY <2>2, <2>6
    <3>2. Justified(kept, x)
      BY <2>7, <3>1 DEF LeftOut, Justified
    <3> QED BY <2>4, <2>6, <2>7, <3>2
  <2>8. CASE ~LeftOut(c, room, kept, x)
    <3>1. h[T] = kept \cup {x}
      BY <2>4, <2>8
    <3>2. ASSUME NEW i \in T \ h[T] PROVE Justified(h[T], i)
      <4>1. i \in (T \ {x}) \ kept /\ ~RanksBefore(c, x, i)
        <5>1. i \in (T \ {x}) \ kept
          BY <3>1, <3>2
        <5>2. RanksBefore(c, i, x)
          BY <2>2, <5>1
        <5>3. /\ i \in Nat /\ x \in Nat
              /\ Sentences(c)[i].overlap \in Nat /\ Sentences(c)[x].overlap \in Nat
          BY <2>2, <5>1, <1>3, SentenceTypes
        <5> QED BY <5>1, <5>2, <5>3 DEF RanksBefore
      <4>2. {j \in h[T] : RanksBefore(c, j, i)} = {j \in kept : RanksBefore(c, j, i)}
        BY <3>1, <4>1
      <4>3. Justified(kept, i)
        BY <2>6, <4>1
      <4> QED BY <4>2, <4>3 DEF Justified
    <3> QED BY <2>2, <2>6, <3>1, <3>2
  <2> QED BY <2>7, <2>8
<1>4. IsFiniteSet(S)
  BY SentenceTypes
<1> HIDE DEF Good
<1>5. SUBSET S \subseteq Good
  BY <1>2, <1>3, <1>4, SizeInduction
<1>6. S \in Good
  BY <1>5
<1> QED BY <1>1, <1>6 DEF Good

-----------------------------------------------------------------------------
(* The budget.                                                             *)

IsBlock(b) ==
    /\ b.document \in Positions
    /\ b.kept \subseteq Everything(Content(b.document))

LEMMA SizeOfBlock ==
    ASSUME InputOk, NEW b, IsBlock(b)
    PROVE  Size(b) \in Nat /\ Size(b) >= Header /\ Header \in Nat \ {0}
<1>1. Content(b.document) \in Contents
  BY InputTypes DEF IsBlock
<1>2. Tokens(Content(b.document), b.kept) \in Nat
  BY <1>1, TokensNat DEF IsBlock
<1> QED BY <1>2, ContextAssumption DEF Size

\* A sentence of a compressed block that shares a term with the query is left out only if
\* there was no room for it next to the better ones kept.
RightlyCut(b, room) ==
    \A i \in Everything(Content(b.document)) \ b.kept :
        \/ Sentences(Content(b.document))[i].overlap = 0
        \/ Tokens(Content(b.document),
                  {j \in b.kept : RanksBefore(Content(b.document), j, i)} \cup {i}) > room - Header

LEMMA FittedBlock ==
    ASSUME InputOk, NEW n, selected[n] \in Positions, NEW room \in Int
    PROVE  /\ IsBlock(Fitted(n, room))
           /\ input.terms => RightlyCut(Fitted(n, room), room)
<1> PICK b : b = Fitted(n, room)
  OBVIOUS
<1> PICK c : c = Content(selected[n])
  OBVIOUS
<1>1. c \in Contents
  BY InputTypes
<1>2. \A kept : Block(n, kept).document = selected[n] /\ Block(n, kept).kept = kept
  BY DEF Block
<1>3. CASE b = Block(n, Everything(c))
  <2>1. b.document = selected[n] /\ b.kept = Everything(c)
    BY <1>2, <1>3
  <2> QED BY <2>1 DEF IsBlock, RightlyCut
<1>4. CASE b = Block(n, {}) /\ Header >= room
  <2>1. b.document = selected[n] /\ b.kept = {}
    BY <1>2, <1>4
  <2>2. \A i \in Everything(c) : Tokens(c, {i}) > room - Header
    <3> SUFFICES ASSUME NEW i \in Everything(c) PROVE Tokens(c, {i}) > room - Header
      OBVIOUS
    <3>1. Tokens(c, {i}) = Sentences(c)[i].tokens + Tokens(c, {i} \ {i}) /\ {i} \ {i} = {}
      BY <1>1, TokensNat
    <3>2. Sentences(c)[i].tokens \in Nat \ {0} /\ Tokens(c, {}) = 0
      BY <1>1, TokensNat, SentenceTypes
    <3>3. Tokens(c, {i}) = Sentences(c)[i].tokens + 0
      BY <3>1, <3>2
    <3>4. Header \in Nat
      BY ContextAssumption
    <3> QED BY <1>4, <3>2, <3>3, <3>4
  <2>3. \A i : {j \in b.kept : RanksBefore(c, j, i)} \cup {i} = {i}
    BY <2>1
  <2>4. RightlyCut(b, room)
    BY <2>1, <2>2, <2>3 DEF RightlyCut
  <2> QED BY <2>1, <2>4 DEF IsBlock
<1>5. CASE b = Block(n, Compressed(c, room - Header))
  <2>1. b.document = selected[n] /\ b.kept = Compressed(c, room - Header)
    BY <1>2, <1>5
  <2>2. CASE input.terms
    <3>1. b.kept = BestThatFit(c, room - Header, Everything(c))
      BY <2>1, <2>2 DEF Compressed
    <3> QED BY <1>1, <2>1, <3>1, BestKept DEF IsBlock, RightlyCut
  <2>3. CASE ~input.terms
    <3>1. b.kept \subseteq Everything(c)
      BY <2>1, <2>3 DEF Compressed, Prefix
    <3> QED BY <2>1, <2>3, <3>1 DEF IsBlock
  <2> QED BY <2>2, <2>3
<1> QED BY <1>3, <1>4, <1>5 DEF Fitted

\* The packed parts are blocks, and add up to the tokens that were counted.
Counted ==
    /\ \A n \in DOMAIN parts : IsBlock(parts[n])
    /\ tokens \in Nat
    /\ BudgetKept

\* What was available when a part was packed is what the parts before it left.
Cut ==
    input.terms =>
        \A n \in DOMAIN parts : RightlyCut(parts[n], MaxTokens - TotalSize(SubSeq(parts, 1, n - 1)))

BudgetInv == SourcesInv /\ Counted /\ Cut

\* What is measured depends on the input only.
LEMMA SameSizes ==
    ASSUME input' = input
    PROVE  /\ \A b : Size(b)' = Size(b) /\ IsBlock(b)' = IsBlock(b)
           /\ \A bs : TotalSize(bs)' = TotalSize(bs)
           /\ \A b, room : RightlyCut(b, room)' = RightlyCut(b, room)
<1>1. \A c, S : Tokens(c, S)' = Tokens(c, S)
  BY DEF Tokens, Sentences, MapThenSumSet, MapThenFoldSet
<1>2. \A b : Size(b)' = Size(b)
  BY <1>1 DEF Size, Content
<1>3. \A bs : TotalSize(bs)' = TotalSize(bs)
  BY DEF TotalSize, Size, Tokens, Content, Sentences, MapThenSumSet, MapThenFoldSet
<1>4. \A b : IsBlock(b)' = IsBlock(b)
  BY DEF IsBlock, Positions, Content, Everything, Sentences
<1>5. \A b, room : RightlyCut(b, room)' = RightlyCut(b, room)
  BY DEF RightlyCut, Content, Everything, Sentences, RanksBefore, Tokens, MapThenSumSet, MapThenFoldSet
<1> QED BY <1>2, <1>3, <1>4, <1>5

LEMMA BudgetInit == Init => BudgetInv
<1> SUFFICES ASSUME Init PROVE BudgetInv
  OBVIOUS
<1>1. SourcesInv
  BY SourcesInit
<1>2. parts = <<>> /\ tokens = 0
  BY DEF Init
<1>3. Counted
  BY <1>2, SizeOfNothing, ContextAssumption DEF Counted, BudgetKept
<1>4. Cut
  BY <1>2 DEF Cut
<1> QED BY <1>1, <1>3, <1>4 DEF BudgetInv

LEMMA BudgetSame ==
    ASSUME BudgetInv, input' = input, UNCHANGED <<parts, tokens>>
    PROVE  Counted' /\ Cut'
<1>1. TotalSize(parts)' = TotalSize(parts)
  <2> PICK bs : bs = parts
    OBVIOUS
  <2>1. TotalSize(bs)' = TotalSize(bs)
    BY SameSizes
  <2> QED BY <2>1
<1>2. Counted'
  BY <1>1, SameSizes DEF BudgetInv, Counted, BudgetKept
<1>3. Cut'
  BY SameSizes DEF BudgetInv, Cut
<1> QED BY <1>2, <1>3

LEMMA BudgetPack ==
    ASSUME BudgetInv, Pack
    PROVE  Counted' /\ Cut'
<1>1. step = "pack" /\ UNCHANGED <<input, selected, blocks>>
  BY DEF Pack, search
<1>2. CASE UNCHANGED <<parts, tokens>>
  BY <1>1, <1>2, BudgetSame
<1>3. CASE ~UNCHANGED <<parts, tokens>>
  <2> PICK b : b = Fitted(turn, Available)
    OBVIOUS
  <2>1. /\ ~(turn > Len(blocks)) /\ ~(Size(b) > Available)
        /\ parts' = Append(parts, b) /\ tokens' = tokens + Size(b)
    BY <1>3 DEF Pack, output, Numbered
  <2>2. /\ InputOk /\ turn \in 1 .. Len(selected) /\ selected[turn] \in Positions
        /\ tokens \in Nat /\ MaxTokens \in Nat /\ IsSequence(parts)
    BY <2>1, ContextAssumption
       DEF BudgetInv, Counted, SourcesInv, BlocksBuilt, PartsPacked, GreedyInv, SearchTypes
  <2>3. Available \in Int /\ Available = MaxTokens - tokens
    BY <2>2 DEF Available
  <2>4. IsBlock(b) /\ (input.terms => RightlyCut(b, Available))
    BY <2>2, <2>3, FittedBlock
  <2>5. Size(b) \in Nat
    BY <2>2, <2>4, SizeOfBlock
  <2>6. PICK bs : bs = parts
    OBVIOUS
  <2>7. PICK S : bs \in Seq(S)
    BY <2>2, <2>6 DEF IsSequence
  <2>8. bs \in Seq(S \cup {b})
    BY <2>7
  <2>9. PICK more : more = Append(bs, b)
    OBVIOUS
  <2>10. /\ Len(bs) \in Nat /\ DOMAIN bs = 1 .. Len(bs) /\ DOMAIN more = 1 .. (Len(bs) + 1)
         /\ more[Len(bs) + 1] = b
         /\ \A n \in 1 .. Len(bs) : more[n] = bs[n]
         /\ SubSeq(more, 1, Len(bs)) = bs
         /\ \A n \in 1 .. Len(bs) : SubSeq(more, 1, n - 1) = SubSeq(bs, 1, n - 1)
    BY <2>8, <2>9
  <2>11. /\ \A n \in DOMAIN bs : IsBlock(bs[n]) /\ Size(bs[n]) \in Nat
         /\ tokens = TotalSize(bs) /\ IsSequence(bs)
    BY <2>2, <2>6, SizeOfBlock DEF BudgetInv, Counted, BudgetKept
  <2>12. TotalSize(more) = TotalSize(bs) + Size(b) /\ TotalSize(bs) \in Nat
    BY <2>5, <2>9, <2>11, SizeOfMore
  <2>13. parts' = more
    BY <2>1, <2>6, <2>9
  <2>14. Counted'
    <3>1. \A n \in DOMAIN more : IsBlock(more[n])
      BY <2>4, <2>10, <2>11
    <3>2. TotalSize(more)' = TotalSize(more) /\ \A n \in DOMAIN more : IsBlock(more[n])'
      BY <1>1, <3>1, SameSizes
    <3>3. tokens' = TotalSize(more) /\ tokens' \in Nat /\ tokens' <= MaxTokens
      BY <2>1, <2>2, <2>3, <2>5, <2>11, <2>12
    <3>4. (tokens = TotalSize(parts))'
      BY <2>13, <3>2, <3>3
    <3> QED BY <2>13, <3>2, <3>3, <3>4 DEF Counted, BudgetKept
  <2>15. Cut'
    <3> SUFFICES ASSUME input.terms, NEW n \in DOMAIN more
                 PROVE  RightlyCut(more[n], MaxTokens - TotalSize(SubSeq(more, 1, n - 1)))
      BY <1>1, <2>13, SameSizes DEF Cut
    <3>1. CASE n = Len(bs) + 1
      <4>1. n - 1 = Len(bs)
        BY <2>10, <3>1
      <4>2. SubSeq(more, 1, n - 1) = bs
        BY <2>10, <4>1
      <4>3. MaxTokens - TotalSize(SubSeq(more, 1, n - 1)) = Available
        BY <2>3, <2>11, <4>2
      <4> QED BY <2>4, <2>10, <3>1, <4>3
    <3>2. CASE n \in 1 .. Len(bs)
      BY <2>6, <2>10, <3>2 DEF BudgetInv, Cut
    <3> QED BY <2>10, <3>1, <3>2
  <2> QED BY <2>14, <2>15
<1> QED BY <1>2, <1>3

LEMMA BudgetNext == BudgetInv /\ [Next]_vars => BudgetInv'
<1> SUFFICES ASSUME BudgetInv, [Next]_vars PROVE BudgetInv'
  OBVIOUS
<1>1. SourcesInv'
  BY SourcesNext DEF BudgetInv
<1>2. CASE Pack
  BY <1>1, <1>2, BudgetPack DEF BudgetInv
<1>3. CASE ~Pack
  <2>1. input' = input /\ UNCHANGED <<parts, tokens>>
    BY <1>3 DEF Next, vars, output, Deduplicate, Embed, Round, Select, Build, Consider
  <2> QED BY <1>1, <2>1, BudgetSame DEF BudgetInv
<1> QED BY <1>2, <1>3

LEMMA BudgetAlways == Spec => []BudgetInv
BY BudgetInit, BudgetNext, PTL DEF Spec

\* However many blocks are compressed or left out, what is counted is what the packed ones
\* hold, and stays within settings.context_max_tokens.
THEOREM WithinBudget == Spec => []BudgetKept
<1>1. BudgetInv => BudgetKept
  BY DEF BudgetInv, Counted
<1> QED BY <1>1, BudgetAlways, PTL

\* Compression (_compress_content) leaves a sentence that shares a term with the query out
\* only if it does not fit next to the better ones that are kept.
THEOREM CompressedByRank == Spec => []BestSentencesKept
<1>1. BudgetInv => BestSentencesKept
  <2> SUFFICES ASSUME BudgetInv, input.terms, NEW n \in DOMAIN parts
               PROVE  LET p    == parts[n]
                          c    == Content(p.document)
                          room == MaxTokens - Header - TotalSize(SubSeq(parts, 1, n - 1))
                      IN  \A i \in Everything(c) \ p.kept :
                             \/ Sentences(c)[i].overlap = 0
                             \/ Tokens(c, {j \in p.kept : RanksBefore(c, j, i)} \cup {i}) > room
    BY DEF BestSentencesKept
  <2> PICK before : before = SubSeq(parts, 1, n - 1)
    OBVIOUS
  <2>1. PICK S : parts \in Seq(S)
    BY DEF BudgetInv, SourcesInv, PartsPacked, IsSequence
  <2>2. IsSequence(before) /\ \A m \in DOMAIN before : m \in DOMAIN parts /\ before[m] = parts[m]
    BY <2>1 DEF IsSequence
  <2>3. InputOk /\ \A m \in DOMAIN parts : IsBlock(parts[m]) /\ Size(parts[m]) \in Nat
    BY SizeOfBlock DEF BudgetInv, SourcesInv, GreedyInv, SearchTypes, Counted
  <2>4. TotalSize(before) \in Nat /\ MaxTokens \in Nat /\ Header \in Nat
    BY <2>2, <2>3, SizeOfMore, ContextAssumption
  <2>5. (MaxTokens - TotalSize(before)) - Header = MaxTokens - Header - TotalSize(before)
    BY <2>4
  <2>6. RightlyCut(parts[n], MaxTokens - TotalSize(before))
    BY DEF BudgetInv, Cut
  <2> QED BY <2>5, <2>6 DEF RightlyCut
<1> QED BY <1>1, BudgetAlways, PTL

-----------------------------------------------------------------------------
(* Without need.                                                           *)

Whole == [n \in DOMAIN selected |-> Block(n, Everything(Content(selected[n])))]

AllFits == TotalSize(Whole) <= MaxTokens

Packing == step \in {"pack", "done"}

\* When everything fits, every block has been packed whole so far.
AllWhole ==
    /\ Packing => Len(blocks) = Len(selected)
    /\ Packing /\ AllFits =>
          /\ DOMAIN parts = 1 .. (turn - 1)
          /\ \A n \in 1 .. (turn - 1) : parts[n] = Whole[n]
          /\ step = "done" => turn = Len(selected) + 1

WholeInv == BudgetInv /\ AllWhole

LEMMA WholeBlocks ==
    ASSUME SearchTypes
    PROVE  /\ \A n \in DOMAIN selected : IsBlock(Whole[n]) /\ Size(Whole[n]) \in Nat
           /\ Summable(SizesOf(Whole), DOMAIN selected)
           /\ TotalSize(Whole) = Total(SizesOf(Whole), DOMAIN selected)
<1>1. \A n \in DOMAIN selected : selected[n] \in Positions
  BY DEF SearchTypes
<1>2. \A n \in DOMAIN selected : IsBlock(Whole[n])
  BY <1>1 DEF Whole, Block, IsBlock
<1>3. \A n \in DOMAIN selected : Size(Whole[n]) \in Nat
  BY <1>2, SizeOfBlock DEF SearchTypes
<1>4. PICK w : w = Whole
  OBVIOUS
<1>5. DOMAIN w = DOMAIN selected /\ IsFiniteSet(DOMAIN selected)
  BY <1>4, FS_Interval DEF Whole, SearchTypes
<1>6. Summable(SizesOf(w), DOMAIN w) /\ TotalSize(w) = Total(SizesOf(w), DOMAIN w)
  BY <1>3, <1>4, <1>5, SizeTotal
<1> QED BY <1>2, <1>3, <1>4, <1>5, <1>6

\* When everything fits, and so far nothing was cut, there is room for the next one.
LEMMA RoomForNext ==
    ASSUME WholeInv, step = "pack", AllFits, turn <= Len(blocks)
    PROVE  Size(Whole[turn]) <= Available /\ Available > 0
<1>1. /\ SearchTypes /\ InputOk /\ selected \in Seq(Positions) /\ turn \in Nat \ {0}
      /\ Len(blocks) = Len(selected)
      /\ DOMAIN parts = 1 .. (turn - 1)
      /\ \A n \in 1 .. (turn - 1) : parts[n] = Whole[n]
      /\ tokens = TotalSize(parts)
  BY DEF WholeInv, AllWhole, Packing, BudgetInv, Counted, BudgetKept, SourcesInv, GreedyInv,
         SearchTypes, PartsPacked
<1>2. PICK D : D = DOMAIN selected
  OBVIOUS
<1>3. PICK f : f = SizesOf(Whole)
  OBVIOUS
<1>4. PICK ps : ps = parts
  OBVIOUS
<1>5. D = 1 .. Len(selected) /\ Len(selected) \in Nat /\ turn \in D
  BY <1>1, <1>2
<1>6. Summable(f, D) /\ TotalSize(Whole) = Total(f, D)
  BY <1>1, <1>2, <1>3, WholeBlocks
<1>7. \A n \in D : f[n] = Size(Whole[n]) /\ Size(Whole[n]) \in Nat
  BY <1>1, <1>2, <1>3, WholeBlocks DEF SizesOf, Whole
<1>8. PICK before : before = 1 .. (turn - 1)
  OBVIOUS
<1>9. PICK upto : upto = 1 .. turn
  OBVIOUS
<1>10. /\ before \in SUBSET D /\ upto \in SUBSET D /\ turn \in upto /\ upto \ {turn} = before
       /\ IsFiniteSet(before)
  <2>1. IsFiniteSet(before)
    BY <1>1, <1>8, FS_Interval
  <2> QED BY <1>1, <1>5, <1>8, <1>9, <2>1
<1>11. \A n \in before : SizesOf(ps)[n] = f[n] /\ Size(ps[n]) = f[n] /\ f[n] \in Nat
  BY <1>1, <1>4, <1>7, <1>8, <1>10 DEF SizesOf
<1>12. Summable(SizesOf(ps), before) /\ TotalSize(ps) = Total(SizesOf(ps), before)
  BY <1>1, <1>4, <1>8, <1>10, <1>11, SizeTotal
<1>13. TotalSize(ps) = Total(f, before)
  BY <1>11, <1>12, TotalAgree
<1>14. Total(f, upto) = f[turn] + Total(f, before)
  BY <1>6, <1>10, TotalTake
<1>15. Summable(f, D) /\ Total(f, upto) <= Total(f, D)
  BY <1>6, <1>10, TotalOfPart
<1>16. Total(f, upto) \in Nat /\ Total(f, before) \in Nat /\ Total(f, D) \in Nat
  BY <1>6, <1>10, TotalTake
<1>17. f[turn] \in Nat /\ f[turn] >= Header /\ Header \in Nat \ {0}
  BY <1>1, <1>2, <1>5, <1>7, WholeBlocks, SizeOfBlock
<1>18. tokens = Total(f, before) /\ MaxTokens \in Nat /\ Total(f, D) <= MaxTokens
  BY <1>1, <1>4, <1>6, <1>13, ContextAssumption DEF AllFits
<1>19. f[turn] <= MaxTokens - tokens /\ MaxTokens - tokens > 0
  BY ONLY <1>14, <1>15, <1>16, <1>17, <1>18
<1> QED BY <1>5, <1>7, <1>19 DEF Available

LEMMA SameWhole ==
    ASSUME UNCHANGED <<input, selected>>
    PROVE  Whole' = Whole /\ AllFits' = AllFits
<1>1. Whole' = Whole
  BY DEF Whole, Block, Everything, Sentences, Content
<1>2. PICK w : w = Whole
  OBVIOUS
<1>3. TotalSize(w)' = TotalSize(w)
  BY SameSizes
<1>4. TotalSize(Whole)' = TotalSize(w)'
  BY <1>1, <1>2
<1> QED BY <1>1, <1>2, <1>3, <1>4 DEF AllFits

LEMMA WholePack ==
    ASSUME WholeInv, Pack
    PROVE  AllWhole'
<1>1. step = "pack" /\ UNCHANGED <<input, selected, blocks>>
  BY DEF Pack, search
<1>2. /\ Len(blocks) = Len(selected) /\ turn \in Nat \ {0} /\ turn <= Len(blocks) + 1
      /\ selected \in Seq(Positions) /\ IsSequence(parts)
  BY <1>1 DEF WholeInv, AllWhole, Packing, BudgetInv, SourcesInv, PartsPacked, GreedyInv, SearchTypes
<1>3. Whole' = Whole /\ AllFits' = AllFits /\ Len(blocks') = Len(selected')
  BY <1>1, <1>2, SameWhole
<1>4. CASE ~AllFits
  BY <1>3, <1>4 DEF AllWhole
<1>5. CASE AllFits
  <2>1. DOMAIN parts = 1 .. (turn - 1) /\ \A n \in 1 .. (turn - 1) : parts[n] = Whole[n]
    BY <1>1, <1>5 DEF WholeInv, AllWhole, Packing
  <2>2. CASE turn > Len(blocks)
    <3>1. UNCHANGED <<turn, parts>> /\ turn = Len(selected) + 1
      BY <1>1, <1>2, <2>2 DEF Pack, output
    <3> QED BY <1>1, <1>3, <2>1, <3>1 DEF AllWhole
  <2>3. CASE turn <= Len(blocks)
    <3> PICK b : b = Fitted(turn, Available)
      OBVIOUS
    <3>1. Size(Whole[turn]) <= Available /\ Available > 0
      BY <1>1, <1>5, <2>3, RoomForNext
    <3>2. Whole[turn] = Block(turn, Everything(Content(selected[turn])))
      BY <1>2, <2>3 DEF Whole
    <3>3. b = Whole[turn]
      BY <3>1, <3>2 DEF Fitted, Fits
    <3>4. Available \in Int /\ Size(b) \in Nat
      <4>1. turn \in DOMAIN selected /\ SearchTypes
        BY <1>2, <2>3 DEF WholeInv, BudgetInv, SourcesInv, GreedyInv
      <4>2. tokens \in Nat /\ MaxTokens \in Nat
        BY ContextAssumption DEF WholeInv, BudgetInv, Counted
      <4> QED BY <3>3, <4>1, <4>2, WholeBlocks DEF Available
    <3>5. ~(turn > Len(blocks) \/ Available <= 0) /\ ~(Size(b) > Available)
      BY <1>2, <2>3, <3>1, <3>3, <3>4
    <3>6. turn' = turn + 1 /\ parts' = Append(parts, b) /\ step' = step
      BY <3>5 DEF Pack, Numbered
    <3>7. PICK S : parts \in Seq(S)
      BY <1>2 DEF IsSequence
    <3>8. parts \in Seq(S \cup {b})
      BY <3>7
    <3>9. /\ DOMAIN parts' = 1 .. (Len(parts) + 1) /\ Len(parts) = turn - 1
          /\ parts'[turn] = b
          /\ \A n \in 1 .. (turn - 1) : parts'[n] = parts[n]
      BY <1>2, <2>1, <3>6, <3>8
    <3>10. DOMAIN parts' = 1 .. (turn' - 1)
      BY <1>2, <3>6, <3>9
    <3>11. \A n \in 1 .. (turn' - 1) : parts'[n] = Whole[n]
      BY <1>2, <2>1, <3>3, <3>6, <3>9
    <3> QED BY <1>1, <1>3, <3>6, <3>10, <3>11 DEF AllWhole
  <2> QED BY <1>2, <2>2, <2>3
<1> QED BY <1>4, <1>5

LEMMA WholeNext == WholeInv /\ [Next]_vars => WholeInv'
<1> SUFFICES ASSUME WholeInv, [Next]_vars PROVE WholeInv'
  OBVIOUS
<1>1. BudgetInv'
  BY BudgetNext DEF WholeInv
<1>2. SourcesInv /\ SourcesInv'
  BY <1>1 DEF WholeInv, BudgetInv
<1>3. CASE Deduplicate
  <2>1. blocks' = <<>> /\ selected' = <<>> /\ parts' = <<>> /\ turn' = 1
    BY <1>2, <1>3 DEF Deduplicate, output, SourcesInv, GreedyInv, Left, BlocksBuilt, PartsPacked
  <2> QED BY <1>1, <2>1 DEF WholeInv, AllWhole
<1>4. CASE Build
  <2>1. CASE step' # "pack"
    BY <1>1, <1>4, <2>1 DEF Build, WholeInv, AllWhole, Packing
  <2>2. CASE step' = "pack"
    <3>1. parts' = <<>> /\ turn' = 1 /\ Len(blocks') = Len(selected')
      BY <1>2, <1>4, <2>2 DEF Build, output, search, SourcesInv, PartsPacked
    <3> QED BY <1>1, <2>2, <3>1 DEF WholeInv, AllWhole
  <2> QED BY <2>1, <2>2
<1>5. CASE Pack
  BY <1>1, <1>5, WholePack DEF WholeInv
<1>6. CASE UNCHANGED vars
  <2>1. Whole' = Whole /\ AllFits' = AllFits
    BY <1>6, SameWhole DEF vars, search
  <2> QED BY <1>1, <1>6, <2>1 DEF vars, search, output, WholeInv, AllWhole, Packing
<1>7. CASE Embed \/ Round \/ Select \/ \E i \in Positions : Consider(i)
  <2>1. ~Packing'
    BY <1>7 DEF Packing, Embed, Round, Select, Consider
  <2> QED BY <1>1, <2>1 DEF WholeInv, AllWhole
<1> QED BY <1>3, <1>4, <1>5, <1>6, <1>7 DEF Next

LEMMA WholeAlways == Spec => []WholeInv
<1>1. Init => WholeInv
  BY BudgetInit DEF Init, WholeInv, AllWhole, Packing
<1> QED BY <1>1, WholeNext, PTL DEF Spec

\* When all selected documents together fit into the budget, the context is all of them, whole:
\* neither compression nor the packing takes anything away without need.
THEOREM ShownWhole == Spec => []NothingCutWithoutNeed
<1>1. WholeInv => NothingCutWithoutNeed
  <2> SUFFICES ASSUME WholeInv, step = "done", AllFits PROVE parts = Whole
    BY DEF NothingCutWithoutNeed, Whole, AllFits
  <2>1. /\ DOMAIN parts = 1 .. (turn - 1) /\ \A n \in 1 .. (turn - 1) : parts[n] = Whole[n]
        /\ turn = Len(selected) + 1 /\ selected \in Seq(Positions) /\ IsSequence(parts)
    BY DEF WholeInv, AllWhole, Packing, BudgetInv, SourcesInv, PartsPacked, GreedyInv, SearchTypes
  <2>2. DOMAIN selected = 1 .. (turn - 1) /\ DOMAIN Whole = DOMAIN selected
    BY <2>1 DEF Whole
  <2>3. parts = [n \in DOMAIN parts |-> parts[n]]
    BY <2>1 DEF IsSequence
  <2>4. Whole = [n \in DOMAIN Whole |-> Whole[n]]
    BY DEF Whole
  <2> QED BY <2>1, <2>2, <2>3, <2>4
<1> QED BY <1>1, WholeAlways, PTL
================================================================================
