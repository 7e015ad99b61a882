---------------------------- MODULE EvaluationProofs ---------------------------
(***************************************************************************)
(* Whatever the dataset, the requests, the edits of the reviewer and the   *)
(* moments at which they meet: no result is computed against an            *)
(* expectation that no reviewer has written, the metrics of a trace fit    *)
(* together, the candidates for the reviewer are those of the dataset, and *)
(* the scores published are those of the saved results.                    *)
(***************************************************************************)
EXTENDS Evaluation, FoldLemmas, TLAPS

-----------------------------------------------------------------------------
(* Lists without repetitions.                                              *)

\* What Distinct has made of the first i ids.
Seen(d, ids, S) ==
    /\ d \in [0..Len(ids) -> Seq(S)]
    /\ d[0] = <<>>
    /\ \A i \in 1..Len(ids) :
          d[i] = IF ids[i] = None \/ ids[i] \in ToSet(d[i - 1]) THEN d[i - 1]
                                                              ELSE Append(d[i - 1], ids[i])

\* The recursion that Distinct unfolds to.
Dedupes(h, ids) ==
    h = [s \in SUBSET DOMAIN ids |->
            IF s = {} THEN <<>>
            ELSE LET x == Max(s)
                 IN  IF ids[x] = None \/ ids[x] \in ToSet(h[s \ {x}]) THEN h[s \ {x}]
                                                                    ELSE Append(h[s \ {x}], ids[x])]

\* There is a function that satisfies it.
LEMMA DedupesExists ==
    ASSUME NEW S, NEW ids \in Seq(S)
    PROVE  \E h : Dedupes(h, ids)
<1> DEFINE op == [p \in (1..Len(ids)) \X Seq(S) |->
                    IF ids[p[1]] = None \/ ids[p[1]] \in ToSet(p[2]) THEN p[2] ELSE Append(p[2], ids[p[1]])]
<1>1. op \in [(1..Len(ids)) \X Seq(S) -> Seq(S)]
  OBVIOUS
<1>2. \A p \in (1..Len(ids)) \X Seq(S) :
         op[p] = IF ids[p[1]] = None \/ ids[p[1]] \in ToSet(p[2]) THEN p[2] ELSE Append(p[2], ids[p[1]])
  OBVIOUS
<1>3. PICK n \in Nat : n = Len(ids) /\ DOMAIN ids = 1..n
  OBVIOUS
<1>4. <<>> \in Seq(S)
  OBVIOUS
<1> HIDE DEF op
<1>5. PICK g \in [SUBSET (1..n) -> Seq(S)] : Recursive(g, 1..n, LastOf(n), op, <<>>)
  BY <1>1, <1>3, <1>4, FoldExists
<1> DEFINE a == [s \in SUBSET (1..n) |->
            IF s = {} THEN <<>>
            ELSE LET x == Max(s)
                 IN  IF ids[x] = None \/ ids[x] \in ToSet(g[s \ {x}]) THEN g[s \ {x}]
                                                                    ELSE Append(g[s \ {x}], ids[x])]
<1>6. ASSUME NEW s \in SUBSET (1..n) PROVE g[s] = a[s]
  <2>1. CASE s = {}
    BY <1>5, <2>1 DEF Recursive
  <2>2. CASE s # {}
    <3>1. PICK x : x = Max(s)
      OBVIOUS
    <3>2. x \in 1..n /\ s \ {x} \in SUBSET (1..n) /\ LastOf(n)[s] = x
      BY <2>2, <3>1, MaxOf DEF LastOf
    <3>3. g[s] = op[<<x, g[s \ {x}]>>] /\ g[s \ {x}] \in Seq(S)
      BY <1>5, <2>2, <3>2 DEF Recursive
    <3>4. g[s] = IF ids[x] = None \/ ids[x] \in ToSet(g[s \ {x}]) THEN g[s \ {x}]
                                                                ELSE Append(g[s \ {x}], ids[x])
      BY <1>2, <1>3, <3>2, <3>3
    <3> QED BY <2>2, <3>1, <3>4
  <2> QED BY <2>1, <2>2
<1>7. g = [s \in SUBSET (1..n) |-> g[s]] /\ a = [s \in SUBSET (1..n) |-> a[s]]
  OBVIOUS
<1>8. Dedupes(g, ids) <=> g = a
  BY <1>3 DEF Dedupes
<1> HIDE DEF a
<1> QED BY <1>6, <1>7, <1>8

\* So Distinct goes through the ids one by one.
LEMMA DistinctSteps ==
    ASSUME NEW S, NEW ids \in Seq(S)
    PROVE  \E d : Seen(d, ids, S) /\ Distinct(ids) = d[Len(ids)]
<1> DEFINE h == CHOOSE k : Dedupes(k, ids)
           d == [i \in 0..Len(ids) |-> h[1..i]]
<1>1. Dedupes(h, ids)
  BY DedupesExists
<1>2. Distinct(ids) = h[DOMAIN ids]
  BY DEF Distinct, FoldLeft, MapThenFoldSet, Dedupes
<1>3. PICK n \in Nat : n = Len(ids) /\ DOMAIN ids = 1..n
  OBVIOUS
<1> HIDE DEF h
<1>8. Distinct(ids) = d[Len(ids)] /\ d = [i \in 0..n |-> d[i]]
  BY <1>2, <1>3
<1>4. d[0] = <<>>
  <2>1. 1..0 = {}
    OBVIOUS
  <2> QED BY <1>1, <2>1 DEF Dedupes
<1>5. ASSUME NEW i \in 1..n
      PROVE  d[i] = IF ids[i] = None \/ ids[i] \in ToSet(d[i - 1]) THEN d[i - 1] ELSE Append(d[i - 1], ids[i])
  <2>1. Max(1..i) = i /\ (1..i) \ {i} = 1..(i - 1) /\ 1..i # {} /\ 1..i \in SUBSET (1..n)
    BY LastOne
  <2>2. h[1..i] = IF ids[i] = None \/ ids[i] \in ToSet(h[1..(i - 1)]) THEN h[1..(i - 1)]
                                                                     ELSE Append(h[1..(i - 1)], ids[i])
    BY <1>1, <1>3, <2>1 DEF Dedupes
  <2> QED BY <1>3, <2>2
<1>9. PICK e : /\ e = [i \in 0..n |-> e[i]] /\ e[0] = <<>> /\ Distinct(ids) = e[n]
               /\ \A i \in 1..n : e[i] = IF ids[i] = None \/ ids[i] \in ToSet(e[i - 1])
                                          THEN e[i - 1] ELSE Append(e[i - 1], ids[i])
  <2> HIDE DEF d
  <2>1. \A i \in 1..n : d[i] = IF ids[i] = None \/ ids[i] \in ToSet(d[i - 1])
                                          THEN d[i - 1] ELSE Append(d[i - 1], ids[i])
    BY <1>5
  <2> QED BY <1>3, <1>4, <1>8, <2>1
<1> DEFINE Good == {i \in 0..n : e[i] \in Seq(S)}
<1>6. 0..n \subseteq Good
  <2>1. 0 \in Good
    BY <1>9
  <2>2. ASSUME NEW i \in 1..n, i - 1 \in Good PROVE i \in Good
    <3>1. PICK p \in Seq(S) : p = e[i - 1]
      BY <2>2
    <3>2. ids[i] \in S
      BY <1>3
    <3>3. Append(p, ids[i]) \in Seq(S)
      BY <3>2
    <3>4. e[i] \in {p, Append(p, ids[i])}
      BY <1>9, <3>1
    <3>5. e[i] \in Seq(S)
      BY <3>3, <3>4
    <3>6. i \in 0..n
      OBVIOUS
    <3> QED BY ONLY <3>5, <3>6
  <2> HIDE DEF Good
  <2> QED BY <2>1, <2>2, UptoInduction
<1>7. e \in [0..Len(ids) -> Seq(S)]
  BY <1>3, <1>6, <1>9
<1> QED BY <1>3, <1>7, <1>9 DEF Seen

\* The ids of a list come in the order of their first places in another one.
Once(ids, all) ==
    \A a, b \in DOMAIN ids : a < b =>
        \E j \in DOMAIN all : all[j] = ids[a] /\ \A l \in DOMAIN all : all[l] = ids[b] => j < l

\* This, of the first i places.
KeptUpTo(p, ids, i) == \A c : c \in ToSet(p) <=> c # None /\ \E j \in 1..i : ids[j] = c

InOrderUpTo(p, ids, i) ==
    \A a, b \in DOMAIN p : a < b =>
        \E j \in 1..i : ids[j] = p[a] /\ \A l \in 1..i : ids[l] = p[b] => j < l

\* An id that is left out changes neither.
LEMMA OneLeftOut ==
    ASSUME NEW p, NEW ids, NEW i \in Nat \ {0}, ids[i] = None \/ ids[i] \in ToSet(p),
           KeptUpTo(p, ids, i - 1), InOrderUpTo(p, ids, i - 1)
    PROVE  KeptUpTo(p, ids, i) /\ InOrderUpTo(p, ids, i)
<1>1. \A j : j \in 1..i <=> j \in 1..(i - 1) \/ j = i
  OBVIOUS
<1>2. KeptUpTo(p, ids, i)
  BY <1>1 DEF KeptUpTo
<1>3. InOrderUpTo(p, ids, i)
  <2> SUFFICES ASSUME NEW a \in DOMAIN p, NEW b \in DOMAIN p, a < b
               PROVE  \E j \in 1..i : ids[j] = p[a] /\ \A l \in 1..i : ids[l] = p[b] => j < l
    BY DEF InOrderUpTo
  <2>1. PICK j \in 1..(i - 1) : ids[j] = p[a] /\ \A l \in 1..(i - 1) : ids[l] = p[b] => j < l
    BY DEF InOrderUpTo
  <2>2. j < i /\ j \in 1..i
    OBVIOUS
  <2> QED BY <1>1, <2>1, <2>2
<1> QED BY <1>2, <1>3

\* Nor does one that is appended.
LEMMA OneMore ==
    ASSUME NEW S, NEW p \in Seq(S), NEW ids, NEW i \in Nat \ {0}, ids[i] \in S,
           ids[i] # None, ids[i] \notin ToSet(p),
           KeptUpTo(p, ids, i - 1), InOrderUpTo(p, ids, i - 1)
    PROVE  KeptUpTo(Append(p, ids[i]), ids, i) /\ InOrderUpTo(Append(p, ids[i]), ids, i)
<1>1. \A j : j \in 1..i <=> j \in 1..(i - 1) \/ j = i
  OBVIOUS
<1>2. PICK q : q = Append(p, ids[i])
  OBVIOUS
<1>3. PICK m \in Nat : m = Len(p)
  OBVIOUS
<1>4. /\ q[m + 1] = ids[i] /\ \A a \in 1..m : q[a] = p[a]
      /\ DOMAIN p = 1..m /\ DOMAIN q = 1..(m + 1)
  BY <1>2, <1>3
<1>5. \A c : c \in ToSet(q) <=> c \in ToSet(p) \/ c = ids[i]
  BY <1>4 DEF ToSet
<1>6. KeptUpTo(q, ids, i)
  BY <1>1, <1>5 DEF KeptUpTo
<1>7. InOrderUpTo(q, ids, i)
  <2> SUFFICES ASSUME NEW a \in DOMAIN q, NEW b \in DOMAIN q, a < b
               PROVE  \E j \in 1..i : ids[j] = q[a] /\ \A l \in 1..i : ids[l] = q[b] => j < l
    BY DEF InOrderUpTo
  <2>0. a \in 1..(m + 1) /\ b \in 1..(m + 1)
    BY <1>4
  <2>1. a \in 1..m /\ q[a] = p[a]
    BY <1>4, <2>0
  <2>2. CASE b = m + 1
    <3>1. p[a] \in ToSet(p)
      BY <1>4, <2>1 DEF ToSet
    <3>2. PICK j \in 1..(i - 1) : ids[j] = p[a]
      BY <3>1 DEF KeptUpTo
    <3>3. \A l \in 1..i : ids[l] = ids[i] => l = i
      BY <1>1 DEF KeptUpTo
    <3>4. j < i /\ j \in 1..i
      OBVIOUS
    <3> QED BY <1>4, <2>1, <2>2, <3>2, <3>3, <3>4
  <2>3. CASE b # m + 1
    <3>1. b \in 1..m
      BY <2>0, <2>3
    <3>2. q[b] = p[b] /\ p[b] \in ToSet(p)
      BY <1>4, <3>1 DEF ToSet
    <3>3. PICK j \in 1..(i - 1) : ids[j] = p[a] /\ \A l \in 1..(i - 1) : ids[l] = p[b] => j < l
      BY <1>4, <2>1, <3>1 DEF InOrderUpTo
    <3>4. j < i /\ j \in 1..i
      OBVIOUS
    <3> QED BY <1>1, <2>1, <3>2, <3>3, <3>4
  <2> QED BY <2>2, <2>3
<1> QED BY <1>2, <1>6, <1>7

\* Distinct keeps every id but None, and the order of first places.
LEMMA DistinctFacts ==
    ASSUME NEW S, NEW ids \in Seq(S)
    PROVE  /\ Distinct(ids) \in Seq(S)
           /\ ToSet(Distinct(ids)) = ToSet(ids) \ {None}
           /\ Once(Distinct(ids), ids)
<1>1. PICK d : Seen(d, ids, S) /\ Distinct(ids) = d[Len(ids)]
  BY DistinctSteps
<1>2. PICK n \in Nat : n = Len(ids) /\ DOMAIN ids = 1..n
  OBVIOUS
<1> DEFINE Good == {i \in 0..n : KeptUpTo(d[i], ids, i) /\ InOrderUpTo(d[i], ids, i)}
<1>3. 0 \in Good
  <2>1. d[0] = <<>> /\ DOMAIN d[0] = {} /\ ToSet(d[0]) = {}
    BY <1>1 DEF Seen, ToSet
  <2> QED BY <2>1 DEF KeptUpTo, InOrderUpTo
<1>4. ASSUME NEW i \in 1..n, i - 1 \in Good PROVE i \in Good
  <2>1. PICK p \in Seq(S) : p = d[i - 1]
    BY <1>1, <1>2 DEF Seen
  <2>2. ids[i] \in S /\ KeptUpTo(p, ids, i - 1) /\ InOrderUpTo(p, ids, i - 1)
    BY <1>2, <1>4, <2>1
  <2>3. d[i] = IF ids[i] = None \/ ids[i] \in ToSet(p) THEN p ELSE Append(p, ids[i])
    BY <1>1, <1>2, <2>1 DEF Seen
  <2>4. KeptUpTo(d[i], ids, i) /\ InOrderUpTo(d[i], ids, i)
    BY <2>2, <2>3, OneLeftOut, OneMore
  <2> QED BY <2>4
<1> HIDE DEF Good
<1>a. 0..n \subseteq Good
  BY <1>3, <1>4, UptoInduction
<1>5. n \in Good
  BY <1>a
<1>6. KeptUpTo(d[n], ids, n) /\ InOrderUpTo(d[n], ids, n) /\ d[n] \in Seq(S)
  BY <1>1, <1>2, <1>5 DEF Good, Seen
<1>7. ToSet(d[n]) = ToSet(ids) \ {None}
  BY <1>2, <1>6 DEF ToSet, KeptUpTo
<1>8. Once(d[n], ids)
  BY <1>2, <1>6 DEF Once, InOrderUpTo
<1> QED BY <1>1, <1>2, <1>6, <1>7, <1>8

\* Nothing occurs twice.
LEMMA DistinctOnce ==
    ASSUME NEW S, NEW ids \in Seq(S)
    PROVE  \A a, b \in DOMAIN Distinct(ids) : Distinct(ids)[a] = Distinct(ids)[b] => a = b
<1>1. Distinct(ids) \in Seq(S) /\ Once(Distinct(ids), ids)
  BY DistinctFacts
<1>2. PICK n \in Nat : DOMAIN Distinct(ids) = 1..n
  BY <1>1
<1>3. ASSUME NEW a \in 1..n, NEW b \in 1..n, a < b PROVE Distinct(ids)[a] # Distinct(ids)[b]
  <2>1. PICK j \in DOMAIN ids : /\ ids[j] = Distinct(ids)[a]
                                /\ \A l \in DOMAIN ids : ids[l] = Distinct(ids)[b] => j < l
    BY <1>1, <1>2, <1>3 DEF Once
  <2>2. j \in Nat
    OBVIOUS
  <2> QED BY <2>1, <2>2
<1> QED BY <1>2, <1>3

-----------------------------------------------------------------------------
(* The inductive invariant.  Expectations are followed from the example a  *)
(* request builds through the file and the script that has read it; all    *)
(* parts are about a set of approved expectations that only grows.         *)

ApprovedOf(kind, x, sources, ok) == sources = {} \/ <<kind, x, sources>> \in ok

GoodExample(e, ok) ==
    /\ e = [trace |-> e.trace, sources |-> e.sources, answer |-> e.answer]
    /\ e.sources \in SUBSET Chunks
    /\ ApprovedOf("question", QuestionOf[e.trace], e.sources, ok)
    /\ e.answer \in {None, Reviewed}

GoodExamples(examples, ok) ==
    /\ DOMAIN examples \subseteq Int
    /\ \A i \in DOMAIN examples : GoodExample(examples[i], ok)

\* The values an entry of the retrieval's results can have.
Results == {[trace |-> t, expected |-> e, metrics |-> Metrics(e, Retrieved(t))] :
               t \in Traces, e \in SUBSET Chunks}

Verdicts == [trace : Traces, expected : {Reviewed}, score : Scores]

GoodReviews(r, ok) ==
    /\ r \in [Traces -> SUBSET Chunks]
    /\ \A t \in Traces : ApprovedOf("trace", t, r[t], ok)

GoodGolden(f, ok) ==
    /\ f \in [Questions -> SUBSET Chunks]
    /\ \A q \in Questions : ApprovedOf("question", q, f[q], ok)

GoodResult(r, ok) ==
    /\ r.expected # {}
    /\ \/ <<"trace", r.trace, r.expected>> \in ok
       \/ <<"question", QuestionOf[r.trace], r.expected>> \in ok

GoodResults(results, ok) ==
    /\ results \in Seq(Results)
    /\ \A i \in DOMAIN results : GoodResult(results[i], ok)

GoldenInv == golden # Unreadable => GoodExamples(golden, approved)

RequestInv ==
    /\ request = [g \in Requests |-> request[g]]
    /\ \A g \in Requests :
          /\ request[g] = [step |-> request[g].step, examples |-> request[g].examples,
                           identified |-> request[g].identified]
          /\ request[g].step = "writing" => GoodExamples(request[g].examples, approved)

ReviewInv == GoodReviews(reviews, approved)

RetrievalInv ==
    retrieval.step = "evaluating" =>
        /\ retrieval = [step |-> "evaluating", todo |-> retrieval.todo,
                        golden |-> retrieval.golden, reviews |-> retrieval.reviews,
                        processed |-> retrieval.processed, skipped |-> retrieval.skipped]
        /\ GoodGolden(retrieval.golden, approved)
        /\ GoodReviews(retrieval.reviews, approved)
        /\ GoodResults(retrieval.processed, approved)

RetrievalFileInv ==
    retrievalFile # Unreadable => GoodResults(retrievalFile.processed, approved)

JudgeInv ==
    judge.step = "judging" =>
        /\ judge = [step |-> "judging", todo |-> judge.todo,
                    answers |-> judge.answers, results |-> judge.results]
        /\ judge.answers \in [Questions -> SUBSET {Reviewed}]
        /\ judge.results \in Seq(Verdicts)

JudgeFileInv == judgeFile # Unreadable => judgeFile \in Seq(Verdicts)

TruthInv ==
    /\ GoldenInv /\ RequestInv /\ ReviewInv
    /\ RetrievalInv /\ RetrievalFileInv
    /\ JudgeInv /\ JudgeFileInv

-----------------------------------------------------------------------------
(* Lemmas on the operators.                                                *)

\* At most one example of the dataset counts for a question, the last one.
LEMMA LatestIsOne ==
    ASSUME NEW examples, DOMAIN examples \subseteq Int, NEW q
    PROVE  \/ Latest(examples, q) = {}
           \/ \E i \in DOMAIN examples : /\ Latest(examples, q) = {i}
                                         /\ QuestionOf[examples[i].trace] = q
<1>1. ASSUME NEW i \in Latest(examples, q), NEW j \in Latest(examples, q)
      PROVE  i = j
  BY <1>1 DEF Latest
<1>2. \A i \in Latest(examples, q) : i \in DOMAIN examples /\ QuestionOf[examples[i].trace] = q
  BY DEF Latest
<1> QED BY <1>1, <1>2

\* What a script takes from a good dataset as the sources expected of a question.
LEMMA SourcesExpected ==
    ASSUME NEW examples, NEW ok, GoodExamples(examples, ok), NEW q
    PROVE  /\ ExpectedSources(examples, q) \in SUBSET Chunks
           /\ ApprovedOf("question", q, ExpectedSources(examples, q), ok)
<1>1. CASE Latest(examples, q) = {}
  BY <1>1 DEF ExpectedSources, ApprovedOf
<1>2. CASE Latest(examples, q) # {}
  <2>1. PICK i \in DOMAIN examples : /\ Latest(examples, q) = {i}
                                     /\ QuestionOf[examples[i].trace] = q
    BY <1>2, LatestIsOne DEF GoodExamples
  <2>2. ExpectedSources(examples, q) = examples[i].sources
    BY <2>1 DEF ExpectedSources
  <2> QED BY <2>1, <2>2 DEF GoodExamples, GoodExample
<1> QED BY <1>1, <1>2

\* What the judge takes as the answer expected of a question was written by the reviewer.
LEMMA AnswersExpected ==
    ASSUME NEW examples, NEW ok, GoodExamples(examples, ok), NEW q
    PROVE  ExpectedAnswers(examples, q) \in SUBSET {Reviewed}
<1>1. \A i \in Latest(examples, q) : i \in DOMAIN examples
  BY DEF Latest
<1> QED BY <1>1 DEF ExpectedAnswers, GoodExamples, GoodExample

\* A generated example expects nothing.
LEMMA GeneratedIsGood ==
    ASSUME NEW ids \in Lists, NEW fetched, NEW ok
    PROVE  GoodExamples(Examples(ids, fetched), ok)
<1> DEFINE found == [i \in DOMAIN ids |-> IF ids[i] \in fetched THEN ids[i] ELSE None]
<1>1. found \in Seq(Nat \cup {None})
  BY EvaluationAssumption
<1>2. PICK kept \in Seq(Nat \cup {None}) : kept = Distinct(found)
  BY <1>1, DistinctFacts
<1>3. Examples(ids, fetched) = [i \in DOMAIN kept |-> Example(kept[i])]
  BY <1>2 DEF Examples
<1>4. \A t : GoodExample(Example(t), ok)
  BY DEF Example, GoodExample, ApprovedOf
<1>5. DOMAIN kept \subseteq Int
  BY <1>2
<1> QED BY <1>3, <1>4, <1>5 DEF GoodExamples

\* The record of the judge, with two fields set.
LEMMA JudgeContinued ==
    ASSUME NEW j, NEW a, NEW b, NEW c,
           j = [step |-> "judging", todo |-> a, answers |-> b, results |-> c],
           NEW rest, NEW all, NEW x, x = [j EXCEPT !.todo = rest, !.results = all]
    PROVE  x = [step |-> "judging", todo |-> rest, answers |-> b, results |-> all]
OBVIOUS

\* More approvals harm nothing.
LEMMA ApprovalsGrow ==
    ASSUME NEW ok, NEW more, ok \subseteq more
    PROVE  /\ \A examples : GoodExamples(examples, ok) => GoodExamples(examples, more)
           /\ \A r : GoodReviews(r, ok) => GoodReviews(r, more)
           /\ \A f : GoodGolden(f, ok) => GoodGolden(f, more)
           /\ \A results : GoodResults(results, ok) => GoodResults(results, more)
BY DEF GoodExamples, GoodExample, GoodReviews, GoodGolden, GoodResults, GoodResult, ApprovedOf

\* A step that leaves the evaluation's data alone, but may add an approval, keeps TruthInv.
LEMMA Keeps ==
    ASSUME TruthInv, approved \subseteq approved'
    PROVE  /\ UNCHANGED golden => GoldenInv'
           /\ UNCHANGED request => RequestInv'
           /\ UNCHANGED reviews => ReviewInv'
           /\ UNCHANGED retrieval => RetrievalInv'
           /\ UNCHANGED retrievalFile => RetrievalFileInv'
           /\ UNCHANGED judge => JudgeInv'
           /\ UNCHANGED judgeFile => JudgeFileInv'
<1> USE ApprovalsGrow DEF TruthInv
<1>1. UNCHANGED golden => GoldenInv'
  BY DEF GoldenInv
<1>2. UNCHANGED request => RequestInv'
  BY DEF RequestInv
<1>3. UNCHANGED reviews => ReviewInv'
  BY DEF ReviewInv
<1>4. UNCHANGED retrieval => RetrievalInv'
  BY DEF RetrievalInv
<1>5. UNCHANGED retrievalFile => RetrievalFileInv'
  BY DEF RetrievalFileInv
<1>6. UNCHANGED judge => JudgeInv'
  BY DEF JudgeInv
<1>7. UNCHANGED judgeFile => JudgeFileInv'
  BY DEF JudgeFileInv
<1> QED BY <1>1, <1>2, <1>3, <1>4, <1>5, <1>6, <1>7

-----------------------------------------------------------------------------
LEMMA InitTruth == Init => TruthInv
BY DEF Init, TruthInv, GoldenInv, RequestInv, ReviewInv, RetrievalInv, RetrievalFileInv,
       JudgeInv, JudgeFileInv, GoodReviews, ApprovedOf, NoScript

(* Requests.                                                               *)

LEMMA GenerateKeeps ==
    ASSUME TruthInv, NEW g \in Requests, NEW ids \in Lists, NEW fetched, Generate(g, ids, fetched)
    PROVE  TruthInv'
<1>1. /\ UNCHANGED <<reviews, retrieval, retrievalFile, judge, judgeFile>>
      /\ approved' = approved
  BY DEF Generate, scripts
<1>2. GoldenInv'
  BY DEF Generate, GoldenInv
<1>3. RequestInv'
  <2>1. GoodExamples(Examples(ids, fetched), approved)
    BY GeneratedIsGood
  <2>2. request' = [request EXCEPT ![g] = [step |-> "writing", examples |-> Examples(ids, fetched),
                                           identified |-> <<>>]]
    BY DEF Generate
  <2> QED BY <1>1, <2>1, <2>2 DEF TruthInv, RequestInv
<1> QED BY <1>1, <1>2, <1>3, Keeps DEF TruthInv

LEMMA RequestKeeps ==
    ASSUME TruthInv, NEW g \in Requests, RequestStepOf(g)
    PROVE  TruthInv'
<1>1. /\ UNCHANGED <<reviews, retrieval, retrievalFile, judge, judgeFile>>
      /\ approved' = approved
  BY DEF RequestStepOf, GoldenWritten, Identify, IdentifyFails, CandidatesWritten, files, scripts,
         history
<1>2. GoldenInv'
  <2>1. CASE GoldenWritten(g)
    BY <1>1, <2>1 DEF GoldenWritten, TruthInv, RequestInv, GoldenInv
  <2>2. CASE Identify(g) \/ IdentifyFails(g) \/ CandidatesWritten(g)
    BY <1>1, <2>2, Keeps DEF Identify, IdentifyFails, CandidatesWritten, files
  <2> QED BY <2>1, <2>2 DEF RequestStepOf
<1>3. RequestInv'
  <2>1. CASE GoldenWritten(g)
    BY <1>1, <2>1 DEF GoldenWritten, RequestStep, TruthInv, RequestInv
  <2>2. CASE Identify(g)
    <3> DEFINE found == Append(request[g].identified, Head(Unidentified(g)).trace)
    <3>1. request' = [request EXCEPT ![g].identified = found]
      BY <2>2 DEF Identify
    <3> HIDE DEF found
    <3> QED BY <1>1, <3>1 DEF TruthInv, RequestInv
  <2>3. CASE IdentifyFails(g)
    BY <1>1, <2>3 DEF IdentifyFails, RequestStep, TruthInv, RequestInv
  <2>4. CASE CandidatesWritten(g)
    BY <1>1, <2>4 DEF CandidatesWritten, RequestStep, TruthInv, RequestInv
  <2> QED BY <2>1, <2>2, <2>3, <2>4 DEF RequestStepOf
<1> QED BY <1>1, <1>2, <1>3, Keeps DEF TruthInv

LEMMA CrashKeeps ==
    ASSUME TruthInv, Crash
    PROVE  TruthInv'
<1>1. /\ UNCHANGED <<golden, reviews, retrieval, retrievalFile, judge, judgeFile>>
      /\ approved' = approved
  BY DEF Crash, files, scripts, history
<1>2. RequestInv'
  BY <1>1 DEF Crash, TruthInv, RequestInv
<1> QED BY <1>1, <1>2, Keeps DEF TruthInv

(* The reviewer.                                                           *)

LEMMA ApproveKeeps ==
    ASSUME TruthInv, NEW i, NEW sources \in Reviews, Approve(i, sources)
    PROVE  TruthInv'
<1>1. /\ UNCHANGED <<request, reviews, retrieval, retrievalFile, judge, judgeFile>>
      /\ approved \subseteq approved'
  BY DEF Approve, scripts
<1>2. GoldenInv'
  <2>1. GoodExamples(golden, approved) /\ i \in DOMAIN golden
    BY DEF Approve, TruthInv, GoldenInv
  <2>2. GoodExamples(golden, approved')
    BY <1>1, <2>1, ApprovalsGrow
  <2>3. sources \in SUBSET Chunks
    BY EvaluationAssumption
  <2> DEFINE e == [trace |-> golden[i].trace, sources |-> sources, answer |-> Reviewed]
  <2>4. /\ golden' = [golden EXCEPT ![i] = e]
        /\ <<"question", QuestionOf[golden[i].trace], sources>> \in approved'
    BY DEF Approve
  <2>5. GoodExample(e, approved')
    BY <2>3, <2>4 DEF GoodExample, ApprovedOf
  <2> HIDE DEF e
  <2> QED BY <2>1, <2>2, <2>4, <2>5 DEF GoldenInv, GoodExamples
<1> QED BY <1>1, <1>2, Keeps DEF TruthInv

LEMMA ReviewTraceKeeps ==
    ASSUME TruthInv, NEW t \in Traces, NEW sources \in Reviews, ReviewTrace(t, sources)
    PROVE  TruthInv'
<1>1. /\ UNCHANGED <<golden, request, retrieval, retrievalFile, judge, judgeFile>>
      /\ approved \subseteq approved'
  BY DEF ReviewTrace, scripts
<1>2. ReviewInv'
  <2>1. GoodReviews(reviews, approved')
    BY <1>1, ApprovalsGrow DEF TruthInv, ReviewInv
  <2>2. sources \in SUBSET Chunks
    BY EvaluationAssumption
  <2> QED BY <2>1, <2>2 DEF ReviewTrace, ReviewInv, GoodReviews, ApprovedOf
<1> QED BY <1>1, <1>2, Keeps DEF TruthInv

(* The retrieval script.                                                   *)

LEMMA RetrievalLoadKeeps ==
    ASSUME TruthInv, NEW ids, RetrievalLoad(ids)
    PROVE  TruthInv'
<1>1. /\ UNCHANGED <<golden, request, reviews, retrievalFile, judge, judgeFile>>
      /\ approved' = approved
  BY DEF RetrievalLoad, files, history
<1>2. RetrievalInv'
  <2> DEFINE expected == [q \in Questions |-> ExpectedSources(golden, q)]
  <2>1. GoodGolden(expected, approved)
    <3>1. GoodExamples(golden, approved)
      BY DEF RetrievalLoad, TruthInv, GoldenInv
    <3> QED BY <3>1, SourcesExpected DEF GoodGolden
  <2>2. GoodReviews(reviews, approved)
    BY DEF TruthInv, ReviewInv
  <2>3. GoodResults(<<>>, approved)
    BY DEF GoodResults
  <2>4. retrieval' = [step |-> "evaluating", todo |-> Distinct(ids), golden |-> expected,
                      reviews |-> reviews, processed |-> <<>>, skipped |-> <<>>]
    BY DEF RetrievalLoad
  <2> HIDE DEF expected
  <2> QED BY <1>1, <2>1, <2>2, <2>3, <2>4 DEF RetrievalInv
<1> QED BY <1>1, <1>2, Keeps DEF TruthInv

\* Every branch of _resolve_expected_source_ids leads to an approved expectation.
LEMMA ResolvedIsApproved ==
    ASSUME TruthInv, retrieval.step = "evaluating", NEW t \in Traces, Resolved(t) # {}
    PROVE  /\ RetrievalResult(t) \in Results
           /\ GoodResult(RetrievalResult(t), approved)
<1>1. GoodGolden(retrieval.golden, approved) /\ GoodReviews(retrieval.reviews, approved)
  BY DEF TruthInv, RetrievalInv
<1>2. QuestionOf[t] \in Questions
  BY EvaluationAssumption
<1>3. Resolved(t) \in SUBSET Chunks
  BY <1>1, <1>2 DEF Resolved, GoodGolden, GoodReviews
<1>4. \/ <<"trace", t, Resolved(t)>> \in approved
      \/ <<"question", QuestionOf[t], Resolved(t)>> \in approved
  BY <1>1, <1>2 DEF Resolved, GoodGolden, GoodReviews, ApprovedOf
<1> QED BY <1>3, <1>4 DEF RetrievalResult, Results, GoodResult

LEMMA RetrievalStepKeeps ==
    ASSUME TruthInv, RetrievalStep
    PROVE  TruthInv'
<1>1. /\ UNCHANGED <<golden, request, reviews, judge, judgeFile>>
      /\ approved' = approved
  BY DEF RetrievalStep, Evaluate, Skip, RetrievalSave, files, history
<1>2. /\ retrieval = [step |-> "evaluating", todo |-> retrieval.todo,
                      golden |-> retrieval.golden, reviews |-> retrieval.reviews,
                      processed |-> retrieval.processed, skipped |-> retrieval.skipped]
      /\ GoodGolden(retrieval.golden, approved)
      /\ GoodReviews(retrieval.reviews, approved)
      /\ GoodResults(retrieval.processed, approved)
      /\ retrieval.step = "evaluating"
  BY DEF RetrievalStep, Evaluate, Skip, RetrievalSave, TruthInv, RetrievalInv
<1>3. RetrievalInv' /\ RetrievalFileInv'
  <2>1. CASE Evaluate
    <3> DEFINE t == Head(retrieval.todo)
    <3>1. /\ t \in Traces /\ Resolved(t) # {}
          /\ retrieval' = [retrieval EXCEPT !.todo = Tail(@),
                                            !.processed = Append(@, RetrievalResult(t))]
          /\ UNCHANGED retrievalFile
      BY <2>1 DEF Evaluate, files
    <3>2. RetrievalResult(t) \in Results /\ GoodResult(RetrievalResult(t), approved)
      BY <1>2, <3>1, ResolvedIsApproved
    <3>3. GoodResults(Append(retrieval.processed, RetrievalResult(t)), approved)
      BY <1>2, <3>2 DEF GoodResults
    <3>4. retrieval' = [step |-> "evaluating", todo |-> Tail(retrieval.todo),
                        golden |-> retrieval.golden, reviews |-> retrieval.reviews,
                        processed |-> Append(retrieval.processed, RetrievalResult(t)),
                        skipped |-> retrieval.skipped]
      BY <1>2, <3>1
    <3> HIDE DEF t
    <3>5. RetrievalInv'
      BY <1>1, <1>2, <3>3, <3>4 DEF RetrievalInv
    <3> QED BY <1>1, <3>1, <3>5, Keeps
  <2>2. CASE Skip
    <3>1. /\ retrieval' = [retrieval EXCEPT !.todo = Tail(@),
                                            !.skipped = Append(@, Head(retrieval.todo))]
          /\ UNCHANGED retrievalFile
      BY <2>2 DEF Skip, files
    <3>2. retrieval' = [step |-> "evaluating", todo |-> Tail(retrieval.todo),
                        golden |-> retrieval.golden, reviews |-> retrieval.reviews,
                        processed |-> retrieval.processed,
                        skipped |-> Append(retrieval.skipped, Head(retrieval.todo))]
      BY <1>2, <3>1
    <3>3. RetrievalInv'
      BY <1>1, <1>2, <3>2 DEF RetrievalInv
    <3> QED BY <1>1, <3>1, <3>3, Keeps
  <2>3. CASE RetrievalSave
    BY <1>1, <1>2, <2>3 DEF RetrievalSave, RetrievalInv, RetrievalFileInv
  <2> QED BY <2>1, <2>2, <2>3 DEF RetrievalStep
<1> QED BY <1>1, <1>3, Keeps DEF TruthInv

(* The judge script.                                                       *)

LEMMA JudgeLoadKeeps ==
    ASSUME TruthInv, NEW ids, JudgeLoad(ids)
    PROVE  TruthInv'
<1>1. /\ UNCHANGED <<golden, request, reviews, retrieval, retrievalFile, judgeFile>>
      /\ approved' = approved
  BY DEF JudgeLoad, files, history
<1>2. JudgeInv'
  <2> DEFINE expected == [q \in Questions |-> ExpectedAnswers(golden, q)]
  <2>1. expected \in [Questions -> SUBSET {Reviewed}]
    <3>1. GoodExamples(golden, approved)
      BY DEF JudgeLoad, TruthInv, GoldenInv
    <3> QED BY <3>1, AnswersExpected
  <2>2. judge' = [step |-> "judging", todo |-> ids, answers |-> expected, results |-> <<>>]
    BY DEF JudgeLoad
  <2> HIDE DEF expected
  <2> QED BY <2>1, <2>2 DEF JudgeInv
<1> QED BY <1>1, <1>2, Keeps DEF TruthInv

LEMMA JudgeStepKeeps ==
    ASSUME TruthInv, JudgeStep
    PROVE  TruthInv'
<1>1. /\ UNCHANGED <<golden, request, reviews, retrieval, retrievalFile>>
      /\ approved' = approved
  BY DEF JudgeStep, JudgeTrace, JudgeRaises, JudgeSave, files, history
<1>2. /\ judge = [step |-> "judging", todo |-> judge.todo,
                  answers |-> judge.answers, results |-> judge.results]
      /\ judge.answers \in [Questions -> SUBSET {Reviewed}]
      /\ judge.results \in Seq(Verdicts)
  BY DEF JudgeStep, JudgeTrace, JudgeRaises, JudgeSave, TruthInv, JudgeInv
<1>3. JudgeInv' /\ JudgeFileInv'
  <2>1. ASSUME NEW score \in Scores, NEW answer, JudgeTrace(score, answer)
        PROVE  JudgeInv' /\ JudgeFileInv'
    <3> DEFINE t == Head(judge.todo)
               verdict == [trace |-> t, expected |-> answer, score |-> score]
    <3>1. /\ t \in Traces /\ answer \in AnswersFor(t)
          /\ judge' = [judge EXCEPT !.todo = Tail(@), !.results = Append(@, verdict)]
          /\ UNCHANGED judgeFile
      BY <2>1 DEF JudgeTrace, files
    <3>2. verdict \in Verdicts
      BY <1>2, <3>1, EvaluationAssumption DEF AnswersFor, Verdicts
    <3> DEFINE rest == Tail(judge.todo)
               all  == Append(judge.results, verdict)
    <3>5. judge' = [judge EXCEPT !.todo = rest, !.results = all]
      BY <3>1
    <3>6. judge' = [step |-> "judging", todo |-> rest, answers |-> judge.answers, results |-> all]
      <4> HIDE DEF rest, all
      <4>1. \E a, b, c : judge = [step |-> "judging", todo |-> a, answers |-> b, results |-> c]
        BY <1>2
      <4>2. PICK a, b, c : judge = [step |-> "judging", todo |-> a, answers |-> b, results |-> c]
        BY <4>1
      <4>3. b = judge.answers
        BY <4>2
      <4> QED BY <3>5, <4>2, <4>3, JudgeContinued
    <3>3. judge' = [step |-> "judging", todo |-> Tail(judge.todo), answers |-> judge.answers,
                    results |-> Append(judge.results, verdict)]
      BY <3>6
    <3> HIDE DEF verdict
    <3>4. JudgeInv'
      BY <1>2, <3>2, <3>3 DEF JudgeInv
    <3> QED BY <1>1, <3>1, <3>4, Keeps
  <2>2. CASE JudgeRaises
    <3>1. JudgeInv'
      BY <2>2 DEF JudgeRaises, JudgeInv, NoScript
    <3>2. UNCHANGED judgeFile
      BY <2>2 DEF JudgeRaises, files
    <3> QED BY <1>1, <3>1, <3>2, Keeps
  <2>3. CASE JudgeSave
    BY <1>2, <2>3 DEF JudgeSave, JudgeInv, JudgeFileInv
  <2> QED BY <2>1, <2>2, <2>3 DEF JudgeStep
<1> QED BY <1>1, <1>3, Keeps DEF TruthInv

(* The publisher only reads.                                               *)

LEMMA PublishKeeps ==
    ASSUME TruthInv, PublishLoad \/ PublishStep
    PROVE  TruthInv'
<1>1. /\ UNCHANGED <<golden, request, reviews, retrieval, retrievalFile, judge, judgeFile>>
      /\ approved' = approved
  BY DEF PublishLoad, PublishStep, PublishRetrieval, PublishJudge, PublishHalf, PublishEnd, files,
         history
<1> QED BY <1>1, Keeps DEF TruthInv

-----------------------------------------------------------------------------
LEMMA StepKeeps == TruthInv /\ [Next]_vars => TruthInv'
<1> SUFFICES ASSUME TruthInv, [Next]_vars PROVE TruthInv'
  OBVIOUS
<1>1. CASE UNCHANGED vars
  BY <1>1, Keeps DEF vars, files, scripts, history, TruthInv
<1>2. ASSUME NEW g \in Requests, NEW ids \in Lists, NEW fetched \in SUBSET Traces,
             Generate(g, ids, fetched)
      PROVE  TruthInv'
  BY <1>2, GenerateKeeps
<1>3. ASSUME NEW g \in Requests, RequestStepOf(g) PROVE TruthInv'
  BY <1>3, RequestKeeps
<1>4. ASSUME NEW i \in 1..Cardinality(Traces), NEW sources \in Reviews, Approve(i, sources)
      PROVE  TruthInv'
  BY <1>4, ApproveKeeps
<1>5. ASSUME NEW t \in Traces, NEW sources \in Reviews, ReviewTrace(t, sources)
      PROVE  TruthInv'
  BY <1>5, ReviewTraceKeeps
<1>6. ASSUME NEW ids \in Lists, RetrievalLoad(ids) \/ JudgeLoad(ids) PROVE TruthInv'
  BY <1>6, RetrievalLoadKeeps, JudgeLoadKeeps
<1> QED
  BY <1>1, <1>2, <1>3, <1>4, <1>5, <1>6, CrashKeeps, RetrievalStepKeeps, JudgeStepKeeps,
     PublishKeeps DEF Next

LEMMA TruthSuffices == TruthInv => OnlyReviewedTruth
<1> SUFFICES ASSUME TruthInv PROVE OnlyReviewedTruth
  OBVIOUS
<1>1. ASSUME NEW results, GoodResults(results, approved), NEW i \in DOMAIN results
      PROVE  ReviewedSources(results[i])
  BY <1>1 DEF GoodResults, GoodResult, ReviewedSources
<1>2. ASSUME judgeFile # Unreadable, NEW i \in DOMAIN judgeFile
      PROVE  judgeFile[i].expected = Reviewed
  <2>1. judgeFile[i] \in Verdicts
    BY <1>2 DEF TruthInv, JudgeFileInv
  <2> QED BY <2>1 DEF Verdicts
<1> QED BY <1>1, <1>2 DEF TruthInv, RetrievalInv, RetrievalFileInv, OnlyReviewedTruth

\* No result of an evaluation is compared with anything but what a reviewer expects of that
\* trace or question (golden_dataset_builder.py, existing_trace_*_evaluator.py), for any
\* traces, requests, edits, failures and interleavings.
THEOREM ReviewedTruthOnly == Spec => []OnlyReviewedTruth
<1>1. Init => TruthInv
  BY InitTruth
<1>2. TruthInv /\ [Next]_vars => TruthInv'
  BY StepKeeps
<1>3. TruthInv => OnlyReviewedTruth
  BY TruthSuffices
<1> QED BY <1>1, <1>2, <1>3, PTL DEF Spec

-----------------------------------------------------------------------------
(* The metrics of one trace.                                               *)

\* Discounts: the further down, the less.
Falling(f, n) ==
    /\ \A r \in 1..n : f[r] \in Nat \ {0}
    /\ \A q, r \in 1..n : q < r => f[r] < f[q]

\* As many ranks as there are in R, but the first ones, have more of them.
LEMMA FirstRanksBest ==
    ASSUME NEW n \in Nat, NEW f, Falling(f, n), NEW R \in SUBSET (1..n)
    PROVE  /\ Cardinality(R) \in 0..n
           /\ Total(f, R) <= Total(f, 1..Cardinality(R))
           /\ Total(f, R) = Total(f, 1..Cardinality(R)) => R = 1..Cardinality(R)
<1>0. PICK N : N = 1..n
  OBVIOUS
<1> DEFINE Best(T) == /\ Cardinality(T) \in 0..n
                      /\ Total(f, T) <= Total(f, 1..Cardinality(T))
                      /\ Total(f, T) = Total(f, 1..Cardinality(T)) => T = 1..Cardinality(T)
           Good == {T \in SUBSET N : Best(T)}
<1>1. IsFiniteSet(N) /\ Summable(f, N)
  BY <1>0, FS_Interval DEF Summable, Falling
<1>2. {} \in Good
  <2>1. 1..0 = {} /\ Cardinality({}) = 0
    BY FS_EmptySet
  <2>2. Total(f, {}) = 0
    BY <1>1, TotalTake
  <2> QED BY <2>1, <2>2
<1>3. ASSUME NEW T \in SUBSET N, T # {}, \A U \in SUBSET T : U # T => U \in Good
      PROVE  T \in Good
  <2>1. PICK j : j = Max(T)
    OBVIOUS
  <2>2. j \in T /\ j \in 1..n /\ T \in SUBSET (1..j)
    <3>1. Max(T) \in T /\ \A x \in T : x <= Max(T)
      BY <1>0, <1>3, MaxOf
    <3>a. \A x \in T : x \in 1..n
      BY <1>0
    <3>2. j \in Nat /\ \A x \in T : x \in Nat /\ 1 <= x /\ x <= j
      BY <2>1, <3>1, <3>a
    <3> QED BY <1>0, <2>1, <3>1, <3>2
  <2>3. PICK U : U = T \ {j}
    OBVIOUS
  <2>4. PICK c \in Nat : c = Cardinality(U)
    <3>1. IsFiniteSet(U)
      BY <1>1, <2>3, FS_Subset
    <3> QED BY <3>1, FS_CardinalityType
  <2>5. /\ U \in SUBSET N /\ Total(f, U) <= Total(f, 1..c)
        /\ Total(f, U) = Total(f, 1..c) => U = 1..c
    BY <1>3, <2>2, <2>3, <2>4
  <2>6. Cardinality(T) = c + 1
    <3>1. IsFiniteSet(T)
      BY <1>1, FS_Subset
    <3>2. Cardinality(T \ {j}) = Cardinality(T) - 1 /\ Cardinality(T) \in Nat
      BY <2>2, <3>1, FS_RemoveElement, FS_CardinalityType
    <3> QED BY <2>3, <2>4, <3>2
  <2>7. c + 1 <= j
    <3>1. Cardinality(1..j) = j /\ IsFiniteSet(1..j)
      BY <2>2, FS_Interval
    <3> QED BY <2>2, <2>6, <3>1, FS_Subset
  <2>8. /\ 1..(c + 1) \in SUBSET N /\ c + 1 \in 1..n /\ c + 1 \in 1..(c + 1)
        /\ (1..(c + 1)) \ {c + 1} = 1..c /\ 1..c \in SUBSET N
    BY <1>0, <2>2, <2>7
  <2>9. /\ Total(f, T) = f[j] + Total(f, U)
        /\ Total(f, 1..(c + 1)) = f[c + 1] + Total(f, 1..c)
        /\ Total(f, U) \in Nat /\ Total(f, 1..c) \in Nat
    <3>1. /\ \A V \in SUBSET N : Total(f, V) \in Nat
          /\ \A V \in SUBSET N : \A x \in V : Total(f, V) = f[x] + Total(f, V \ {x})
      BY <1>1, TotalTake
    <3> QED BY <2>2, <2>3, <2>5, <2>8, <3>1
  <2>10. f[j] \in Nat /\ f[c + 1] \in Nat /\ f[j] <= f[c + 1] /\ (f[j] = f[c + 1] => j = c + 1)
    BY <2>2, <2>7, <2>8 DEF Falling
  <2>11. Total(f, T) <= Total(f, 1..(c + 1))
    BY ONLY <2>5, <2>9, <2>10
  <2>12. ASSUME Total(f, T) = Total(f, 1..(c + 1)) PROVE T = 1..(c + 1)
    <3>1. f[j] = f[c + 1] /\ Total(f, U) = Total(f, 1..c)
      BY ONLY <2>5, <2>9, <2>10, <2>12
    <3>2. U = 1..c /\ j = c + 1
      BY <2>5, <2>10, <3>1
    <3> QED BY <2>2, <2>3, <2>8, <3>2
  <2> QED BY <2>6, <2>8, <2>11, <2>12
<1> HIDE DEF Good
<1>4. SUBSET N \subseteq Good
  BY <1>1, <1>2, <1>3, SizeInduction
<1> QED BY <1>0, <1>4 DEF Good

\* The least of two.
LEMMA LeastOf ==
    ASSUME NEW m \in Nat, NEW n \in Nat
    PROVE  Least(m, n) \in Nat /\ Least(m, n) <= m /\ Least(m, n) <= n /\ Least(m, n) \in {m, n}
BY DEF Least

\* The metrics of one trace fit together, for any ranking without repetitions.
LEMMA MetricsFit ==
    ASSUME NEW S, NEW ids \in Seq(S), \A a, b \in DOMAIN ids : ids[a] = ids[b] => a = b,
           NEW expected, IsFiniteSet(expected), NEW m, m.retrieved = ids,
           m.recall = [k \in Ks |-> Recall(expected, ids, k)],
           m.precision = [k \in Ks |-> Precision(expected, ids, k)],
           m.rank = FirstRelevant(expected, ids),
           m.ndcg = [k \in Ks |-> Ndcg(expected, ids, k)]
    PROVE  Coherent(expected, m)
<1> SUFFICES ASSUME NEW k \in Ks
             PROVE  /\ m.recall[k].num <= m.recall[k].den
                    /\ m.precision[k].num <= m.precision[k].den
                    /\ m.ndcg[k].num <= m.ndcg[k].den
                    /\ \A l \in Ks : l > k => m.recall[k].num <= m.recall[l].num
                    /\ (m.rank \in 1..k) <=> (m.recall[k].num > 0)
                    /\ m.ndcg[k].num = m.ndcg[k].den <=>
                          /\ Len(m.retrieved) >= Least(k, Cardinality(expected))
                          /\ \A r \in 1..Least(k, Cardinality(expected)) : m.retrieved[r] \in expected
  BY DEF Coherent
<1>1. PICK n \in Nat : n = Len(ids) /\ DOMAIN ids = 1..n
  OBVIOUS
<1>2. PICK c \in Nat : c = Cardinality(expected)
  BY FS_CardinalityType
<1> DEFINE Top(l)  == expected \cap {ids[r] : r \in 1..Least(l, n)}
           hits    == Hits(expected, ids, k)
<1>3. ASSUME NEW l \in Ks
      PROVE  /\ m.recall[l].num = Cardinality(Top(l)) /\ m.recall[l].den = c
             /\ IsFiniteSet(Top(l)) /\ Cardinality(Top(l)) \in Nat /\ Cardinality(Top(l)) <= c
  <2>1. IsFiniteSet(Top(l)) /\ Cardinality(Top(l)) <= c /\ Cardinality(Top(l)) \in Nat
    BY <1>2, FS_Subset, FS_CardinalityType
  <2> HIDE DEF Top
  <2>2. Recall(expected, ids, l) = [num |-> Cardinality(Top(l)), den |-> c]
    BY <1>1, <1>2 DEF Recall, Top
  <2> QED BY <2>1, <2>2
<1>4. k \in Nat \ {0} /\ \A l \in Ks : l \in Nat
  BY MetricsAssumption
<1>5. \A l \in Ks : l > k => m.recall[k].num <= m.recall[l].num
  <2> SUFFICES ASSUME NEW l \in Ks, l > k PROVE m.recall[k].num <= m.recall[l].num
    OBVIOUS
  <2>1. Least(k, n) <= Least(l, n) /\ Least(k, n) \in Nat /\ Least(l, n) \in Nat
    BY <1>4 DEF Least
  <2>2. Top(k) \subseteq Top(l)
    BY <2>1
  <2> HIDE DEF Top
  <2> QED BY <1>3, <2>2, FS_Subset
<1>6. PICK t \in Nat : t = Least(k, n) /\ t <= k /\ t <= n
  BY <1>4, LeastOf
<1>7. /\ hits \in SUBSET (1..t) /\ \A r \in 1..t : r \in hits <=> ids[r] \in expected
      /\ IsFiniteSet(hits) /\ Cardinality(hits) \in Nat /\ Cardinality(hits) <= t
  <2>1. hits \in SUBSET (1..t) /\ \A r \in 1..t : r \in hits <=> ids[r] \in expected
    BY <1>1, <1>6 DEF Hits
  <2>2. IsFiniteSet(1..t) /\ Cardinality(1..t) = t
    BY FS_Interval
  <2> HIDE DEF hits
  <2>3. IsFiniteSet(hits) /\ Cardinality(hits) <= Cardinality(1..t)
    BY <2>1, <2>2, FS_Subset
  <2> QED BY <2>1, <2>2, <2>3, FS_CardinalityType
<1>8. m.precision[k].num <= m.precision[k].den
  <2>1. Precision(expected, ids, k) = [num |-> Cardinality(hits), den |-> t]
    BY <1>1, <1>6 DEF Precision
  <2> HIDE DEF hits
  <2> QED BY <1>7, <2>1
<1>9. (m.rank \in 1..k) <=> (m.recall[k].num > 0)
  <2> DEFINE all == Hits(expected, ids, n)
  <2>1. all \in SUBSET (1..n) /\ \A r \in 1..n : r \in all <=> ids[r] \in expected
    BY <1>1 DEF Hits, Least
  <2>2. m.rank = IF all = {} THEN 0 ELSE Min(all)
    BY <1>1 DEF FirstRelevant
  <2>3. Cardinality(Top(k)) > 0 <=> Top(k) # {}
    <3>1. IsFiniteSet(Top(k)) /\ Cardinality(Top(k)) \in Nat
      BY <1>3
    <3> HIDE DEF Top
    <3> QED BY <3>1, FS_EmptySet
  <2>4. Top(k) # {} <=> \E r \in 1..t : ids[r] \in expected
    BY <1>6
  <2> HIDE DEF Top, all
  <2>5. ASSUME NEW r \in 1..t, ids[r] \in expected PROVE m.rank \in 1..k
    <3>1. r \in all
      BY <1>6, <2>1, <2>5
    <3>2. all \in SUBSET Nat /\ all # {}
      BY <2>1, <3>1
    <3>3. Min(all) \in all /\ Min(all) <= r
      BY <3>1, <3>2, MinOf
    <3>4. m.rank \in 1..n /\ m.rank <= r
      BY <2>1, <2>2, <3>2, <3>3
    <3>5. r <= k
      BY <1>4, <1>6
    <3> QED BY <1>4, <1>6, <3>4, <3>5
  <2>6. ASSUME m.rank \in 1..k PROVE \E r \in 1..t : ids[r] \in expected
    <3>1. all # {} /\ m.rank = Min(all)
      BY <2>2, <2>6
    <3>2. all \in SUBSET Nat
      BY <2>1
    <3>3. m.rank \in all
      BY <3>1, <3>2, MinOf
    <3>4. m.rank \in 1..t
      BY <1>4, <1>6, <2>1, <2>6, <3>3 DEF Least
    <3> QED BY <2>1, <3>3, <3>4
  <2> QED BY <1>3, <2>3, <2>4, <2>5, <2>6
<1>10. PICK b \in Nat : b = Least(c, k) /\ b <= c /\ b <= k
  BY <1>4, LeastOf
<1>11. Falling(Gain, k)
  <2>1. 1..k \subseteq DOMAIN Gain
    BY MetricsAssumption
  <2> DEFINE Good == {i \in 0..k : \A q, r \in 1..i : q < r => Gain[r] < Gain[q]}
  <2>2. ASSUME NEW i \in 1..k, i - 1 \in Good PROVE i \in Good
    <3> SUFFICES ASSUME NEW q \in 1..i, NEW r \in 1..i, q < r PROVE Gain[r] < Gain[q]
      OBVIOUS
    <3>1. CASE r # i
      BY <2>2, <3>1
    <3>2. CASE r = i
      <4>1. Gain[i] < Gain[i - 1] /\ Gain[i] \in Nat /\ Gain[i - 1] \in Nat /\ Gain[q] \in Nat
        <5>0. i \in 1..k /\ i - 1 \in 1..k /\ q \in 1..k /\ i > 1
          BY <1>4, <3>2
        <5>1. i \in DOMAIN Gain /\ i - 1 \in DOMAIN Gain /\ q \in DOMAIN Gain /\ i > 1
          BY <2>1, <5>0
        <5> QED BY <5>1, MetricsAssumption
      <4>2. q # i - 1 => Gain[i - 1] < Gain[q]
        BY <2>2, <3>2
      <4> QED BY <3>2, <4>1, <4>2
    <3> QED BY <3>1, <3>2
  <2>3. 0 \in Good
    OBVIOUS
  <2> HIDE DEF Good
  <2>5. 0..k \subseteq Good
    BY <1>4, <2>2, <2>3, UptoInduction
  <2>4. k \in Good
    BY <1>4, <2>5
  <2> QED BY <2>1, <2>4, MetricsAssumption DEF Good, Falling
<1>12. Cardinality(hits) <= b
  <2>1. Cardinality(hits) <= c
    <3> HIDE DEF hits
    <3>0. \A a \in hits : a \in DOMAIN ids /\ ids[a] \in expected
      BY <1>1, <1>6, <1>7
    <3>1. [r \in hits |-> ids[r]] \in Injection(hits, expected)
      BY <3>0 DEF Injection, IsInjective
    <3>2. \E f \in Injection(hits, expected) : TRUE
      BY <3>1
    <3> QED BY <1>2, <1>7, <3>2, FS_Injection
  <2> HIDE DEF hits
  <2> QED BY <1>4, <1>6, <1>7, <1>10, <2>1 DEF Least
<1>13. m.ndcg[k].num = Total(Gain, hits) /\ m.ndcg[k].den = Total(Gain, 1..b)
  BY <1>2, <1>10 DEF Ndcg, GainOf, Total, IdealRanks
<1>14. PICK h \in Nat : h = Cardinality(hits) /\ h <= b
  BY <1>7, <1>12
<1> HIDE DEF hits
<1>15. hits \in SUBSET (1..k) /\ 1..h \in SUBSET (1..b) /\ 1..b \in SUBSET (1..k)
  <2>1. 1..t \subseteq 1..k
    BY <1>4, <1>6
  <2> QED BY <1>4, <1>7, <1>10, <1>14, <2>1
<1>16. /\ Total(Gain, hits) <= Total(Gain, 1..h)
       /\ Total(Gain, hits) = Total(Gain, 1..h) => hits = 1..h
  BY <1>4, <1>11, <1>14, <1>15, FirstRanksBest
<1>17. /\ Total(Gain, 1..h) <= Total(Gain, 1..b)
       /\ Total(Gain, 1..h) = Total(Gain, 1..b) => 1..h = 1..b
       /\ Total(Gain, 1..h) \in Nat /\ Total(Gain, 1..b) \in Nat /\ Total(Gain, hits) \in Nat
  <2>1. IsFiniteSet(1..k) /\ IsFiniteSet(1..b)
    BY <1>4, FS_Interval
  <2>2. Summable(Gain, 1..k) /\ Summable(Gain, 1..b) /\ \A x \in 1..b : Gain[x] # 0
    BY <1>11, <1>15, <2>1 DEF Summable, Falling
  <2>3. \A V \in SUBSET (1..k) : Total(Gain, V) \in Nat
    BY <2>2, TotalTake
  <2>4. Total(Gain, 1..h) <= Total(Gain, 1..b)
    BY <1>15, <2>2, TotalOfPart
  <2>5. 1..h # 1..b => Total(Gain, 1..h) < Total(Gain, 1..b)
    BY <1>15, <2>2, TotalOfProper
  <2>6. Total(Gain, 1..h) \in Nat /\ Total(Gain, 1..b) \in Nat /\ Total(Gain, hits) \in Nat
    BY <1>15, <2>3
  <2> QED BY <2>4, <2>5, <2>6
<1>18. m.ndcg[k].num <= m.ndcg[k].den
  BY <1>13, <1>16, <1>17
<1>19. m.ndcg[k].num = m.ndcg[k].den <=> hits = 1..b
  BY <1>13, <1>16, <1>17
<1>20. hits = 1..b <=> n >= b /\ \A r \in 1..b : ids[r] \in expected
  <2>1. ASSUME hits = 1..b PROVE n >= b /\ \A r \in 1..b : ids[r] \in expected
    <3>1. 1..b \subseteq 1..t
      BY <1>7, <2>1
    <3>2. b <= t
      BY <3>1
    <3> QED BY <1>6, <1>7, <2>1, <3>1, <3>2
  <2>2. ASSUME n >= b, \A r \in 1..b : ids[r] \in expected PROVE hits = 1..b
    <3>1. b <= t
      BY <1>4, <1>6, <1>10, <2>2 DEF Least
    <3>2. 1..b \subseteq hits
      BY <1>7, <2>2, <3>1
    <3>3. Cardinality(1..b) = b
      BY FS_Interval
    <3> QED BY <1>7, <1>12, <3>2, <3>3, FS_Subset
  <2> QED BY <2>1, <2>2
<1>21. Least(k, Cardinality(expected)) = b
  BY <1>2, <1>4, <1>10 DEF Least
<1> QED BY <1>1, <1>3, <1>5, <1>8, <1>9, <1>18, <1>19, <1>20, <1>21

-----------------------------------------------------------------------------
(* What the retrieval script has done and what it has left to do.          *)

\* Every trace is in one of three places, and there once.
Accounted(processed, skipped, todo) ==
    /\ processed \in Seq(Results) /\ skipped \in Seq(Nat) /\ todo \in Seq(Nat)
    /\ \A i, j \in DOMAIN processed : processed[i].trace = processed[j].trace => i = j
    /\ \A i, j \in DOMAIN todo : todo[i] = todo[j] => i = j
    /\ TracesOf(processed) \cap ToSet(skipped) = {}
    /\ TracesOf(processed) \cap ToSet(todo) = {}
    /\ ToSet(skipped) \cap ToSet(todo) = {}

AccountInv ==
    /\ retrieval.step = "evaluating" =>
          Accounted(retrieval.processed, retrieval.skipped, retrieval.todo)
    /\ retrievalFile # Unreadable =>
          Accounted(retrievalFile.processed, retrievalFile.skipped, <<>>)

\* The next trace is taken off the list.
LEMMA HeadTaken ==
    ASSUME NEW todo \in Seq(Nat), todo # <<>>,
           \A i, j \in DOMAIN todo : todo[i] = todo[j] => i = j
    PROVE  /\ Head(todo) \in Nat /\ Tail(todo) \in Seq(Nat)
           /\ \A i, j \in DOMAIN Tail(todo) : Tail(todo)[i] = Tail(todo)[j] => i = j
           /\ ToSet(todo) = {Head(todo)} \cup ToSet(Tail(todo))
           /\ Head(todo) \notin ToSet(Tail(todo))
<1>1. PICK n \in Nat : Len(todo) = n + 1 /\ DOMAIN todo = 1..(n + 1)
  <2>1. Len(todo) \in Nat /\ Len(todo) # 0
    OBVIOUS
  <2> QED BY <2>1
<1>2. PICK rest : rest = Tail(todo) /\ rest \in Seq(Nat) /\ Len(rest) = n
  <2>1. Tail(todo) \in Seq(Nat) /\ Len(Tail(todo)) = Len(todo) - 1
    OBVIOUS
  <2>2. Len(Tail(todo)) = n
    BY <1>1, <2>1
  <2> QED BY <2>1, <2>2
<1>3. DOMAIN rest = 1..n /\ \A i \in 1..n : rest[i] = todo[i + 1] /\ i + 1 \in 1..(n + 1)
  BY <1>1, <1>2
<1>4. Head(todo) = todo[1] /\ 1 \in 1..(n + 1)
  BY <1>1
<1>5. \A i, j \in 1..n : rest[i] = rest[j] => i = j
  <2> SUFFICES ASSUME NEW i \in 1..n, NEW j \in 1..n, rest[i] = rest[j] PROVE i = j
    OBVIOUS
  <2>1. i + 1 \in DOMAIN todo /\ j + 1 \in DOMAIN todo /\ todo[i + 1] = todo[j + 1]
    BY <1>1, <1>3
  <2>2. i + 1 = j + 1
    BY <2>1
  <2> QED BY <2>2
<1>6. \A i \in 1..n : rest[i] # todo[1]
  <2> SUFFICES ASSUME NEW i \in 1..n, rest[i] = todo[1] PROVE FALSE
    OBVIOUS
  <2>1. i + 1 \in DOMAIN todo /\ 1 \in DOMAIN todo /\ todo[i + 1] = todo[1]
    BY <1>1, <1>3, <1>4
  <2>2. i + 1 = 1
    BY <2>1
  <2> QED BY <2>2
<1>7. \A i \in 1..(n + 1) : i = 1 \/ (i - 1 \in 1..n /\ rest[i - 1] = todo[i])
  BY <1>3
<1>8. ToSet(todo) = {todo[1]} \cup ToSet(rest)
  <2>1. ASSUME NEW i \in 1..(n + 1) PROVE todo[i] \in {todo[1]} \cup ToSet(rest)
    BY <1>3, <1>7 DEF ToSet
  <2>2. ASSUME NEW i \in 1..n PROVE rest[i] \in ToSet(todo)
    BY <1>1, <1>3 DEF ToSet
  <2>3. ToSet(todo) \subseteq {todo[1]} \cup ToSet(rest)
    BY <1>1, <2>1 DEF ToSet
  <2>4. ToSet(rest) \subseteq ToSet(todo)
    BY <1>3, <2>2 DEF ToSet
  <2>5. todo[1] \in ToSet(todo)
    BY <1>1, <1>4 DEF ToSet
  <2> QED BY <2>3, <2>4, <2>5
<1>9. todo[1] \notin ToSet(rest)
  BY <1>3, <1>6 DEF ToSet
<1> QED BY <1>1, <1>2, <1>3, <1>4, <1>5, <1>8, <1>9

\* A trace is evaluated.
LEMMA AccountedProcessed ==
    ASSUME NEW processed, NEW skipped, NEW todo, Accounted(processed, skipped, todo),
           todo # <<>>, NEW r \in Results, r.trace = Head(todo)
    PROVE  Accounted(Append(processed, r), skipped, Tail(todo))
<1>1. /\ processed \in Seq(Results) /\ skipped \in Seq(Nat) /\ todo \in Seq(Nat)
      /\ \A i, j \in DOMAIN processed : processed[i].trace = processed[j].trace => i = j
      /\ TracesOf(processed) \cap ToSet(skipped) = {}
      /\ TracesOf(processed) \cap ToSet(todo) = {}
      /\ ToSet(skipped) \cap ToSet(todo) = {}
  BY DEF Accounted
<1>2. /\ Tail(todo) \in Seq(Nat)
      /\ \A i, j \in DOMAIN Tail(todo) : Tail(todo)[i] = Tail(todo)[j] => i = j
      /\ ToSet(todo) = {Head(todo)} \cup ToSet(Tail(todo))
      /\ Head(todo) \notin ToSet(Tail(todo))
  BY HeadTaken DEF Accounted
<1>3. PICK m \in Nat : m = Len(processed) /\ DOMAIN processed = 1..m
  BY <1>1
<1>4. PICK all : all = Append(processed, r)
  OBVIOUS
<1>5. /\ all \in Seq(Results) /\ DOMAIN all = 1..(m + 1) /\ all[m + 1] = r
      /\ \A i \in 1..m : all[i] = processed[i]
  BY <1>1, <1>3, <1>4
<1>6. TracesOf(all) = TracesOf(processed) \cup {Head(todo)}
  BY <1>3, <1>5 DEF TracesOf
<1>7. \A i \in 1..m : processed[i].trace # Head(todo)
  BY <1>1, <1>2, <1>3 DEF TracesOf
<1>8. \A i, j \in DOMAIN all : all[i].trace = all[j].trace => i = j
  <2> SUFFICES ASSUME NEW i \in 1..(m + 1), NEW j \in 1..(m + 1), all[i].trace = all[j].trace
               PROVE  i = j
    BY <1>5
  <2>1. (i \in 1..m \/ i = m + 1) /\ (j \in 1..m \/ j = m + 1)
    BY <1>3
  <2> QED BY <1>1, <1>3, <1>5, <1>7, <2>1
<1> QED BY <1>1, <1>2, <1>4, <1>5, <1>6, <1>8 DEF Accounted

\* A trace is skipped.
LEMMA AccountedSkipped ==
    ASSUME NEW processed, NEW skipped, NEW todo, Accounted(processed, skipped, todo),
           todo # <<>>
    PROVE  Accounted(processed, Append(skipped, Head(todo)), Tail(todo))
<1>1. /\ processed \in Seq(Results) /\ skipped \in Seq(Nat) /\ todo \in Seq(Nat)
      /\ \A i, j \in DOMAIN processed : processed[i].trace = processed[j].trace => i = j
      /\ TracesOf(processed) \cap ToSet(skipped) = {}
      /\ TracesOf(processed) \cap ToSet(todo) = {}
      /\ ToSet(skipped) \cap ToSet(todo) = {}
  BY DEF Accounted
<1>2. /\ Head(todo) \in Nat /\ Tail(todo) \in Seq(Nat)
      /\ \A i, j \in DOMAIN Tail(todo) : Tail(todo)[i] = Tail(todo)[j] => i = j
      /\ ToSet(todo) = {Head(todo)} \cup ToSet(Tail(todo))
      /\ Head(todo) \notin ToSet(Tail(todo))
  BY HeadTaken DEF Accounted
<1>3. PICK all : all = Append(skipped, Head(todo))
  OBVIOUS
<1>4. all \in Seq(Nat) /\ ToSet(all) = ToSet(skipped) \cup {Head(todo)}
  <2>1. PICK m \in Nat : m = Len(skipped) /\ DOMAIN skipped = 1..m
    BY <1>1
  <2>2. /\ all \in Seq(Nat) /\ DOMAIN all = 1..(m + 1) /\ all[m + 1] = Head(todo)
        /\ \A i \in 1..m : all[i] = skipped[i]
    BY <1>1, <1>2, <1>3, <2>1
  <2>3. \A i : i \in 1..(m + 1) <=> i \in 1..m \/ i = m + 1
    OBVIOUS
  <2> QED BY <2>1, <2>2, <2>3 DEF ToSet
<1> QED BY <1>1, <1>2, <1>3, <1>4 DEF Accounted

LEMMA InitAccount == Init => AccountInv
BY DEF Init, AccountInv, NoScript

LEMMA AccountStep ==
    ASSUME TruthInv, TruthInv', AccountInv, [Next]_vars
    PROVE  AccountInv'
<1>1. CASE UNCHANGED <<retrieval, retrievalFile>>
  BY <1>1 DEF AccountInv
<1>2. ASSUME NEW ids \in Lists, RetrievalLoad(ids) PROVE AccountInv'
  <2>1. ids \in Seq(Nat)
    BY EvaluationAssumption
  <2>2. PICK todo : todo = Distinct(ids)
    OBVIOUS
  <2>3. /\ todo \in Seq(Nat)
        /\ \A i, j \in DOMAIN todo : todo[i] = todo[j] => i = j
    BY <2>1, <2>2, DistinctFacts, DistinctOnce
  <2>4. /\ retrieval'.step = "evaluating" /\ retrieval'.todo = todo
        /\ retrieval'.processed = <<>> /\ retrieval'.skipped = <<>>
        /\ retrievalFile' = retrievalFile
    BY <1>2, <2>2 DEF RetrievalLoad, files
  <2>5. Accounted(<<>>, <<>>, todo)
    BY <2>3 DEF Accounted, TracesOf, ToSet
  <2> QED BY <2>4, <2>5 DEF AccountInv
<1>3. CASE Evaluate
  <2>1. /\ retrieval.step = "evaluating" /\ retrieval.todo # <<>>
        /\ Head(retrieval.todo) \in Traces /\ Resolved(Head(retrieval.todo)) # {}
        /\ retrievalFile' = retrievalFile
    BY <1>3 DEF Evaluate, files
  <2>2. PICK a, b, c, d, t, res : /\ a = retrieval.processed /\ b = retrieval.skipped
                                  /\ c = retrieval.todo /\ d = Tail(c) /\ t = Head(c)
                                  /\ res = RetrievalResult(t)
    OBVIOUS
  <2>3. res \in Results /\ res.trace = t
    BY <2>1, <2>2, ResolvedIsApproved DEF RetrievalResult
  <2>4. Accounted(a, b, c)
    BY <2>1, <2>2 DEF AccountInv
  <2>5. Accounted(Append(a, res), b, d)
    BY <2>1, <2>2, <2>3, <2>4, AccountedProcessed
  <2>6. PICK all : all = Append(a, res)
    OBVIOUS
  <2>7. retrieval' = [retrieval EXCEPT !.todo = d, !.processed = all]
    BY <1>3, <2>2, <2>6 DEF Evaluate
  <2>8. retrieval'.todo = d /\ retrieval'.processed = all /\ retrieval'.skipped = b
    <3>1. PICK w, x, y, z : retrieval = [step |-> "evaluating", todo |-> c, golden |-> w,
                                         reviews |-> x, processed |-> a, skipped |-> b]
      BY <2>1, <2>2 DEF TruthInv, RetrievalInv
    <3> QED BY ONLY <2>7, <3>1
  <2> QED BY <2>1, <2>5, <2>6, <2>8 DEF AccountInv
<1>4. CASE Skip
  <2>1. /\ retrieval.step = "evaluating" /\ retrieval.todo # <<>>
        /\ retrievalFile' = retrievalFile
    BY <1>4 DEF Skip, files
  <2>2. PICK a, b, c, d, t : /\ a = retrieval.processed /\ b = retrieval.skipped
                             /\ c = retrieval.todo /\ d = Tail(c) /\ t = Head(c)
    OBVIOUS
  <2>3. Accounted(a, b, c)
    BY <2>1, <2>2 DEF AccountInv
  <2>4. PICK all : all = Append(b, t)
    OBVIOUS
  <2>5. Accounted(a, all, d)
    BY <2>1, <2>2, <2>3, <2>4, AccountedSkipped
  <2>6. retrieval' = [retrieval EXCEPT !.todo = d, !.skipped = all]
    BY <1>4, <2>2, <2>4 DEF Skip
  <2>7. retrieval'.todo = d /\ retrieval'.processed = a /\ retrieval'.skipped = all
    <3>1. PICK w, x, y, z : retrieval = [step |-> "evaluating", todo |-> c, golden |-> w,
                                         reviews |-> x, processed |-> a, skipped |-> b]
      BY <2>1, <2>2 DEF TruthInv, RetrievalInv
    <3> QED BY ONLY <2>6, <3>1
  <2> QED BY <2>1, <2>5, <2>7 DEF AccountInv
<1>5. CASE RetrievalSave
  <2>1. /\ retrieval.step = "evaluating" /\ retrieval.todo = <<>>
        /\ retrievalFile'.processed = retrieval.processed
        /\ retrievalFile'.skipped = retrieval.skipped
        /\ retrieval'.step = "done"
    BY <1>5 DEF RetrievalSave
  <2> QED BY <2>1 DEF AccountInv
<1>6. ASSUME NEW g \in Requests, NEW ids \in Lists, NEW fetched \in SUBSET Traces,
             Generate(g, ids, fetched)
      PROVE  UNCHANGED <<retrieval, retrievalFile>>
  BY <1>6 DEF Generate, scripts
<1>7. ASSUME NEW g \in Requests, RequestStepOf(g) PROVE UNCHANGED <<retrieval, retrievalFile>>
  BY <1>7 DEF RequestStepOf, GoldenWritten, Identify, IdentifyFails, CandidatesWritten, scripts,
              files
<1>8. CASE Crash
  BY <1>1, <1>8 DEF Crash, files, scripts
<1>9. ASSUME NEW i \in 1..Cardinality(Traces), NEW sources \in Reviews, Approve(i, sources)
      PROVE  UNCHANGED <<retrieval, retrievalFile>>
  BY <1>9 DEF Approve, scripts
<1>10. ASSUME NEW t \in Traces, NEW sources \in Reviews, ReviewTrace(t, sources)
       PROVE  UNCHANGED <<retrieval, retrievalFile>>
  BY <1>10 DEF ReviewTrace, scripts
<1>11. ASSUME NEW ids \in Lists, JudgeLoad(ids) PROVE UNCHANGED <<retrieval, retrievalFile>>
  BY <1>11 DEF JudgeLoad, files
<1>12. CASE JudgeStep
  <2>1. UNCHANGED <<retrieval, retrievalFile>>
    BY <1>12 DEF JudgeStep, JudgeTrace, JudgeRaises, JudgeSave, files
  <2> QED BY <1>1, <2>1
<1>13. CASE PublishLoad \/ PublishStep
  <2>1. UNCHANGED <<retrieval, retrievalFile>>
    BY <1>13 DEF PublishLoad, PublishStep, PublishRetrieval, PublishJudge, PublishHalf, PublishEnd,
                 files
  <2> QED BY <1>1, <2>1
<1>14. CASE UNCHANGED vars
  BY <1>1, <1>14 DEF vars, files, scripts
<1> QED
  BY <1>1, <1>2, <1>3, <1>4, <1>5, <1>6, <1>7, <1>8, <1>9, <1>10, <1>11, <1>12, <1>13, <1>14
  DEF Next, RetrievalStep

\* The metrics of a result, and the order of what it retrieved.
LEMMA ResultFits ==
    ASSUME NEW r \in Results
    PROVE  LET docs == Documents[r.trace]
               FirstAt(c) == Min({j \in DOMAIN docs : docs[j] = c})
           IN  /\ Coherent(r.expected, r.metrics)
               /\ ToSet(r.metrics.retrieved) = ToSet(docs) \ {None}
               /\ \A j, k \in DOMAIN r.metrics.retrieved :
                     j < k => FirstAt(r.metrics.retrieved[j]) < FirstAt(r.metrics.retrieved[k])
<1>1. PICK t \in Traces, e \in SUBSET Chunks :
         r = [trace |-> t, expected |-> e, metrics |-> Metrics(e, Retrieved(t))]
  BY DEF Results
<1>2. PICK docs : docs = Documents[t] /\ docs \in Seq(Chunks \cup {None})
  BY EvaluationAssumption
<1>3. PICK ids : ids = Distinct(docs)
  OBVIOUS
<1>4. /\ ids \in Seq(Chunks \cup {None}) /\ ToSet(ids) = ToSet(docs) \ {None}
      /\ Once(ids, docs)
  BY <1>2, <1>3, DistinctFacts
<1>5. PICK all : all = Distinct(ids)
  OBVIOUS
<1>6. /\ all \in Seq(Chunks \cup {None}) /\ ToSet(all) = ToSet(ids) \ {None}
      /\ Once(all, ids) /\ \A a, b \in DOMAIN all : all[a] = all[b] => a = b
  BY <1>4, <1>5, DistinctFacts, DistinctOnce
<1>7. PICK m : m = Metrics(e, Retrieved(t))
  OBVIOUS
<1>8. /\ m.retrieved = all
      /\ m.recall = [k \in Ks |-> Recall(e, all, k)]
      /\ m.precision = [k \in Ks |-> Precision(e, all, k)]
      /\ m.rank = FirstRelevant(e, all)
      /\ m.ndcg = [k \in Ks |-> Ndcg(e, all, k)]
  BY <1>2, <1>3, <1>5, <1>7 DEF Metrics, Retrieved
<1>9. IsFiniteSet(e)
  BY EvaluationAssumption, FS_Subset
<1>10. Coherent(e, m)
  BY <1>6, <1>8, <1>9, MetricsFit
<1> DEFINE FirstAt(c) == Min({j \in DOMAIN docs : docs[j] = c})
<1>11. ASSUME NEW j \in DOMAIN all, NEW k \in DOMAIN all, j < k
       PROVE  FirstAt(all[j]) < FirstAt(all[k])
  <2>1. PICK p \in DOMAIN ids : ids[p] = all[j] /\ \A q \in DOMAIN ids : ids[q] = all[k] => p < q
    BY <1>6, <1>11 DEF Once
  <2>2. PICK q \in DOMAIN ids : ids[q] = all[k]
    BY <1>6 DEF ToSet
  <2>3. PICK u \in DOMAIN docs : docs[u] = ids[p] /\ \A v \in DOMAIN docs : docs[v] = ids[q] => u < v
    BY <1>4, <2>1, <2>2 DEF Once
  <2>4. DOMAIN docs \in SUBSET Nat
    BY <1>2
  <2>5. PICK A, B : A = {i \in DOMAIN docs : docs[i] = all[j]} /\ B = {i \in DOMAIN docs : docs[i] = all[k]}
    OBVIOUS
  <2>6. A \in SUBSET Nat /\ u \in A /\ B \in SUBSET Nat /\ \A v \in B : u < v
    BY <2>1, <2>2, <2>3, <2>4, <2>5
  <2>7. B # {}
    <3>1. ids[q] \in ToSet(docs)
      BY <1>4, <2>2 DEF ToSet
    <3> QED BY <2>2, <2>5, <3>1 DEF ToSet
  <2>8. Min(A) \in A /\ Min(A) <= u /\ Min(B) \in B
    BY <2>6, <2>7, MinOf
  <2>9. Min(A) < Min(B)
    <3>1. PICK x, y : x = Min(A) /\ y = Min(B)
      OBVIOUS
    <3>2. x \in Nat /\ u \in Nat /\ y \in Nat /\ x <= u /\ u < y
      BY <2>6, <2>8, <3>1
    <3>3. x < y
      BY ONLY <3>2
    <3> QED BY <3>1, <3>3
  <2> QED BY <2>5, <2>9
<1>12. ToSet(all) = ToSet(docs) \ {None}
  BY <1>4, <1>6
<1> HIDE DEF FirstAt
<1>13. r.trace = t /\ r.expected = e /\ r.metrics = m
  BY <1>1, <1>7
<1> QED BY <1>2, <1>8, <1>10, <1>11, <1>12, <1>13 DEF FirstAt

\* As many results as traces.
LEMMA ResultsCounted ==
    ASSUME NEW results \in Seq(Results),
           \A i, j \in DOMAIN results : results[i].trace = results[j].trace => i = j
    PROVE  Len(results) = Cardinality(TracesOf(results))
<1>1. PICK n \in Nat : n = Len(results) /\ DOMAIN results = 1..n
  OBVIOUS
<1>2. PICK f : f = [i \in 1..n |-> results[i].trace]
  OBVIOUS
<1>3. PICK T : T = TracesOf(results)
  OBVIOUS
<1>4. f \in [1..n -> T] /\ \A i \in 1..n : f[i] = results[i].trace
  BY <1>1, <1>2, <1>3 DEF TracesOf
<1>5. f \in Surjection(1..n, T)
  <2>1. \A t \in T : \E i \in 1..n : f[i] = t
    BY <1>1, <1>3, <1>4 DEF TracesOf
  <2> QED BY <1>4, <2>1 DEF Surjection
<1>6. f \in Injection(1..n, T)
  BY <1>1, <1>4 DEF Injection, IsInjective
<1>7. IsFiniteSet(1..n) /\ Cardinality(1..n) = n
  BY FS_Interval
<1>8. Cardinality(T) = Cardinality(1..n)
  BY <1>5, <1>6, <1>7, FS_Surjection
<1> QED BY <1>1, <1>3, <1>7, <1>8

LEMMA AccountSuffices == TruthInv /\ AccountInv => MetricsCoherent
<1> SUFFICES ASSUME TruthInv, AccountInv, retrievalFile # Unreadable
             PROVE  /\ TracesOf(retrievalFile.processed) \cap ToSet(retrievalFile.skipped) = {}
                    /\ Len(retrievalFile.processed) = Cardinality(TracesOf(retrievalFile.processed))
                    /\ \A i \in DOMAIN retrievalFile.processed :
                          LET r == retrievalFile.processed[i]
                              docs == Documents[r.trace]
                              FirstAt(c) == Min({j \in DOMAIN docs : docs[j] = c})
                          IN  /\ Coherent(r.expected, r.metrics)
                              /\ ToSet(r.metrics.retrieved) = ToSet(docs) \ {None}
                              /\ \A j, k \in DOMAIN r.metrics.retrieved :
                                    j < k => FirstAt(r.metrics.retrieved[j])
                                                < FirstAt(r.metrics.retrieved[k])
  BY DEF MetricsCoherent
<1>1. Accounted(retrievalFile.processed, retrievalFile.skipped, <<>>)
  BY DEF AccountInv
<1>2. \A i \in DOMAIN retrievalFile.processed : retrievalFile.processed[i] \in Results
  BY <1>1 DEF Accounted
<1>3. /\ TracesOf(retrievalFile.processed) \cap ToSet(retrievalFile.skipped) = {}
      /\ Len(retrievalFile.processed) = Cardinality(TracesOf(retrievalFile.processed))
  BY <1>1, ResultsCounted DEF Accounted
<1> QED BY <1>2, <1>3, ResultFits

\* A saved retrieval evaluation accounts for every trace once; recall, precision, reciprocal
\* rank and NDCG of each trace fit together, and NDCG is 1 exactly for a perfect ranking
\* (retrieval_metrics.py), for any documents, expectations, cut-offs and discounts.
THEOREM MetricsFitTogether == Spec => []MetricsCoherent
<1>1. Init => TruthInv /\ AccountInv
  BY InitTruth, InitAccount
<1>2. TruthInv /\ AccountInv /\ [Next]_vars => TruthInv' /\ AccountInv'
  BY StepKeeps, AccountStep
<1>3. TruthInv /\ AccountInv => MetricsCoherent
  BY AccountSuffices
<1> QED BY <1>1, <1>2, <1>3, PTL DEF Spec

-----------------------------------------------------------------------------
(* The candidates for the reviewer.                                        *)

\* An example is of a trace, or of none.
Ids == Nat \cup {None}
Generated == {Example(t) : t \in Ids}

\* The identifier has gone through the first examples.
Identified(p, examples) ==
    /\ examples \in Seq(Generated) /\ p \in Seq(Ids) /\ Len(p) <= Len(examples)
    /\ \A i \in 1..Len(p) : p[i] = examples[i].trace

\* The examples are those of the dataset, whatever the reviewer has filled in.
SameTraces(examples, dataset) ==
    /\ DOMAIN dataset = DOMAIN examples
    /\ \A i \in DOMAIN examples : dataset[i].trace = examples[i].trace

\* Requests that do not overlap come one at a time, so that the dataset is that of the
\* request that is looking for candidates.
FollowInv ==
    /\ \A g \in Requests : Under(g) => Identified(request[g].identified, request[g].examples)
    /\ ~overlapped =>
          /\ \A g, h \in Requests : Under(g) /\ Under(h) => g = h
          /\ \A g \in Requests : request[g].step = "identifying" =>
                SameTraces(request[g].examples, golden)
    /\ CandidatesFollowGolden

LEMMA InitFollow == Init => FollowInv
BY DEF Init, FollowInv, Under, CandidatesFollowGolden

\* A request starts with none of its examples identified.
LEMMA GeneratedIdentified ==
    ASSUME NEW ids \in Lists, NEW fetched
    PROVE  Identified(<<>>, Examples(ids, fetched))
<1> DEFINE found == [i \in DOMAIN ids |-> IF ids[i] \in fetched THEN ids[i] ELSE None]
<1>1. found \in Seq(Nat \cup {None})
  BY EvaluationAssumption
<1>2. PICK kept \in Seq(Nat \cup {None}) : kept = Distinct(found)
  BY <1>1, DistinctFacts
<1>3. Examples(ids, fetched) = [i \in DOMAIN kept |-> Example(kept[i])]
  BY <1>2 DEF Examples
<1>4. Examples(ids, fetched) \in Seq(Generated)
  BY <1>3 DEF Generated, Ids
<1> QED BY <1>4 DEF Identified

LEMMA GenerateFollows ==
    ASSUME TruthInv, FollowInv, NEW g \in Requests, NEW ids \in Lists, NEW fetched,
           Generate(g, ids, fetched)
    PROVE  FollowInv'
<1>1. /\ request' = [request EXCEPT ![g] = [step |-> "writing", examples |-> Examples(ids, fetched),
                                            identified |-> <<>>]]
      /\ golden' = Unreadable
      /\ overlapped' = (overlapped \/ \E h \in Requests : Under(h))
      /\ EventLoopFree
  BY DEF Generate
<1>2. /\ request'[g].step = "writing" /\ request'[g].identified = <<>>
      /\ request'[g].examples = Examples(ids, fetched)
      /\ \A h \in Requests : h # g => request'[h] = request[h]
  BY <1>1 DEF TruthInv, RequestInv
<1>3. Identified(<<>>, Examples(ids, fetched))
  BY GeneratedIdentified
<1>4. \A h \in Requests : h # g => (Under(h)' <=> Under(h))
  BY <1>2 DEF Under
<1>5. \A h \in Requests : Under(h)' => Identified(request'[h].identified, request'[h].examples)
  BY <1>2, <1>3, <1>4 DEF FollowInv
<1>6. ~overlapped' => \A h \in Requests : Under(h)' => h = g
  BY <1>1, <1>4
<1>7. ~overlapped' => \A h \in Requests : request'[h].step # "identifying"
  BY <1>2, <1>6 DEF Under
<1>8. CandidatesFollowGolden'
  BY <1>2 DEF CandidatesFollowGolden
<1> QED BY <1>5, <1>6, <1>7, <1>8 DEF FollowInv

LEMMA WrittenFollows ==
    ASSUME TruthInv, FollowInv, NEW g \in Requests, GoldenWritten(g)
    PROVE  FollowInv'
<1>1. /\ request[g].step = "writing" /\ golden' = request[g].examples
      /\ request' = [request EXCEPT ![g].step = "identifying"]
      /\ overlapped' = overlapped
  BY DEF GoldenWritten, RequestStep, history
<1>2. /\ request'[g].step = "identifying" /\ request'[g].identified = request[g].identified
      /\ request'[g].examples = request[g].examples
      /\ \A h \in Requests : h # g => request'[h] = request[h]
  BY <1>1 DEF TruthInv, RequestInv
<1>3. \A h \in Requests : Under(h)' <=> Under(h)
  BY <1>1, <1>2 DEF Under
<1>4. \A h \in Requests : Under(h)' => Identified(request'[h].identified, request'[h].examples)
  BY <1>2, <1>3 DEF FollowInv
<1>5. ~overlapped' => \A h, k \in Requests : Under(h)' /\ Under(k)' => h = k
  BY <1>1, <1>3 DEF FollowInv
<1>7. ~overlapped' => \A h \in Requests : request'[h].step = "identifying" =>
                         SameTraces(request'[h].examples, golden')
  BY <1>1, <1>2, <1>5 DEF Under, SameTraces
<1>8. CandidatesFollowGolden'
  BY <1>2 DEF CandidatesFollowGolden
<1> QED BY <1>4, <1>5, <1>7, <1>8 DEF FollowInv

LEMMA IdentifyFollows ==
    ASSUME TruthInv, FollowInv, NEW g \in Requests, Identify(g)
    PROVE  FollowInv'
<1>1. PICK p, e, x : /\ p = request[g].identified /\ e = request[g].examples
                     /\ x = Append(p, Head(Unidentified(g)).trace)
  OBVIOUS
<1>2. /\ request[g].step = "identifying" /\ Unidentified(g) # <<>>
      /\ request' = [request EXCEPT ![g].identified = x]
      /\ overlapped' = overlapped /\ golden' = golden /\ candidates' = candidates
  BY <1>1 DEF Identify, history, files
<1>3. /\ request'[g].step = "identifying" /\ request'[g].identified = x
      /\ request'[g].examples = e
      /\ \A h \in Requests : h # g => request'[h] = request[h]
  BY <1>1, <1>2 DEF TruthInv, RequestInv
<1>4. Identified(p, e)
  BY <1>1, <1>2 DEF FollowInv, Under
<1>5. Identified(x, e)
  <2>1. Unidentified(g) = SubSeq(e, Len(p) + 1, Len(e))
    BY <1>1 DEF Unidentified
  <2>2. Len(p) < Len(e)
    BY <1>2, <1>4, <2>1 DEF Identified
  <2>3. Head(Unidentified(g)) = e[Len(p) + 1]
    BY <1>4, <2>1, <2>2 DEF Identified
  <2>4. PICK t \in Ids : e[Len(p) + 1] = Example(t)
    BY <1>4, <2>2 DEF Identified, Generated
  <2>5. x = Append(p, t) /\ e[Len(p) + 1].trace = t
    BY <1>1, <2>3, <2>4 DEF Example
  <2> QED BY <1>4, <2>2, <2>5 DEF Identified
<1>6. \A h \in Requests : Under(h)' <=> Under(h)
  BY <1>2, <1>3 DEF Under
<1>7. \A h \in Requests : Under(h)' => Identified(request'[h].identified, request'[h].examples)
  BY <1>3, <1>5, <1>6 DEF FollowInv
<1>8. ~overlapped' => \A h, k \in Requests : Under(h)' /\ Under(k)' => h = k
  BY <1>2, <1>6 DEF FollowInv
<1>9. ~overlapped' => \A h \in Requests : request'[h].step = "identifying" =>
                         SameTraces(request'[h].examples, golden')
  BY <1>1, <1>2, <1>3 DEF FollowInv
<1>10. CandidatesFollowGolden'
  BY <1>3 DEF CandidatesFollowGolden
<1> QED BY <1>7, <1>8, <1>9, <1>10 DEF FollowInv

LEMMA DoneFollows ==
    ASSUME TruthInv, FollowInv, NEW g \in Requests, CandidatesWritten(g)
    PROVE  FollowInv'
<1>1. PICK p, e : p = request[g].identified /\ e = request[g].examples
  OBVIOUS
<1>2. /\ request[g].step = "identifying" /\ Unidentified(g) = <<>>
      /\ candidates' = p
      /\ request' = [request EXCEPT ![g].step = "done"]
      /\ overlapped' = overlapped /\ golden' = golden
  BY <1>1 DEF CandidatesWritten, RequestStep, history
<1>3. /\ request'[g].step = "done"
      /\ \A h \in Requests : h # g => request'[h] = request[h]
  BY <1>2 DEF TruthInv, RequestInv
<1>4. \A h \in Requests : Under(h)' => Under(h) /\ h # g
  BY <1>3 DEF Under
<1>5. Identified(p, e)
  BY <1>1, <1>2 DEF FollowInv, Under
<1>6. Len(p) = Len(e)
  <2>1. SubSeq(e, Len(p) + 1, Len(e)) = <<>>
    BY <1>1, <1>2 DEF Unidentified
  <2>2. Len(p) < Len(e) => Len(SubSeq(e, Len(p) + 1, Len(e))) = Len(e) - Len(p)
    BY <1>5 DEF Identified
  <2>3. Len(p) <= Len(e) /\ Len(p) \in Nat /\ Len(e) \in Nat
    BY <1>5 DEF Identified
  <2>4. ~(Len(p) < Len(e))
    BY <2>1, <2>2, <2>3
  <2> QED BY <2>3, <2>4
<1>7. \A h \in Requests : Under(h)' => Identified(request'[h].identified, request'[h].examples)
  BY <1>3, <1>4 DEF FollowInv
<1>8. ~overlapped' => \A h, k \in Requests : Under(h)' /\ Under(k)' => h = k
  BY <1>2, <1>4 DEF FollowInv
<1>9. ~overlapped' => \A h \in Requests : request'[h].step = "identifying" =>
                         SameTraces(request'[h].examples, golden')
  BY <1>2, <1>3 DEF FollowInv
<1>10. CandidatesFollowGolden'
  <2>1. SUFFICES ASSUME ~overlapped PROVE candidates' = [i \in DOMAIN golden |-> golden[i].trace]
    BY <1>2 DEF CandidatesFollowGolden
  <2>2. SameTraces(e, golden)
    BY <1>1, <1>2, <2>1 DEF FollowInv
  <2>3. p = [i \in 1..Len(p) |-> p[i]] /\ DOMAIN e = 1..Len(e)
    BY <1>5 DEF Identified
  <2> QED BY <1>2, <1>5, <1>6, <2>2, <2>3 DEF Identified, SameTraces
<1> QED BY <1>7, <1>8, <1>9, <1>10 DEF FollowInv

\* A request that ends without candidates leaves no two files to compare.
LEMMA EndFollows ==
    ASSUME TruthInv, FollowInv, (\E g \in Requests : IdentifyFails(g)) \/ Crash
    PROVE  FollowInv'
<1>1. /\ overlapped' = overlapped /\ golden' = golden
      /\ \A h \in Requests : request'[h] = request[h] \/ request'[h].step \in {"failed", "lost"}
      /\ \E h \in Requests : request'[h].step \in {"failed", "lost"}
  <2>1. ASSUME NEW g \in Requests, IdentifyFails(g)
        PROVE  /\ \A h \in Requests : request'[h] = request[h] \/ request'[h].step = "failed"
               /\ request'[g].step = "failed"
               /\ overlapped' = overlapped /\ golden' = golden
    BY <2>1 DEF IdentifyFails, RequestStep, files, history, TruthInv, RequestInv
  <2>2. CASE Crash
    <3>1. PICK g \in Requests : Under(g)
      BY <2>2 DEF Crash
    <3>2. \A h \in Requests : request[h] = [step |-> request[h].step, examples |-> request[h].examples,
                                            identified |-> request[h].identified]
      BY DEF TruthInv, RequestInv
    <3>3. \A h \in Requests : IF Under(h) THEN request'[h] = [request[h] EXCEPT !.step = "lost"]
                                          ELSE request'[h] = request[h]
      BY <2>2 DEF Crash
    <3>4. \A h \in Requests : Under(h) => request'[h].step = "lost"
      BY <3>2, <3>3
    <3>5. overlapped' = overlapped /\ golden' = golden
      BY <2>2 DEF Crash, files, history
    <3> QED BY <3>1, <3>3, <3>4, <3>5
  <2> QED BY <2>1, <2>2
<1>2. \A h \in Requests : Under(h)' => Under(h) /\ request'[h] = request[h]
  BY <1>1 DEF Under
<1>3. \A h \in Requests : Under(h)' => Identified(request'[h].identified, request'[h].examples)
  BY <1>2 DEF FollowInv
<1>4. ~overlapped' => \A h, k \in Requests : Under(h)' /\ Under(k)' => h = k
  BY <1>1, <1>2 DEF FollowInv
<1>5. ~overlapped' => \A h \in Requests : request'[h].step = "identifying" =>
                         SameTraces(request'[h].examples, golden')
  BY <1>1, <1>2 DEF FollowInv
<1>6. CandidatesFollowGolden'
  BY <1>1 DEF CandidatesFollowGolden
<1> QED BY <1>3, <1>4, <1>5, <1>6 DEF FollowInv

\* An edit of the reviewer leaves the traces of the dataset as they are.
LEMMA ApproveFollows ==
    ASSUME FollowInv, NEW i, NEW sources, Approve(i, sources)
    PROVE  FollowInv'
<1>1. PICK t, e : t = golden[i].trace /\ e = [trace |-> t, sources |-> sources, answer |-> Reviewed]
  OBVIOUS
<1>2. /\ golden # Unreadable /\ golden' = [golden EXCEPT ![i] = e]
      /\ UNCHANGED <<request, overlapped, candidates>>
  BY <1>1 DEF Approve
<1>3. DOMAIN golden' = DOMAIN golden /\ \A j \in DOMAIN golden : golden'[j].trace = golden[j].trace
  BY <1>1, <1>2
<1>4. \A g \in Requests : Under(g)' <=> Under(g)
  BY <1>2 DEF Under
<1>5. ~overlapped' => \A h \in Requests : request'[h].step = "identifying" =>
                         SameTraces(request'[h].examples, golden')
  BY <1>2, <1>3 DEF FollowInv, SameTraces
<1>6. CandidatesFollowGolden'
  BY <1>2, <1>3 DEF FollowInv, CandidatesFollowGolden
<1> QED BY <1>2, <1>4, <1>5, <1>6 DEF FollowInv

LEMMA FollowStep ==
    ASSUME TruthInv, TruthInv', FollowInv, [Next]_vars
    PROVE  FollowInv'
<1>1. CASE UNCHANGED <<request, golden, candidates, overlapped>>
  BY <1>1 DEF FollowInv, Under, CandidatesFollowGolden
<1>2. ASSUME NEW g \in Requests, RequestStepOf(g) PROVE FollowInv'
  BY <1>2, WrittenFollows, IdentifyFollows, EndFollows, DoneFollows DEF RequestStepOf
<1>3. ASSUME NEW t \in Traces, NEW sources \in Reviews, ReviewTrace(t, sources) PROVE FollowInv'
  <2>1. UNCHANGED <<request, golden, candidates, overlapped>>
    BY <1>3 DEF ReviewTrace
  <2> QED BY <1>1, <2>1
<1>4. ASSUME NEW ids \in Lists, RetrievalLoad(ids) \/ JudgeLoad(ids) PROVE FollowInv'
  <2>1. UNCHANGED <<request, golden, candidates, overlapped>>
    BY <1>4 DEF RetrievalLoad, JudgeLoad, files, history
  <2> QED BY <1>1, <2>1
<1>5. CASE RetrievalStep
  <2>1. UNCHANGED <<request, golden, candidates, overlapped>>
    BY <1>5 DEF RetrievalStep, Evaluate, Skip, RetrievalSave, files, history
  <2> QED BY <1>1, <2>1
<1>6. CASE JudgeStep
  <2>1. UNCHANGED <<request, golden, candidates, overlapped>>
    BY <1>6 DEF JudgeStep, JudgeTrace, JudgeRaises, JudgeSave, files, history
  <2> QED BY <1>1, <2>1
<1>7. CASE PublishLoad \/ PublishStep
  <2>1. UNCHANGED <<request, golden, candidates, overlapped>>
    BY <1>7 DEF PublishLoad, PublishStep, PublishRetrieval, PublishJudge, PublishHalf, PublishEnd,
                files, history
  <2> QED BY <1>1, <2>1
<1>8. CASE UNCHANGED vars
  BY <1>1, <1>8 DEF vars, files, history
<1> QED
  BY <1>1, <1>2, <1>3, <1>4, <1>5, <1>6, <1>7, <1>8, GenerateFollows, EndFollows, ApproveFollows
  DEF Next

\* When no request failed on the way or overlapped with another one, the candidates that the
\* reviewer is shown are those of the examples in the dataset (golden_dataset_file_service.py),
\* for any number of requests and whatever the reviewer edits meanwhile.
THEOREM CandidatesFollow == Spec => []CandidatesFollowGolden
<1>1. Init => TruthInv /\ FollowInv
  BY InitTruth, InitFollow
<1>2. TruthInv /\ FollowInv /\ [Next]_vars => TruthInv' /\ FollowInv'
  BY StepKeeps, FollowStep
<1>3. FollowInv => CandidatesFollowGolden
  BY DEF FollowInv
<1> QED BY <1>1, <1>2, <1>3, PTL DEF Spec

-----------------------------------------------------------------------------
(* The scores.                                                             *)

\* There are cut-offs in ascending order.
LEMMA AscendingExists ==
    /\ Ascending \in [1..Cardinality(Ks) -> Ks] /\ Cardinality(Ks) \in Nat
    /\ \A i, j \in 1..Cardinality(Ks) : Ascending[i] = Ascending[j] => i = j
<1> DEFINE Up(f) == \A i, j \in DOMAIN f : i < j => f[i] < f[j]
           R == {p \in Ks \X Ks : p[1] < p[2]}
<1>1. Ks \subseteq Nat /\ IsFiniteSet(Ks)
  BY MetricsAssumption
<1>2. PICK r : r = R
  OBVIOUS
<1>3. /\ \A x, y \in Ks : x # y => <<x, y>> \in r \/ <<y, x>> \in r
      /\ \A x, y, z \in Ks : <<x, y>> \in r /\ <<y, z>> \in r => <<x, z>> \in r
  BY <1>1, <1>2
<1>4. PICK f : Orders(f, Cardinality(Ks), Ks, r)
  BY <1>1, <1>3, OrderExists
<1>5. f \in [1..Cardinality(Ks) -> Ks] /\ Up(f)
  BY <1>2, <1>4 DEF Orders
<1>6. Ascending \in [1..Cardinality(Ks) -> Ks] /\ Up(Ascending)
  BY <1>5 DEF Ascending
<1>7. PICK n \in Nat : n = Cardinality(Ks)
  BY <1>1, FS_CardinalityType
<1>8. \A i, j \in 1..n : i < j => Ascending[i] < Ascending[j]
  BY <1>6, <1>7
<1>9. \A i \in 1..n : Ascending[i] \in Nat
  BY <1>1, <1>6, <1>7
<1> QED BY <1>6, <1>7, <1>8, <1>9

\* A list of scores of one trace, none of them twice.
ScoreList(a, t, names) ==
    /\ a \in Seq(ToSet(a))
    /\ \A i, j \in DOMAIN a : a[i] = a[j] => i = j
    /\ \A x \in ToSet(a) : x.trace = t /\ x.name[1] \in names

LEMMA ListsJoined ==
    ASSUME NEW t, NEW X, NEW Y, NEW a, NEW b, ScoreList(a, t, X), ScoreList(b, t, Y), X \cap Y = {}
    PROVE  ScoreList(a \o b, t, X \cup Y)
<1>1. PICK S : S = ToSet(a) \cup ToSet(b)
  OBVIOUS
<1>2. a \in Seq(S) /\ b \in Seq(S)
  BY <1>1 DEF ScoreList
<1>3. PICK m \in Nat, n \in Nat : m = Len(a) /\ n = Len(b)
  BY <1>2
<1>4. PICK c : c = a \o b
  OBVIOUS
<1>5. /\ c \in Seq(S) /\ DOMAIN c = 1..(m + n) /\ DOMAIN a = 1..m /\ DOMAIN b = 1..n
      /\ \A i \in 1..m : c[i] = a[i]
      /\ \A i \in 1..n : c[m + i] = b[i]
  BY <1>2, <1>3, <1>4
<1>6. \A i \in 1..(m + n) : i \in 1..m \/ (i - m \in 1..n /\ c[i] = b[i - m])
  <2> TAKE i \in 1..(m + n)
  <2>1. i \in 1..m \/ (i - m \in 1..n /\ i = m + (i - m))
    OBVIOUS
  <2> QED BY <1>5, <2>1
<1>7. \A i \in 1..m, j \in 1..n : a[i] # b[j]
  <2> TAKE i \in 1..m, j \in 1..n
  <2>1. a[i].name[1] \in X /\ b[j].name[1] \in Y
    BY <1>5 DEF ScoreList, ToSet
  <2> QED BY <2>1
<1>8. \A i, j \in DOMAIN c : c[i] = c[j] => i = j
  <2> SUFFICES ASSUME NEW i \in 1..(m + n), NEW j \in 1..(m + n), c[i] = c[j] PROVE i = j
    BY <1>5
  <2>1. CASE i \in 1..m /\ j \in 1..m
    BY <1>5, <2>1 DEF ScoreList
  <2>2. CASE i - m \in 1..n /\ j - m \in 1..n /\ c[i] = b[i - m] /\ c[j] = b[j - m]
    <3>1. i - m = j - m
      BY <1>5, <2>2 DEF ScoreList
    <3> QED BY <3>1
  <2> QED BY <1>5, <1>6, <1>7, <2>1, <2>2
<1>9. \A x \in ToSet(c) : x \in S
  BY <1>5 DEF ToSet
<1>10. c \in Seq(ToSet(c))
  BY <1>5 DEF ToSet
<1>11. \A x \in S : x.trace = t /\ x.name[1] \in X \cup Y
  BY <1>1 DEF ScoreList
<1> QED BY <1>8, <1>9, <1>10, <1>11, <1>4 DEF ScoreList

LEMMA AtKsListed ==
    ASSUME NEW t, NEW name, NEW values
    PROVE  ScoreList(AtKs(t, name, values), t, {name})
<1>1. PICK n \in Nat : n = Cardinality(Ks)
  BY AscendingExists
<1>2. PICK a : a = AtKs(t, name, values)
  OBVIOUS
<1>3. DOMAIN Ascending = 1..n /\ \A i, j \in 1..n : Ascending[i] = Ascending[j] => i = j
  BY <1>1, AscendingExists
<1>4. a = [i \in 1..n |-> Score(t, name, Ascending[i], values[Ascending[i]].num,
                                values[Ascending[i]].den)]
  BY <1>2, <1>3 DEF AtKs
<1>5. \A i \in 1..n : a[i].trace = t /\ a[i].name = <<name, Ascending[i]>>
  BY <1>4 DEF Score
<1>6. a \in Seq(ToSet(a)) /\ DOMAIN a = 1..n
  BY <1>4 DEF ToSet
<1>7. \A i, j \in 1..n : a[i] = a[j] => i = j
  BY <1>3, <1>5
<1>8. \A x \in ToSet(a) : x.trace = t /\ x.name[1] \in {name}
  BY <1>5, <1>6 DEF ToSet
<1> QED BY <1>2, <1>6, <1>7, <1>8 DEF ScoreList

LEMMA RetrievalListed ==
    ASSUME NEW r
    PROVE  ScoreList(RetrievalScores(r), r.trace, {"recall", "precision", "mrr", "ndcg"})
<1>1. PICK a, b, c, d : /\ a = AtKs(r.trace, "recall", r.metrics.recall)
                        /\ b = AtKs(r.trace, "precision", r.metrics.precision)
                        /\ c = <<Score(r.trace, "mrr", 0, Least(1, r.metrics.rank), r.metrics.rank)>>
                        /\ d = AtKs(r.trace, "ndcg", r.metrics.ndcg)
  OBVIOUS
<1>2. /\ ScoreList(a, r.trace, {"recall"}) /\ ScoreList(b, r.trace, {"precision"})
      /\ ScoreList(d, r.trace, {"ndcg"})
  BY <1>1, AtKsListed
<1>3. ScoreList(c, r.trace, {"mrr"})
  BY <1>1 DEF ScoreList, ToSet, Score
<1>4. ScoreList(a \o b, r.trace, {"recall"} \cup {"precision"})
  BY <1>2, ListsJoined
<1>5. ScoreList((a \o b) \o c, r.trace, ({"recall"} \cup {"precision"}) \cup {"mrr"})
  BY <1>3, <1>4, ListsJoined
<1>6. ScoreList(((a \o b) \o c) \o d, r.trace, (({"recall"} \cup {"precision"}) \cup {"mrr"}) \cup {"ndcg"})
  BY <1>2, <1>5, ListsJoined
<1>7. RetrievalScores(r) = ((a \o b) \o c) \o d
  BY <1>1 DEF RetrievalScores
<1>8. (({"recall"} \cup {"precision"}) \cup {"mrr"}) \cup {"ndcg"} = {"recall", "precision", "mrr", "ndcg"}
  OBVIOUS
<1> QED BY <1>6, <1>7, <1>8

LEMMA JudgeListed ==
    ASSUME NEW r
    PROVE  ScoreList(JudgeScores(r), r.trace, {"judge"})
BY DEF ScoreList, JudgeScores, ToSet, Score

\* The first scores of a list, created next to others.
LEMMA FirstOfList ==
    ASSUME NEW a, NEW t, NEW names, ScoreList(a, t, names), NEW n \in 0..Len(a),
           NEW old, IsFiniteSet(old), old \cap ToSet(a) = {}
    PROVE  LET new == {a[i] : i \in 1..n}
           IN  /\ new \subseteq ToSet(a) /\ (n = Len(a) => new = ToSet(a))
               /\ IsFiniteSet(old \cup new)
               /\ Cardinality(old \cup new) = Cardinality(old) + n
<1>1. PICK m \in Nat : m = Len(a) /\ DOMAIN a = 1..m /\ n \in 0..m
  BY DEF ScoreList
<1>2. PICK T : T = {a[i] : i \in 1..n}
  OBVIOUS
<1>3. T \subseteq ToSet(a) /\ (n = m => T = ToSet(a))
  BY <1>1, <1>2 DEF ToSet
<1>4. PICK f : f = [i \in 1..n |-> a[i]]
  OBVIOUS
<1>5. f \in [1..n -> T] /\ \A i \in 1..n : f[i] = a[i]
  BY <1>2, <1>4
<1>6. f \in Surjection(1..n, T)
  BY <1>2, <1>5 DEF Surjection
<1>7. f \in Injection(1..n, T)
  <2>1. \A i, j \in 1..n : f[i] = f[j] => i = j
    BY <1>1, <1>5 DEF ScoreList
  <2> QED BY <1>5, <2>1 DEF Injection, IsInjective
<1>8. n \in Nat /\ IsFiniteSet(1..n) /\ Cardinality(1..n) = n
  BY <1>1, FS_Interval
<1>9. IsFiniteSet(T) /\ Cardinality(T) = n
  BY <1>6, <1>7, <1>8, FS_Surjection
<1>10. old \cap T = {} /\ Cardinality({}) = 0
  BY <1>3, FS_EmptySet
<1>11. IsFiniteSet(old \cup T) /\ Cardinality(old \cup T) = Cardinality(old) + n - 0
  <2>1. Cardinality(old \cap T) = 0
    BY <1>10
  <2> QED BY <1>9, <2>1, FS_Union
<1>12. Cardinality(old) \in Nat
  BY FS_CardinalityType
<1> QED BY <1>1, <1>2, <1>3, <1>8, <1>11, <1>12

-----------------------------------------------------------------------------
(* The publisher.                                                          *)

RetrievalOf(t) == ToSet(RetrievalScores(ResultOf(retrievalFile.processed, t)))
JudgeOf(t)     == ToSet(JudgeScores(ResultOf(judgeFile, t)))

\* What the publisher has come to so far: both halves of the traces that it is done with,
\* and the first half of the one it is at.
BothOf(T) == UNION {RetrievalOf(t) \cup JudgeOf(t) : t \in T}

Reached ==
    BothOf(Matching \ publish.todo)
    \cup (IF publish.step = "judge" THEN RetrievalOf(Min(publish.todo)) ELSE {})

\* Either script writes its file in its last step.
WrittenOnce ==
    /\ retrievalFile # Unreadable => retrieval.step = "done"
    /\ judgeFile # Unreadable => judge.step = "done"

\* The publisher has what the files hold.
HasFiles ==
    /\ publish.step \in {"retrieval", "judge", "done"}
    /\ publish = [step |-> publish.step, todo |-> publish.todo,
                  retrieval |-> retrievalFile.processed, judge |-> judgeFile,
                  created |-> publish.created, reported |-> publish.reported,
                  failed |-> publish.failed]
    /\ retrievalFile # Unreadable /\ judgeFile # Unreadable
    /\ publish.todo \subseteq Matching
    /\ publish.step = "judge" => publish.todo # {}
    /\ publish.step = "done" => publish.todo = {}

\* Its counts are those of the scores.
Counts ==
    /\ scores \subseteq Reached /\ IsFiniteSet(scores)
    /\ publish.created = Cardinality(scores)
    /\ publish.reported \in Nat /\ publish.reported <= publish.created
    /\ ~publish.failed => scores = Reached /\ publish.reported = publish.created

ScoresInv ==
    /\ WrittenOnce
    /\ IF publish.step = "idle" THEN scores = {} ELSE HasFiles /\ Counts

LEMMA InitScores == Init => ScoresInv
BY DEF Init, ScoresInv, WrittenOnce, NoScript

\* Everything that Reached is made of: the lists of a trace, when both scripts have a
\* result of it, are of this trace.
LEMMA HalvesListed ==
    ASSUME TruthInv, NEW t \in Matching
    PROVE  /\ ScoreList(RetrievalScores(ResultOf(retrievalFile.processed, t)), t,
                        {"recall", "precision", "mrr", "ndcg"})
           /\ ScoreList(JudgeScores(ResultOf(judgeFile, t)), t, {"judge"})
           /\ t \in Nat
<1>1. /\ retrievalFile # Unreadable /\ judgeFile # Unreadable
      /\ t \in TracesOf(retrievalFile.processed) /\ t \in TracesOf(judgeFile)
  BY DEF Matching
<1>2. retrievalFile.processed \in Seq(Results) /\ judgeFile \in Seq(Verdicts)
  BY <1>1 DEF TruthInv, RetrievalFileInv, GoodResults, JudgeFileInv
<1>3. ASSUME NEW S, NEW results \in Seq(S), t \in TracesOf(results)
      PROVE  ResultOf(results, t).trace = t
  <2>1. PICK n \in Nat : DOMAIN results = 1..n
    OBVIOUS
  <2>2. PICK T : T = {i \in DOMAIN results : results[i].trace = t}
    OBVIOUS
  <2>3. T \in SUBSET (1..n) /\ T # {}
    BY <1>3, <2>1, <2>2 DEF TracesOf
  <2>4. Max(T) \in T
    BY <2>3, MaxOf
  <2> QED BY <2>2, <2>4 DEF ResultOf
<1>4. ResultOf(retrievalFile.processed, t).trace = t /\ ResultOf(judgeFile, t).trace = t
  BY <1>1, <1>2, <1>3
<1>5. t \in Nat
  <2>1. PICK i \in DOMAIN judgeFile : judgeFile[i].trace = t
    BY <1>1 DEF TracesOf
  <2>2. judgeFile[i] \in Verdicts
    BY <1>2, <2>1
  <2> QED BY <2>1, <2>2, EvaluationAssumption DEF Verdicts
<1> QED BY <1>4, <1>5, RetrievalListed, JudgeListed

LEMMA HalvesApart ==
    ASSUME TruthInv, NEW t \in Matching
    PROVE  /\ \A x \in RetrievalOf(t) : x.trace = t /\ x.name[1] # "judge"
           /\ \A x \in JudgeOf(t) : x.trace = t /\ x.name[1] = "judge"
<1>1. /\ ScoreList(RetrievalScores(ResultOf(retrievalFile.processed, t)), t,
                   {"recall", "precision", "mrr", "ndcg"})
      /\ ScoreList(JudgeScores(ResultOf(judgeFile, t)), t, {"judge"})
  BY HalvesListed
<1> QED BY <1>1 DEF ScoreList, RetrievalOf, JudgeOf

\* The counts after half of a trace: what was reached grows by the half.
LEMMA HalfCounted ==
    ASSUME Counts, NEW a, NEW t, NEW names, ScoreList(a, t, names), NEW n \in 0..Len(a),
           scores' = scores \cup {a[i] : i \in 1..n},
           Reached \cap ToSet(a) = {}, Reached' = Reached \cup ToSet(a),
           publish'.created = publish.created + n,
           publish'.reported = publish.reported + (IF n = Len(a) THEN n ELSE 0),
           publish'.failed <=> publish.failed \/ n < Len(a)
    PROVE  Counts'
<1>1. PICK m \in Nat : m = Len(a)
  BY DEF ScoreList
<1>2. PICK new : new = {a[i] : i \in 1..n}
  OBVIOUS
<1>3. n \in 0..m /\ n \in Nat /\ new = {a[i] : i \in 1..n} /\ m = Len(a)
  BY <1>1, <1>2
<1>4. scores \subseteq Reached /\ IsFiniteSet(scores) /\ scores \cap ToSet(a) = {}
  BY DEF Counts
<1>5. /\ new \subseteq ToSet(a) /\ (n = m => new = ToSet(a))
      /\ IsFiniteSet(scores \cup new)
      /\ Cardinality(scores \cup new) = Cardinality(scores) + n
  BY <1>3, <1>4, FirstOfList
<1>6. Cardinality(scores) \in Nat
  BY <1>4, FS_CardinalityType
<1>7. scores' \subseteq Reached' /\ IsFiniteSet(scores')
  BY <1>3, <1>4, <1>5
<1>8. publish'.created = Cardinality(scores')
  BY <1>3, <1>5 DEF Counts
<1>9. publish'.reported \in Nat /\ publish'.reported <= publish'.created
  BY <1>3, <1>6 DEF Counts
<1>10. ASSUME ~publish'.failed PROVE scores' = Reached' /\ publish'.reported = publish'.created
  <2>1. ~publish.failed /\ ~(n < m)
    BY <1>3, <1>10
  <2>2. n = m
    BY ONLY <1>1, <1>3, <2>1
  <2> QED BY <1>3, <1>5, <2>1, <2>2 DEF Counts
<1> QED BY <1>7, <1>8, <1>9, <1>10 DEF Counts

\* The record of the publisher after half of a trace.
LEMMA PublishContinued ==
    ASSUME NEW p, NEW s, NEW c, NEW d, NEW e, NEW f, NEW g, NEW h,
           p = [step |-> s, todo |-> c, retrieval |-> d, judge |-> e, created |-> f,
                reported |-> g, failed |-> h],
           NEW s1, NEW c1, NEW f1, NEW g1, NEW h1, NEW q, NEW x,
           q = [p EXCEPT !.step = s1, !.todo = c1],
           x = [q EXCEPT !.created = f1, !.reported = g1, !.failed = h1]
    PROVE  x = [step |-> s1, todo |-> c1, retrieval |-> d, judge |-> e, created |-> f1,
                reported |-> g1, failed |-> h1]
OBVIOUS

LEMMA FilesKept ==
    ASSUME UNCHANGED <<retrievalFile, judgeFile>>
    PROVE  /\ Matching' = Matching
           /\ \A t : RetrievalOf(t)' = RetrievalOf(t)
           /\ \A T : BothOf(T)' = BothOf(T)
BY DEF Matching, RetrievalOf, JudgeOf, BothOf

LEMMA PublishLoadScores ==
    ASSUME TruthInv, ScoresInv, PublishLoad
    PROVE  ScoresInv'
<1>1. /\ publish.step = "idle" /\ scores = {} /\ Matching # {}
      /\ publish' = [step |-> "retrieval", todo |-> Matching,
                     retrieval |-> retrievalFile.processed, judge |-> judgeFile,
                     created |-> 0, reported |-> 0, failed |-> FALSE]
      /\ UNCHANGED <<retrievalFile, judgeFile, scores, retrieval, judge>>
  BY DEF PublishLoad, files, ScoresInv
<1>2. retrievalFile # Unreadable /\ judgeFile # Unreadable
  BY <1>1 DEF Matching
<1>3. HasFiles'
  BY <1>1, <1>2, FilesKept DEF HasFiles
<1>4. Reached' = {}
  <2>1. Matching \ Matching = {} /\ BothOf({}) = {}
    BY DEF BothOf
  <2> QED BY <1>1, <2>1, FilesKept DEF Reached
<1>5. Counts'
  <2>1. IsFiniteSet({}) /\ Cardinality({}) = 0
    BY FS_EmptySet
  <2> QED BY <1>1, <1>4, <2>1 DEF Counts
<1>6. WrittenOnce'
  BY <1>1 DEF ScoresInv, WrittenOnce
<1> QED BY <1>1, <1>3, <1>5, <1>6 DEF ScoresInv

LEMMA PublishRetrievalScores ==
    ASSUME TruthInv, ScoresInv, NEW n, PublishRetrieval(n)
    PROVE  ScoresInv'
<1>1. HasFiles /\ Counts /\ WrittenOnce /\ publish.step = "retrieval" /\ publish.todo # {}
  BY DEF PublishRetrieval, ScoresInv
<1>2. PICK c, d, e, f, g, h : /\ c = publish.todo /\ d = publish.retrieval /\ e = publish.judge
                              /\ f = publish.created /\ g = publish.reported /\ h = publish.failed
  OBVIOUS
<1>3. PICK t, a : t = Min(c) /\ a = RetrievalScores(ResultOf(d, t))
  OBVIOUS
<1>4. c \subseteq Matching /\ c \subseteq Nat /\ d = retrievalFile.processed
  <2>1. c \subseteq Matching /\ d = retrievalFile.processed
    BY <1>1, <1>2 DEF HasFiles
  <2> QED BY <2>1, HalvesListed
<1>5. t \in c
  BY <1>1, <1>2, <1>3, <1>4, MinOf
<1>6. ScoreList(a, t, {"recall", "precision", "mrr", "ndcg"}) /\ ToSet(a) = RetrievalOf(t)
  BY <1>3, <1>4, <1>5, HalvesListed DEF RetrievalOf
<1>7. /\ n \in 0..Len(a)
      /\ scores' = scores \cup {a[i] : i \in 1..n}
      /\ publish' = [[publish EXCEPT !.step = "judge"] EXCEPT
                        !.created = @ + n, !.reported = @ + (IF n = Len(a) THEN n ELSE 0),
                        !.failed = @ \/ n < Len(a)]
      /\ UNCHANGED <<retrievalFile, judgeFile, retrieval, judge>>
  BY <1>2, <1>3 DEF PublishRetrieval, PublishHalf
<1>8. PICK f1, g1, h1 : /\ f1 = f + n /\ g1 = g + (IF n = Len(a) THEN n ELSE 0)
                        /\ h1 = (h \/ n < Len(a))
  OBVIOUS
<1>9. publish = [step |-> "retrieval", todo |-> c, retrieval |-> d, judge |-> e, created |-> f,
                 reported |-> g, failed |-> h]
  BY <1>1, <1>2 DEF HasFiles
<1>10. publish' = [step |-> "judge", todo |-> c, retrieval |-> d, judge |-> e, created |-> f1,
                   reported |-> g1, failed |-> h1]
  BY ONLY <1>7, <1>8, <1>9
<1>11. /\ publish'.step = "judge" /\ publish'.todo = c /\ publish'.retrieval = d
       /\ publish'.judge = e /\ publish'.created = f1 /\ publish'.reported = g1
       /\ publish'.failed = h1
  BY ONLY <1>10
<1>12. publish' = [step |-> publish'.step, todo |-> publish'.todo, retrieval |-> d, judge |-> e,
                   created |-> publish'.created, reported |-> publish'.reported,
                   failed |-> publish'.failed]
  BY ONLY <1>10, <1>11
<1>13. HasFiles'
  <2>1. Matching' = Matching /\ d = retrievalFile'.processed /\ e = judgeFile'
    BY <1>1, <1>2, <1>4, <1>7, FilesKept DEF HasFiles
  <2>2. retrievalFile' # Unreadable /\ judgeFile' # Unreadable
    BY <1>1, <1>7 DEF HasFiles
  <2> QED BY <1>4, <1>5, <1>11, <1>12, <2>1, <2>2 DEF HasFiles
<1>14. Reached' = Reached \cup ToSet(a)
  <2>1. Reached' = BothOf(Matching \ c) \cup RetrievalOf(t)
    BY <1>3, <1>7, <1>11, FilesKept DEF Reached
  <2>2. Reached = BothOf(Matching \ c)
    BY <1>1, <1>2 DEF Reached
  <2> QED BY <1>6, <2>1, <2>2
<1>15. Reached \cap ToSet(a) = {}
  <2> SUFFICES ASSUME NEW x \in Reached, x \in ToSet(a) PROVE FALSE
    OBVIOUS
  <2>1. PICK s \in Matching \ c : x \in RetrievalOf(s) \cup JudgeOf(s)
    BY <1>1, <1>2 DEF Reached, BothOf
  <2>2. x.trace = s
    BY <2>1, HalvesApart
  <2>3. x.trace = t
    BY <1>4, <1>5, <1>6, HalvesApart
  <2> QED BY <1>5, <2>1, <2>2, <2>3
<1>16. /\ publish'.created = publish.created + n
       /\ publish'.reported = publish.reported + (IF n = Len(a) THEN n ELSE 0)
       /\ publish'.failed <=> publish.failed \/ n < Len(a)
  BY <1>2, <1>8, <1>11
<1>17. Counts'
  BY <1>1, <1>6, <1>7, <1>14, <1>15, <1>16, HalfCounted
<1>18. WrittenOnce'
  BY <1>1, <1>7 DEF WrittenOnce
<1> QED BY <1>13, <1>17, <1>18, <1>11 DEF ScoresInv

LEMMA PublishJudgeScores ==
    ASSUME TruthInv, ScoresInv, NEW n, PublishJudge(n)
    PROVE  ScoresInv'
<1>1. HasFiles /\ Counts /\ WrittenOnce /\ publish.step = "judge" /\ publish.todo # {}
  BY DEF PublishJudge, ScoresInv, HasFiles
<1>2. PICK c, d, e, f, g, h : /\ c = publish.todo /\ d = publish.retrieval /\ e = publish.judge
                              /\ f = publish.created /\ g = publish.reported /\ h = publish.failed
  OBVIOUS
<1>3. PICK t, a, c1 : t = Min(c) /\ a = JudgeScores(ResultOf(e, t)) /\ c1 = c \ {t}
  OBVIOUS
<1>4. c \subseteq Matching /\ c \subseteq Nat /\ e = judgeFile /\ d = retrievalFile.processed
  <2>1. c \subseteq Matching /\ e = judgeFile /\ d = retrievalFile.processed
    BY <1>1, <1>2 DEF HasFiles
  <2> QED BY <2>1, HalvesListed
<1>5. t \in c
  BY <1>1, <1>2, <1>3, <1>4, MinOf
<1>6. ScoreList(a, t, {"judge"}) /\ ToSet(a) = JudgeOf(t)
  BY <1>3, <1>4, <1>5, HalvesListed DEF JudgeOf
<1>7. /\ n \in 0..Len(a)
      /\ scores' = scores \cup {a[i] : i \in 1..n}
      /\ publish' = [[publish EXCEPT !.step = "retrieval", !.todo = c1] EXCEPT
                        !.created = @ + n, !.reported = @ + (IF n = Len(a) THEN n ELSE 0),
                        !.failed = @ \/ n < Len(a)]
      /\ UNCHANGED <<retrievalFile, judgeFile, retrieval, judge>>
  BY <1>2, <1>3 DEF PublishJudge, PublishHalf
<1>8. PICK f1, g1, h1 : /\ f1 = f + n /\ g1 = g + (IF n = Len(a) THEN n ELSE 0)
                        /\ h1 = (h \/ n < Len(a))
  OBVIOUS
<1>9. publish = [step |-> "judge", todo |-> c, retrieval |-> d, judge |-> e, created |-> f,
                 reported |-> g, failed |-> h]
  BY <1>1, <1>2 DEF HasFiles
<1>10. publish' = [step |-> "retrieval", todo |-> c1, retrieval |-> d, judge |-> e, created |-> f1,
                   reported |-> g1, failed |-> h1]
  BY ONLY <1>7, <1>8, <1>9
<1>11. /\ publish'.step = "retrieval" /\ publish'.todo = c1 /\ publish'.retrieval = d
       /\ publish'.judge = e /\ publish'.created = f1 /\ publish'.reported = g1
       /\ publish'.failed = h1
  BY ONLY <1>10
<1>12. publish' = [step |-> publish'.step, todo |-> publish'.todo, retrieval |-> d, judge |-> e,
                   created |-> publish'.created, reported |-> publish'.reported,
                   failed |-> publish'.failed]
  BY ONLY <1>10, <1>11
<1>13. HasFiles'
  <2>1. Matching' = Matching /\ d = retrievalFile'.processed /\ e = judgeFile'
    BY <1>1, <1>2, <1>4, <1>7, FilesKept DEF HasFiles
  <2>2. retrievalFile' # Unreadable /\ judgeFile' # Unreadable
    BY <1>1, <1>7 DEF HasFiles
  <2>3. c1 \subseteq Matching
    BY <1>3, <1>4
  <2> QED BY <1>11, <1>12, <2>1, <2>2, <2>3 DEF HasFiles
<1>14. Reached' = Reached \cup ToSet(a)
  <2>1. Matching \ c1 = (Matching \ c) \cup {t}
    BY <1>3, <1>4, <1>5
  <2>2. Reached' = BothOf(Matching \ c1)
    BY <1>7, <1>11, FilesKept DEF Reached
  <2>3. Reached = BothOf(Matching \ c) \cup RetrievalOf(t)
    BY <1>1, <1>2, <1>3 DEF Reached
  <2>4. BothOf((Matching \ c) \cup {t}) = (BothOf(Matching \ c) \cup RetrievalOf(t)) \cup JudgeOf(t)
    BY DEF BothOf
  <2> QED BY <1>6, <2>1, <2>2, <2>3, <2>4
<1>15. Reached \cap ToSet(a) = {}
  <2> SUFFICES ASSUME NEW x \in Reached, x \in ToSet(a) PROVE FALSE
    OBVIOUS
  <2>1. x.trace = t /\ x.name[1] = "judge"
    <3>1. t \in Matching /\ x \in JudgeOf(t)
      BY <1>4, <1>5, <1>6
    <3> QED BY <3>1, HalvesApart
  <2>2. CASE x \in RetrievalOf(t)
    BY <1>4, <1>5, <2>1, <2>2, HalvesApart
  <2>3. CASE x \notin RetrievalOf(t)
    <3>1. PICK s \in Matching \ c : x \in RetrievalOf(s) \cup JudgeOf(s)
      <4>1. x \in BothOf(Matching \ c)
        BY <1>1, <1>2, <1>3, <2>3 DEF Reached
      <4> QED BY <4>1 DEF BothOf
    <3>2. x.trace = s
      BY <3>1, HalvesApart
    <3> QED BY <1>5, <2>1, <3>1, <3>2
  <2> QED BY <2>2, <2>3
<1>16. /\ publish'.created = publish.created + n
       /\ publish'.reported = publish.reported + (IF n = Len(a) THEN n ELSE 0)
       /\ publish'.failed <=> publish.failed \/ n < Len(a)
  BY <1>2, <1>8, <1>11
<1>17. Counts'
  BY <1>1, <1>6, <1>7, <1>14, <1>15, <1>16, HalfCounted
<1>18. WrittenOnce'
  BY <1>1, <1>7 DEF WrittenOnce
<1> QED BY <1>13, <1>17, <1>18, <1>11 DEF ScoresInv

LEMMA PublishEndScores ==
    ASSUME ScoresInv, PublishEnd
    PROVE  ScoresInv'
<1>1. HasFiles /\ Counts /\ WrittenOnce /\ publish.step = "retrieval" /\ publish.todo = {}
  BY DEF PublishEnd, ScoresInv
<1>2. /\ publish' = [publish EXCEPT !.step = "done"]
      /\ UNCHANGED <<retrievalFile, judgeFile, scores, retrieval, judge>>
  BY DEF PublishEnd, files
<1>3. publish' = [step |-> "done", todo |-> publish.todo,
                  retrieval |-> retrievalFile.processed, judge |-> judgeFile,
                  created |-> publish.created, reported |-> publish.reported,
                  failed |-> publish.failed]
  BY <1>1, <1>2 DEF HasFiles
<1>4. HasFiles'
  BY <1>1, <1>2, <1>3, FilesKept DEF HasFiles
<1>5. Reached' = Reached
  BY <1>1, <1>2, <1>3, FilesKept DEF Reached
<1>6. Counts'
  BY <1>1, <1>2, <1>3, <1>5 DEF Counts
<1> QED BY <1>1, <1>2, <1>3, <1>4, <1>6 DEF ScoresInv, WrittenOnce

\* The other scripts write their files before the publisher starts, and only then.
LEMMA FileStepScores ==
    ASSUME ScoresInv, RetrievalStep \/ JudgeStep \/ \E ids \in Lists : RetrievalLoad(ids) \/ JudgeLoad(ids)
    PROVE  ScoresInv'
<1>1. UNCHANGED <<scores, publish>>
  <2>1. CASE RetrievalStep
    BY <2>1 DEF RetrievalStep, Evaluate, Skip, RetrievalSave, files
  <2>2. CASE JudgeStep
    BY <2>2 DEF JudgeStep, JudgeTrace, JudgeRaises, JudgeSave, files
  <2>3. CASE \E ids \in Lists : RetrievalLoad(ids) \/ JudgeLoad(ids)
    BY <2>3 DEF RetrievalLoad, JudgeLoad, files
  <2> QED BY <2>1, <2>2, <2>3
<1>2. WrittenOnce'
  <2>1. CASE RetrievalStep
    BY <2>1 DEF RetrievalStep, Evaluate, Skip, RetrievalSave, files, ScoresInv, WrittenOnce
  <2>2. CASE JudgeStep
    <3>1. UNCHANGED <<retrieval, retrievalFile>>
      BY <2>2 DEF JudgeStep, JudgeTrace, JudgeRaises, JudgeSave, files
    <3>2. judgeFile' = judgeFile \/ judge'.step = "done"
      <4>1. CASE JudgeSave
        BY <4>1 DEF JudgeSave
      <4>2. CASE ~JudgeSave
        <5>1. judgeFile' = judgeFile
          BY <2>2, <4>2 DEF JudgeStep, JudgeTrace, JudgeRaises, files
        <5> QED BY <5>1
      <4> QED BY <4>1, <4>2
    <3>3. judge.step = "judging"
      BY <2>2 DEF JudgeStep, JudgeTrace, JudgeRaises, JudgeSave
    <3> QED BY <3>1, <3>2, <3>3 DEF ScoresInv, WrittenOnce
  <2>3. CASE \E ids \in Lists : RetrievalLoad(ids) \/ JudgeLoad(ids)
    BY <2>3 DEF RetrievalLoad, JudgeLoad, files, ScoresInv, WrittenOnce
  <2> QED BY <2>1, <2>2, <2>3
<1>3. CASE publish.step = "idle"
  BY <1>1, <1>2, <1>3 DEF ScoresInv
<1>4. CASE publish.step # "idle"
  <2>1. retrieval.step = "done" /\ judge.step = "done"
    BY <1>4 DEF ScoresInv, HasFiles, WrittenOnce
  <2>2. UNCHANGED <<retrievalFile, judgeFile>>
    BY <2>1 DEF RetrievalStep, Evaluate, Skip, RetrievalSave, JudgeStep, JudgeTrace, JudgeRaises,
                JudgeSave, RetrievalLoad, JudgeLoad, files
  <2>3. HasFiles' /\ Counts'
    <3>1. HasFiles /\ Counts /\ Matching' = Matching /\ Reached' = Reached
      BY <1>1, <1>4, <2>2, FilesKept DEF ScoresInv, Reached
    <3>2. HasFiles'
      BY <1>1, <2>2, <3>1 DEF HasFiles
    <3>3. Counts'
      BY <1>1, <3>1 DEF Counts
    <3> QED BY <3>2, <3>3
  <2> QED BY <1>1, <1>2, <1>4, <2>3 DEF ScoresInv
<1> QED BY <1>3, <1>4

LEMMA ScoresStep ==
    ASSUME TruthInv, ScoresInv, [Next]_vars
    PROVE  ScoresInv'
<1>1. CASE UNCHANGED <<retrieval, judge, publish, scores, retrievalFile, judgeFile>>
  <2>1. Matching' = Matching /\ Reached' = Reached
    BY <1>1, FilesKept DEF Reached
  <2>2. HasFiles => HasFiles'
    BY <1>1, <2>1 DEF HasFiles
  <2>3. Counts => Counts'
    BY <1>1, <2>1 DEF Counts
  <2> QED BY <1>1, <2>2, <2>3 DEF ScoresInv, WrittenOnce
<1>2. ASSUME NEW g \in Requests, NEW ids \in Lists, NEW fetched \in SUBSET Traces,
             Generate(g, ids, fetched)
      PROVE  UNCHANGED <<retrieval, judge, publish, scores, retrievalFile, judgeFile>>
  BY <1>2 DEF Generate, scripts
<1>3. ASSUME NEW g \in Requests, RequestStepOf(g)
      PROVE  UNCHANGED <<retrieval, judge, publish, scores, retrievalFile, judgeFile>>
  BY <1>3 DEF RequestStepOf, GoldenWritten, Identify, IdentifyFails, CandidatesWritten, scripts,
              files
<1>4. CASE Crash
  BY <1>1, <1>4 DEF Crash, files, scripts
<1>5. ASSUME NEW i \in 1..Cardinality(Traces), NEW sources \in Reviews, Approve(i, sources)
      PROVE  UNCHANGED <<retrieval, judge, publish, scores, retrievalFile, judgeFile>>
  BY <1>5 DEF Approve, scripts
<1>6. ASSUME NEW t \in Traces, NEW sources \in Reviews, ReviewTrace(t, sources)
      PROVE  UNCHANGED <<retrieval, judge, publish, scores, retrievalFile, judgeFile>>
  BY <1>6 DEF ReviewTrace, scripts
<1>7. CASE UNCHANGED vars
  BY <1>1, <1>7 DEF vars, files, scripts
<1> QED
  BY <1>1, <1>2, <1>3, <1>4, <1>5, <1>6, <1>7, FileStepScores, PublishLoadScores,
     PublishRetrievalScores, PublishJudgeScores, PublishEndScores
  DEF Next, PublishStep

LEMMA ScoresSuffice == TruthInv /\ ScoresInv => ScoresOfTrace
<1> SUFFICES ASSUME TruthInv, ScoresInv, publish.step # "idle"
             PROVE  /\ scores \subseteq BothOf(Matching)
                    /\ publish.step = "done" =>
                          /\ publish.reported <= publish.created
                          /\ publish.created = Cardinality(scores)
                          /\ ~publish.failed =>
                                /\ scores = BothOf(Matching)
                                /\ publish.reported = publish.created
  BY DEF ScoresOfTrace, ScoresInv, RetrievalOf, JudgeOf, BothOf
<1>1. HasFiles /\ Counts
  BY DEF ScoresInv
<1>2. Reached \subseteq BothOf(Matching)
  <2>1. publish.step = "judge" => Min(publish.todo) \in Matching
    BY <1>1, HalvesListed, MinOf DEF HasFiles
  <2>2. BothOf(Matching \ publish.todo) \subseteq BothOf(Matching)
    BY DEF BothOf
  <2>3. \A t \in Matching : RetrievalOf(t) \subseteq BothOf(Matching)
    BY DEF BothOf
  <2> QED BY <2>1, <2>2, <2>3 DEF Reached
<1>3. publish.step = "done" => Reached = BothOf(Matching)
  <2>1. publish.step = "done" => Matching \ publish.todo = Matching
    BY <1>1 DEF HasFiles
  <2> QED BY <2>1 DEF Reached
<1> QED BY <1>1, <1>2, <1>3 DEF Counts

\* A score in Langfuse is one of the saved results of its trace, no score is reported that was
\* not created, and without a failed call every trace that has both results gets all its scores
\* (existing_trace_langfuse_publisher.py), for any results, cut-offs and failures.
THEOREM ScoresBelong == Spec => []ScoresOfTrace
<1>1. Init => TruthInv /\ ScoresInv
  BY InitTruth, InitScores
<1>2. TruthInv /\ ScoresInv /\ [Next]_vars => TruthInv' /\ ScoresInv'
  BY StepKeeps, ScoresStep
<1>3. TruthInv /\ ScoresInv => ScoresOfTrace
  BY ScoresSuffice
<1> QED BY <1>1, <1>2, <1>3, PTL DEF Spec
================================================================================
