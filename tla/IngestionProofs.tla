---------------------------- MODULE IngestionProofs ----------------------------
(***************************************************************************)
(* Proofs about Ingestion, for any document, limits of the provider and    *)
(* limit of a chunk: the chunks have the words of the elements in their    *)
(* order, fit, keep the rows of tables whole and have the path of their    *)
(* elements; the requests are within the limits; every vector is stored    *)
(* with its own chunk.                                                     *)
(*                                                                         *)
(* Of each loop of Chunking two things are shown: that it is a chain of    *)
(* steps (...Steps, by the lemmas about folds), and what holds along the   *)
(* chain.                                                                  *)
(***************************************************************************)
EXTENDS Ingestion, FoldLemmas, SequenceTheorems, TLAPS

-----------------------------------------------------------------------------
(* Pieces of text and their tokens.                                        *)

\* Words, pieces and what the chunker is given.
Words  == [at : Nat \X Nat \X Nat, tokens : Nat]
Texty  == [elements : SUBSET Nat, words : Seq(Words)]
Accs(S) == [done : Seq(S), open : Seq(S)]
Nothing == [done |-> <<>>, open |-> <<>>]

\* Pieces join to a piece.
LEMMA JoinType ==
    ASSUME NEW ps \in Seq(Texty)
    PROVE  Join(ps) \in Texty
<1>1. PICK ws : ws = [i \in DOMAIN ps |-> ps[i].words]
  OBVIOUS
<1>0. \A i \in 1..Len(ps) : ps[i].words \in Seq(Words) /\ ps[i].elements \subseteq Nat
  <2>1. \A i \in 1..Len(ps) : ps[i] \in Texty
    OBVIOUS
  <2> QED BY <2>1 DEF Texty
<1>2. ws \in Seq(Seq(Words))
  <2>1. ws = [i \in 1..Len(ps) |-> ps[i].words]
    BY <1>1
  <2> QED BY <1>0, <2>1
<1>3. FlattenSeq(ws) \in Seq(Words)
  BY <1>2, FlattenType
<1>4. UNION {ps[i].elements : i \in DOMAIN ps} \subseteq Nat
  BY <1>0
<1> QED BY <1>1, <1>3, <1>4 DEF Join, Texty

LEMMA ChunkPieceType ==
    ASSUME NEW header \in Seq(Texty), NEW ps \in Seq(Texty)
    PROVE  Chunk(header, ps) \in Texty
<1>1. header \o ps \in Seq(Texty)
  OBVIOUS
<1> QED BY <1>1, JoinType DEF Chunk

LEMMA FlushType ==
    ASSUME NEW acc \in Accs(Texty), NEW header \in Seq(Texty)
    PROVE  Flush(acc, header) \in Seq(Texty)
BY ChunkPieceType DEF Flush, Accs

-----------------------------------------------------------------------------
(* The loop that packs.                                                    *)

\* One iteration of the loop that packs.
PackStep(ps, header, split, acc, i) ==
    IF Fits(Chunk(header, Append(acc.open, ps[i]))) THEN [acc EXCEPT !.open = Append(@, ps[i])]
    ELSE IF Fits(Chunk(header, <<ps[i]>>)) THEN [done |-> Flush(acc, header), open |-> Begin(ps[i])]
    ELSE [done |-> Flush(acc, header) \o split[i], open |-> <<>>]

\* The loop deals in pieces only.
LEMMA PackStepType ==
    ASSUME NEW n \in Nat, NEW ps \in [1..n -> Texty], NEW header \in Seq(Texty),
           NEW split \in [1..n -> Seq(Texty)], NEW acc \in Accs(Texty), NEW i \in 1..n
    PROVE  PackStep(ps, header, split, acc, i) \in Accs(Texty)
<1>1. Flush(acc, header) \in Seq(Texty)
  BY FlushType
<1>2. ps[i] \in Texty /\ split[i] \in Seq(Texty)
  OBVIOUS
<1>3. [acc EXCEPT !.open = Append(@, ps[i])] \in Accs(Texty)
  <2>1. Append(acc.open, ps[i]) \in Seq(Texty)
    BY <1>2 DEF Accs
  <2> QED BY <2>1 DEF Accs
<1>4. [done |-> Flush(acc, header), open |-> Begin(ps[i])] \in Accs(Texty)
  BY <1>1, <1>2 DEF Accs, Begin
<1>5. [done |-> Flush(acc, header) \o split[i], open |-> <<>>] \in Accs(Texty)
  BY <1>1, <1>2 DEF Accs
<1> QED BY <1>3, <1>4, <1>5 DEF PackStep

\* The states of the loop.
Packing(d, ps, header, split) ==
    /\ d \in [0..Len(ps) -> Accs(Texty)] /\ d[0] = Nothing
    /\ \A i \in 1..Len(ps) : d[i] = PackStep(ps, header, split, d[i - 1], i)

\* Packed is the chain of the iterations, flushed at the end.
LEMMA PackedSteps ==
    ASSUME NEW ps \in Seq(Texty), NEW header \in Seq(Texty),
           NEW split \in [DOMAIN ps -> Seq(Texty)]
    PROVE  \E d : Packing(d, ps, header, split) /\ Packed(ps, header, split) = Flush(d[Len(ps)], header)
<1>1. PICK n \in Nat : n = Len(ps) /\ DOMAIN ps = 1..n /\ ps \in [1..n -> Texty]
  BY LenProperties
<1>2. PICK V : V = Accs(Texty)
  OBVIOUS
<1>3. PICK op : op = [p \in (1..n) \X V |-> PackStep(ps, header, split, p[2], p[1])]
  OBVIOUS
<1>4. op \in [(1..n) \X V -> V]
  <2>1. ASSUME NEW i \in 1..n, NEW acc \in V PROVE PackStep(ps, header, split, acc, i) \in V
    BY <1>1, <1>2, PackStepType
  <2> QED BY <1>3, <2>1
<1>5. Nothing \in V
  BY <1>2 DEF Accs, Nothing
<1>6. \A i \in 1..n, acc \in V : op[<<i, acc>>] = PackStep(ps, header, split, acc, i)
  BY <1>3
<1> DEFINE R(h) == h = [s \in SUBSET DOMAIN [i \in DOMAIN ps |-> i] |->
                          IF s = {} THEN Nothing
                          ELSE LET x == Max(s)
                               IN  PackStep(ps, header, split, h[s \ {x}], [i \in DOMAIN ps |-> i][x])]
<1>7. PICK g \in [SUBSET (1..n) -> V] : Unfolds(g, n, op, Nothing)
  BY <1>4, <1>5, FoldUnfolds
<1>8. R(g)
  <2>1. ASSUME NEW s \in SUBSET (1..n), s # {}
        PROVE  g[s] = PackStep(ps, header, split, g[s \ {Max(s)}], Max(s))
    BY <1>6, <1>7, <2>1 DEF Unfolds
  <2>2. \A s \in SUBSET (1..n) : s # {} => Max(s) \in 1..n
    BY <1>7 DEF Unfolds
  <2>3. g[{}] = Nothing
    BY <1>7 DEF Unfolds
  <2> QED BY <1>1, <2>1, <2>2, <2>3
<1>9. PICK h : h = CHOOSE x : R(x)
  OBVIOUS
<1>10. R(h)
  BY <1>8, <1>9
<1>11. Packed(ps, header, split) = Flush(h[1..n], header)
  BY <1>1, <1>9 DEF Packed, FoldLeftDomain, FoldLeft, MapThenFoldSet, PackStep, Nothing
<1>13. Follows(h, n, op, Nothing, V)
  <2>0. h[{}] = Nothing
    BY <1>10
  <2> SUFFICES ASSUME NEW s \in SUBSET (1..n), s # {}, h[s \ {Max(s)}] \in V
               PROVE  h[s] = op[<<Max(s), h[s \ {Max(s)}]>>]
    BY <2>0 DEF Follows
  <2>1. Max(s) \in 1..n
    BY <1>7 DEF Unfolds
  <2>2. h[s] = PackStep(ps, header, split, h[s \ {Max(s)}], Max(s))
    BY <1>1, <1>10, <2>1
  <2> QED BY <1>6, <2>1, <2>2
<1> HIDE DEF R
<1>14. PICK d \in [0..n -> V] : Chain(d, n, op, Nothing) /\ EndsWith(d, n, h[1..n])
  BY <1>4, <1>5, <1>13, FoldChain
<1>15. ASSUME NEW i \in 1..n PROVE d[i] = PackStep(ps, header, split, d[i - 1], i)
  <2>1. i - 1 \in 0..n
    OBVIOUS
  <2> QED BY <1>6, <1>14, <2>1 DEF Chain
<1>16. Packing(d, ps, header, split)
  BY <1>1, <1>2, <1>14, <1>15 DEF Packing, Chain
<1> QED BY <1>1, <1>11, <1>14, <1>16 DEF EndsWith
-----------------------------------------------------------------------------
(* Tokens.                                                                 *)

\* The tokens of a text are those of its words.
Counting(d, ws) ==
    /\ d \in [0..Len(ws) -> Nat] /\ d[0] = 0
    /\ \A i \in 1..Len(ws) : d[i] = d[i - 1] + ws[i].tokens

\* The tokens of a text are counted word by word.
TokensStep(n, w) == n + w.tokens

LEMMA WordTokens ==
    ASSUME NEW ws \in Seq(Words), NEW i \in 1..Len(ws)
    PROVE  ws[i].tokens \in Nat
<1>1. ws[i] \in Words
  OBVIOUS
<1> QED BY <1>1 DEF Words

\* Tokens is the chain of the counts.
LEMMA TokensSteps ==
    ASSUME NEW p, p.words \in Seq(Words)
    PROVE  \E d : Counting(d, p.words) /\ Tokens(p) = d[Len(p.words)]
<1>1. PICK n \in Nat : n = Len(p.words) /\ DOMAIN p.words = 1..n
  BY LenProperties
<1>2. PICK V : V = Nat
  OBVIOUS
<1>3. PICK op : op = [q \in (1..n) \X V |-> TokensStep(q[2], p.words[q[1]])]
  OBVIOUS
<1>4. op \in [(1..n) \X V -> V]
  <2>1. ASSUME NEW i \in 1..n, NEW acc \in V PROVE TokensStep(acc, p.words[i]) \in V
    BY <1>1, <1>2, WordTokens DEF TokensStep
  <2> QED BY <1>3, <2>1
<1>5. 0 \in V
  BY <1>2
<1>6. \A i \in 1..n, acc \in V : op[<<i, acc>>] = TokensStep(acc, p.words[i])
  BY <1>3
<1> DEFINE R(h) == h = [s \in SUBSET DOMAIN p.words |->
                          IF s = {} THEN 0
                          ELSE LET x == Max(s)
                               IN  TokensStep(h[s \ {x}], p.words[x])]
<1>7. PICK g \in [SUBSET (1..n) -> V] : Unfolds(g, n, op, 0)
  BY <1>4, <1>5, FoldUnfolds
<1>8. R(g)
  <2>1. ASSUME NEW s \in SUBSET (1..n), s # {}
        PROVE  g[s] = TokensStep(g[s \ {Max(s)}], p.words[Max(s)])
    BY <1>6, <1>7, <2>1 DEF Unfolds
  <2>2. \A s \in SUBSET (1..n) : s # {} => Max(s) \in 1..n
    BY <1>7 DEF Unfolds
  <2>3. g[{}] = 0
    BY <1>7 DEF Unfolds
  <2> QED BY <1>1, <2>1, <2>2, <2>3
<1>9. PICK h : h = CHOOSE x : R(x)
  OBVIOUS
<1>10. R(h)
  BY <1>8, <1>9
<1>11. Tokens(p) = h[1..n]
  BY <1>1, <1>9 DEF Tokens, FoldLeft, MapThenFoldSet, TokensStep
<1>12. Follows(h, n, op, 0, V)
  <2>0. h[{}] = 0
    BY <1>10
  <2> SUFFICES ASSUME NEW s \in SUBSET (1..n), s # {}, h[s \ {Max(s)}] \in V
               PROVE  h[s] = op[<<Max(s), h[s \ {Max(s)}]>>]
    BY <2>0 DEF Follows
  <2>1. Max(s) \in 1..n
    BY <1>7 DEF Unfolds
  <2>2. h[s] = TokensStep(h[s \ {Max(s)}], p.words[Max(s)])
    BY <1>1, <1>10, <2>1
  <2> QED BY <1>6, <2>1, <2>2
<1> HIDE DEF R
<1>13. PICK d \in [0..n -> V] : Chain(d, n, op, 0) /\ EndsWith(d, n, h[1..n])
  BY <1>4, <1>5, <1>12, FoldChain
<1>14. ASSUME NEW i \in 1..n PROVE d[i] = TokensStep(d[i - 1], p.words[i])
  <2>1. i - 1 \in 0..n
    OBVIOUS
  <2> QED BY <1>6, <1>13, <2>1 DEF Chain
<1>15. Counting(d, p.words)
  BY <1>1, <1>2, <1>13, <1>14 DEF Counting, TokensStep, Chain
<1> QED BY <1>1, <1>11, <1>13, <1>15 DEF EndsWith

\* The tokens of a batch are counted chunk by chunk.
BatchStep(cs, n, i) == n + Tokens(cs[i])

Summing(d, cs, batch) ==
    /\ d \in [0..Len(batch) -> Nat] /\ d[0] = 0
    /\ \A k \in 1..Len(batch) : d[k] = d[k - 1] + Tokens(cs[batch[k]])

LEMMA BatchStepType ==
    ASSUME NEW cs, NEW batch \in Seq(DOMAIN cs), \A j \in DOMAIN cs : Tokens(cs[j]) \in Nat,
           NEW k \in 1..Len(batch), NEW m \in Nat
    PROVE  BatchStep(cs, m, batch[k]) \in Nat
<1>1. batch[k] \in DOMAIN cs
  OBVIOUS
<1> QED BY <1>1 DEF BatchStep

\* BatchTokens is the chain of the sums.
LEMMA BatchTokensSteps ==
    ASSUME NEW cs, NEW batch \in Seq(DOMAIN cs), \A j \in DOMAIN cs : Tokens(cs[j]) \in Nat
    PROVE  \E d : Summing(d, cs, batch) /\ BatchTokens(cs, batch) = d[Len(batch)]
<1>1. PICK n \in Nat : n = Len(batch) /\ DOMAIN batch = 1..n
  BY LenProperties
<1>2. PICK V : V = Nat
  OBVIOUS
<1>3. PICK op : op = [q \in (1..n) \X V |-> BatchStep(cs, q[2], batch[q[1]])]
  OBVIOUS
<1>4. op \in [(1..n) \X V -> V]
  <2>1. ASSUME NEW i \in 1..n, NEW acc \in V PROVE BatchStep(cs, acc, batch[i]) \in V
    BY <1>1, <1>2, BatchStepType
  <2> QED BY <1>3, <2>1
<1>5. 0 \in V
  BY <1>2
<1>6. \A i \in 1..n, acc \in V : op[<<i, acc>>] = BatchStep(cs, acc, batch[i])
  BY <1>3
<1> DEFINE R(h) == h = [s \in SUBSET DOMAIN batch |->
                          IF s = {} THEN 0
                          ELSE LET x == Max(s)
                               IN  BatchStep(cs, h[s \ {x}], batch[x])]
<1>7. PICK g \in [SUBSET (1..n) -> V] : Unfolds(g, n, op, 0)
  BY <1>4, <1>5, FoldUnfolds
<1>8. R(g)
  <2>1. ASSUME NEW s \in SUBSET (1..n), s # {}
        PROVE  g[s] = BatchStep(cs, g[s \ {Max(s)}], batch[Max(s)])
    BY <1>6, <1>7, <2>1 DEF Unfolds
  <2>2. \A s \in SUBSET (1..n) : s # {} => Max(s) \in 1..n
    BY <1>7 DEF Unfolds
  <2>3. g[{}] = 0
    BY <1>7 DEF Unfolds
  <2> QED BY <1>1, <2>1, <2>2, <2>3
<1>9. PICK h : h = CHOOSE x : R(x)
  OBVIOUS
<1>10. R(h)
  BY <1>8, <1>9
<1>11. BatchTokens(cs, batch) = h[1..n]
  BY <1>1, <1>9 DEF BatchTokens, FoldLeft, MapThenFoldSet, BatchStep
<1>12. Follows(h, n, op, 0, V)
  <2>0. h[{}] = 0
    BY <1>10
  <2> SUFFICES ASSUME NEW s \in SUBSET (1..n), s # {}, h[s \ {Max(s)}] \in V
               PROVE  h[s] = op[<<Max(s), h[s \ {Max(s)}]>>]
    BY <2>0 DEF Follows
  <2>1. Max(s) \in 1..n
    BY <1>7 DEF Unfolds
  <2>2. h[s] = BatchStep(cs, h[s \ {Max(s)}], batch[Max(s)])
    BY <1>1, <1>10, <2>1
  <2> QED BY <1>6, <2>1, <2>2
<1> HIDE DEF R
<1>13. PICK d \in [0..n -> V] : Chain(d, n, op, 0) /\ EndsWith(d, n, h[1..n])
  BY <1>4, <1>5, <1>12, FoldChain
<1>14. ASSUME NEW i \in 1..n PROVE d[i] = BatchStep(cs, d[i - 1], batch[i])
  <2>1. i - 1 \in 0..n
    OBVIOUS
  <2> QED BY <1>6, <1>13, <2>1 DEF Chain
<1>15. Summing(d, cs, batch)
  BY <1>1, <1>2, <1>13, <1>14 DEF Summing, BatchStep, Chain
<1> QED BY <1>1, <1>11, <1>13, <1>15 DEF EndsWith

LEMMA TokensType ==
    ASSUME NEW p, p.words \in Seq(Words)
    PROVE  Tokens(p) \in Nat
<1>1. PICK d : Counting(d, p.words) /\ Tokens(p) = d[Len(p.words)]
  BY TokensSteps
<1>2. Len(p.words) \in 0..Len(p.words)
  OBVIOUS
<1> QED BY <1>1, <1>2 DEF Counting

\* The tokens of a batch to which a chunk is added.
LEMMA BatchTokensAppend ==
    ASSUME NEW cs, NEW batch \in Seq(DOMAIN cs), \A j \in DOMAIN cs : Tokens(cs[j]) \in Nat,
           NEW i \in DOMAIN cs
    PROVE  /\ BatchTokens(cs, batch) \in Nat
           /\ BatchTokens(cs, Append(batch, i)) = BatchTokens(cs, batch) + Tokens(cs[i])
<1>1. PICK more : more = Append(batch, i)
  OBVIOUS
<1>2. PICK n \in Nat : n = Len(batch)
  OBVIOUS
<1>3. /\ more \in Seq(DOMAIN cs) /\ Len(more) = n + 1 /\ more[n + 1] = i
      /\ \A k \in 1..n : more[k] = batch[k]
  BY <1>1, <1>2
<1>4. PICK d : Summing(d, cs, batch) /\ BatchTokens(cs, batch) = d[Len(batch)]
  BY BatchTokensSteps
<1>5. PICK e : Summing(e, cs, more) /\ BatchTokens(cs, more) = e[Len(more)]
  BY <1>3, BatchTokensSteps
<1>6. PICK same : same = {k \in 0..n : d[k] = e[k]}
  OBVIOUS
<1>7. 0 \in same
  BY <1>4, <1>5, <1>6 DEF Summing
<1>8. ASSUME NEW k \in 1..n, k - 1 \in same PROVE k \in same
  <2>1. k \in 1..n + 1 /\ k \in 0..n
    OBVIOUS
  <2>2. d[k] = d[k - 1] + Tokens(cs[batch[k]]) /\ e[k] = e[k - 1] + Tokens(cs[more[k]])
    BY <1>2, <1>3, <1>4, <1>5, <2>1 DEF Summing
  <2>3. d[k - 1] = e[k - 1] /\ more[k] = batch[k]
    BY <1>3, <1>6, <1>8
  <2> QED BY <1>6, <2>1, <2>2, <2>3
<1>9. \A k \in 1..n : k - 1 \in same => k \in same
  BY <1>8
<1>10. 0..n \subseteq same
  BY ONLY n \in Nat, <1>7, <1>9, UptoInduction
<1>11. d[n] = e[n] /\ d[n] \in Nat
  BY <1>2, <1>4, <1>6, <1>10 DEF Summing
<1>12. e[n + 1] = e[n + 1 - 1] + Tokens(cs[more[n + 1]])
  BY <1>3, <1>5 DEF Summing
<1>13. n + 1 - 1 = n
  OBVIOUS
<1> QED BY <1>1, <1>2, <1>3, <1>4, <1>5, <1>11, <1>12, <1>13

\* A batch of one chunk.
LEMMA BatchTokensOne ==
    ASSUME NEW cs, \A j \in DOMAIN cs : Tokens(cs[j]) \in Nat, NEW i \in DOMAIN cs
    PROVE  BatchTokens(cs, <<i>>) = Tokens(cs[i])
<1>1. PICK d : Summing(d, cs, <<>>) /\ BatchTokens(cs, <<>>) = d[Len(<<>>)]
  <2>1. <<>> \in Seq(DOMAIN cs)
    OBVIOUS
  <2> QED BY <2>1, BatchTokensSteps
<1>2. BatchTokens(cs, <<>>) = 0
  BY <1>1 DEF Summing
<1>3. Append(<<>>, i) = <<i>> /\ <<>> \in Seq(DOMAIN cs)
  OBVIOUS
<1>4. BatchTokens(cs, Append(<<>>, i)) = BatchTokens(cs, <<>>) + Tokens(cs[i])
  BY <1>3, BatchTokensAppend
<1>5. Tokens(cs[i]) \in Nat
  OBVIOUS
<1> QED BY ONLY <1>2, <1>3, <1>4, <1>5

-----------------------------------------------------------------------------
(* The batches of _build_safe_batches.                                     *)

\* The finished batches and the open one, and one iteration of _build_safe_batches.
BatchAccs(cs) == [done : Seq(Seq(DOMAIN cs)), open : Seq(DOMAIN cs)]

BatchesStep(cs, acc, i) ==
    IF acc.open # <<>> /\ Exceeds(cs, acc.open, i)
      THEN [done |-> Append(acc.done, acc.open), open |-> <<i>>]
      ELSE [acc EXCEPT !.open = Append(@, i)]

\* The accumulator of _build_safe_batches along the loop.
Batching(d, cs) ==
    /\ d \in [0..Len(cs) -> BatchAccs(cs)] /\ d[0] = Nothing
    /\ \A i \in 1..Len(cs) : d[i] = BatchesStep(cs, d[i - 1], i)

LEMMA BatchesStepType ==
    ASSUME NEW cs, NEW acc \in BatchAccs(cs), NEW i \in DOMAIN cs
    PROVE  BatchesStep(cs, acc, i) \in BatchAccs(cs)
<1>1. Append(acc.done, acc.open) \in Seq(Seq(DOMAIN cs)) /\ <<i>> \in Seq(DOMAIN cs)
  BY DEF BatchAccs
<1>2. Append(acc.open, i) \in Seq(DOMAIN cs)
  BY DEF BatchAccs
<1> QED BY <1>1, <1>2 DEF BatchAccs, BatchesStep

LEMMA NothingBatched ==
    ASSUME NEW cs
    PROVE  Nothing \in BatchAccs(cs)
BY DEF BatchAccs, Nothing

\* Batches is the chain of the iterations, with the open batch at the end.
LEMMA BatchesSteps ==
    ASSUME NEW S, NEW cs \in Seq(S)
    PROVE  \E d : Batching(d, cs) /\ Batches(cs) = Append(d[Len(cs)].done, d[Len(cs)].open)
<1>1. PICK n \in Nat : n = Len(cs) /\ DOMAIN cs = 1..n
  BY LenProperties
<1>2. PICK V : V = BatchAccs(cs)
  OBVIOUS
<1>3. PICK op : op = [q \in (1..n) \X V |-> BatchesStep(cs, q[2], q[1])]
  OBVIOUS
<1>4. op \in [(1..n) \X V -> V]
  <2>1. ASSUME NEW i \in 1..n, NEW acc \in V PROVE BatchesStep(cs, acc, i) \in V
    BY <1>1, <1>2, BatchesStepType
  <2> QED BY <1>3, <2>1
<1>5. Nothing \in V
  BY <1>2, NothingBatched
<1>6. \A i \in 1..n, acc \in V : op[<<i, acc>>] = BatchesStep(cs, acc, i)
  BY <1>3
<1> DEFINE R(h) == h = [s \in SUBSET DOMAIN [i \in DOMAIN cs |-> i] |->
                          IF s = {} THEN Nothing
                          ELSE LET x == Max(s)
                               IN  BatchesStep(cs, h[s \ {x}], [i \in DOMAIN cs |-> i][x])]
<1>7. PICK g \in [SUBSET (1..n) -> V] : Unfolds(g, n, op, Nothing)
  BY <1>4, <1>5, FoldUnfolds
<1>8. R(g)
  <2>1. ASSUME NEW s \in SUBSET (1..n), s # {}
        PROVE  g[s] = BatchesStep(cs, g[s \ {Max(s)}], Max(s))
    BY <1>6, <1>7, <2>1 DEF Unfolds
  <2>2. \A s \in SUBSET (1..n) : s # {} => Max(s) \in 1..n
    BY <1>7 DEF Unfolds
  <2>3. g[{}] = Nothing
    BY <1>7 DEF Unfolds
  <2> QED BY <1>1, <2>1, <2>2, <2>3
<1>9. PICK h : h = CHOOSE x : R(x)
  OBVIOUS
<1>10. R(h)
  BY <1>8, <1>9
<1>11. Batches(cs) = Append(h[1..n].done, h[1..n].open)
  BY <1>1, <1>9 DEF Batches, FoldLeftDomain, FoldLeft, MapThenFoldSet, BatchesStep, Nothing
<1>12. Follows(h, n, op, Nothing, V)
  <2>0. h[{}] = Nothing
    BY <1>10
  <2> SUFFICES ASSUME NEW s \in SUBSET (1..n), s # {}, h[s \ {Max(s)}] \in V
               PROVE  h[s] = op[<<Max(s), h[s \ {Max(s)}]>>]
    BY <2>0 DEF Follows
  <2>1. Max(s) \in 1..n
    BY <1>7 DEF Unfolds
  <2>2. h[s] = BatchesStep(cs, h[s \ {Max(s)}], Max(s))
    BY <1>1, <1>10, <2>1
  <2> QED BY <1>6, <2>1, <2>2
<1> HIDE DEF R
<1>13. PICK d \in [0..n -> V] : Chain(d, n, op, Nothing) /\ EndsWith(d, n, h[1..n])
  BY <1>4, <1>5, <1>12, FoldChain
<1>14. ASSUME NEW i \in 1..n PROVE d[i] = BatchesStep(cs, d[i - 1], i)
  <2>1. i - 1 \in 0..n
    OBVIOUS
  <2> QED BY <1>6, <1>13, <2>1 DEF Chain
<1>15. Batching(d, cs)
  BY <1>1, <1>2, <1>13, <1>14 DEF Batching, Chain
<1> QED BY <1>1, <1>11, <1>13, <1>15 DEF EndsWith

\* Positions without a gap.
Gapless(s) == s # <<>> /\ \A j \in DOMAIN s : s[j] = s[1] + j - 1

\* The batches hold the positions from k + 1 to n, in their order.
Consecutive(bs, k, n) ==
    /\ \A b \in DOMAIN bs : Gapless(bs[b])
    /\ \A b \in DOMAIN bs : b + 1 \in DOMAIN bs => bs[b + 1][1] = bs[b][1] + Len(bs[b])
    /\ bs = <<>> => k = n
    /\ bs # <<>> => bs[1][1] = k + 1 /\ bs[Len(bs)][1] + Len(bs[Len(bs)]) = n + 1

\* A batch holds positions of chunks.
Positions == Seq(Nat)

\* A position is added as a batch of its own.
LEMMA ConsecutiveBegin ==
    ASSUME NEW bs \in Seq(Positions), NEW k \in Nat, NEW n \in Nat, Consecutive(bs, k, n)
    PROVE  Consecutive(Append(bs, <<n + 1>>), k, n + 1)
<1>1. PICK m \in Nat : m = Len(bs) /\ DOMAIN bs = 1..m
  BY LenProperties
<1>2. PICK new : new = Append(bs, <<n + 1>>)
  OBVIOUS
<1>3. /\ new \in Seq(Positions) /\ Len(new) = m + 1 /\ DOMAIN new = 1..(m + 1)
      /\ new[m + 1] = <<n + 1>> /\ \A b \in 1..m : new[b] = bs[b]
  BY <1>1, <1>2 DEF Positions
<1>4. /\ new[m + 1] # <<>> /\ new[m + 1][1] = n + 1 /\ Len(new[m + 1]) = 1
      /\ \A j \in DOMAIN new[m + 1] : new[m + 1][j] = new[m + 1][1] + j - 1
  BY <1>3
<1>5. \A b \in DOMAIN new : Gapless(new[b])
  <2>1. Gapless(new[m + 1])
    BY <1>4 DEF Gapless
  <2> QED BY <1>1, <1>3, <2>1 DEF Consecutive
<1>6. ASSUME NEW b \in DOMAIN new, b + 1 \in DOMAIN new
      PROVE  new[b + 1][1] = new[b][1] + Len(new[b])
  <2>1. CASE b = m
    <3>1. bs # <<>> /\ m > 0
      BY <1>1, <1>3, <1>6, <2>1
    <3>2. bs[m][1] + Len(bs[m]) = n + 1
      BY <1>1, <3>1 DEF Consecutive
    <3> QED BY <1>3, <1>4, <1>6, <2>1, <3>1, <3>2
  <2>2. CASE b # m
    <3>1. b \in 1..m /\ b + 1 \in 1..m
      BY <1>3, <1>6, <2>2
    <3>2. bs[b + 1][1] = bs[b][1] + Len(bs[b])
      BY <1>1, <3>1 DEF Consecutive
    <3> QED BY <1>3, <3>1, <3>2
  <2> QED BY <2>1, <2>2
<1>7. new[1][1] = k + 1
  <2>1. CASE m = 0
    <3>1. k = n
      BY <1>1, <2>1 DEF Consecutive
    <3> QED BY <1>4, <2>1, <3>1
  <2>2. CASE m # 0
    <3>1. bs # <<>> /\ 1 \in 1..m
      BY <1>1, <2>2
    <3> QED BY <1>3, <3>1 DEF Consecutive
  <2> QED BY <2>1, <2>2
<1>8. new[Len(new)][1] + Len(new[Len(new)]) = (n + 1) + 1 /\ new # <<>>
  BY <1>3, <1>4
<1>9. Consecutive(new, k, n + 1)
  BY <1>5, <1>6, <1>7, <1>8 DEF Consecutive
<1> QED BY <1>2, <1>9

\* A position is added to the last batch.
LEMMA ConsecutiveExtend ==
    ASSUME NEW bs \in Seq(Positions), NEW open \in Positions, open # <<>>,
           NEW k \in Nat, NEW n \in Nat, Consecutive(Append(bs, open), k, n)
    PROVE  Consecutive(Append(bs, Append(open, n + 1)), k, n + 1)
<1>1. PICK m \in Nat : m = Len(bs) /\ DOMAIN bs = 1..m
  BY LenProperties
<1>2. PICK longer : longer = Append(open, n + 1)
  OBVIOUS
<1>3. PICK l \in Nat : l = Len(open) /\ DOMAIN open = 1..l /\ l > 0
  BY LenProperties, EmptySeq DEF Positions
<1>4. /\ longer \in Positions /\ Len(longer) = l + 1 /\ DOMAIN longer = 1..(l + 1)
      /\ longer[l + 1] = n + 1 /\ \A j \in 1..l : longer[j] = open[j]
  BY <1>2, <1>3 DEF Positions
<1>5. PICK old : old = Append(bs, open)
  OBVIOUS
<1>6. PICK new : new = Append(bs, longer)
  OBVIOUS
<1>7. /\ Len(old) = m + 1 /\ DOMAIN old = 1..(m + 1) /\ old[m + 1] = open
      /\ Len(new) = m + 1 /\ DOMAIN new = 1..(m + 1) /\ new[m + 1] = longer
      /\ \A b \in 1..m : new[b] = bs[b] /\ old[b] = bs[b]
      /\ old # <<>> /\ new # <<>>
  BY <1>1, <1>4, <1>5, <1>6
<1>8. Consecutive(old, k, n)
  BY <1>5
<1>9. open[1] + l = n + 1 /\ open[1] \in Nat /\ \A j \in 1..l : open[j] = open[1] + j - 1
  <2>1. Gapless(open) /\ old[Len(old)][1] + Len(old[Len(old)]) = n + 1
    BY <1>7, <1>8 DEF Consecutive
  <2>2. 1 \in 1..l /\ open[1] \in Nat
    BY <1>3 DEF Positions
  <2> QED BY <1>3, <1>7, <2>1, <2>2 DEF Gapless
<1>10. longer # <<>> /\ longer[1] = open[1] /\ \A j \in 1..(l + 1) : longer[j] = longer[1] + j - 1
  BY <1>3, <1>4, <1>9
<1>11. ASSUME NEW b \in DOMAIN new
       PROVE  Gapless(new[b])
  <2>1. CASE b = m + 1
    BY <1>4, <1>7, <1>10, <2>1 DEF Gapless
  <2>2. CASE b # m + 1
    <3>1. b \in 1..m /\ b \in DOMAIN old /\ new[b] = old[b]
      BY <1>7, <2>2
    <3> QED BY <1>8, <3>1 DEF Consecutive
  <2> QED BY <2>1, <2>2
<1>12. ASSUME NEW b \in DOMAIN new, b + 1 \in DOMAIN new
       PROVE  new[b + 1][1] = new[b][1] + Len(new[b])
  <2>1. b \in 1..m /\ new[b] = old[b] /\ b \in DOMAIN old /\ b + 1 \in DOMAIN old
    BY <1>7, <1>12
  <2>2. new[b + 1][1] = old[b + 1][1]
    BY <1>7, <1>10, <2>1
  <2> QED BY <1>8, <2>1, <2>2 DEF Consecutive
<1>13. new[1][1] = k + 1
  <2>1. old[1][1] = k + 1
    BY <1>7, <1>8 DEF Consecutive
  <2> QED BY <1>7, <1>10, <2>1
<1>14. new[Len(new)][1] + Len(new[Len(new)]) = (n + 1) + 1
  BY <1>4, <1>7, <1>9, <1>10
<1>15. Consecutive(new, k, n + 1)
  BY <1>7, <1>11, <1>12, <1>13, <1>14 DEF Consecutive
<1> QED BY <1>2, <1>6, <1>15

\* The first batch is sent.
LEMMA ConsecutiveTail ==
    ASSUME NEW bs \in Seq(Positions), bs # <<>>, NEW k \in Nat, NEW n \in Nat, Consecutive(bs, k, n)
    PROVE  /\ Head(bs) \in Positions /\ Head(bs) # <<>>
           /\ \A j \in DOMAIN Head(bs) : Head(bs)[j] = k + j
           /\ k + Len(Head(bs)) <= n
           /\ Tail(bs) \in Seq(Positions)
           /\ Consecutive(Tail(bs), k + Len(Head(bs)), n)
<1>1. PICK m \in Nat : m = Len(bs) /\ DOMAIN bs = 1..m /\ m > 0
  BY LenProperties, EmptySeq
<1>2. PICK first : first = Head(bs)
  OBVIOUS
<1>3. first = bs[1] /\ first \in Positions /\ first # <<>> /\ 1 \in 1..m
  BY <1>1, <1>2 DEF Consecutive, Gapless
<1>4. PICK l \in Nat : l = Len(first) /\ DOMAIN first = 1..l /\ l > 0
  BY <1>3, LenProperties, EmptySeq DEF Positions
<1>5. \A j \in DOMAIN first : first[j] = k + j
  <2>1. Gapless(first) /\ first[1] = k + 1
    BY <1>1, <1>3 DEF Consecutive
  <2> QED BY <1>4, <2>1 DEF Gapless
<1>6. PICK rest : rest = Tail(bs)
  OBVIOUS
<1>7. /\ rest \in Seq(Positions) /\ Len(rest) = m - 1 /\ DOMAIN rest = 1..(m - 1)
      /\ \A b \in 1..(m - 1) : rest[b] = bs[b + 1]
  BY <1>1, <1>6
<1>8. ASSUME NEW b \in DOMAIN rest
      PROVE  Gapless(rest[b])
  <2>1. b + 1 \in DOMAIN bs /\ rest[b] = bs[b + 1]
    BY <1>1, <1>7, <1>8
  <2> QED BY <2>1 DEF Consecutive
<1>9. ASSUME NEW b \in DOMAIN rest, b + 1 \in DOMAIN rest
      PROVE  rest[b + 1][1] = rest[b][1] + Len(rest[b])
  <2>1. b + 1 \in DOMAIN bs /\ (b + 1) + 1 \in DOMAIN bs
    BY <1>1, <1>7, <1>9
  <2>2. bs[(b + 1) + 1][1] = bs[b + 1][1] + Len(bs[b + 1])
    BY <2>1 DEF Consecutive
  <2> QED BY <1>7, <1>9, <2>2
<1>10. bs[m][1] + Len(bs[m]) = n + 1 /\ first[1] = k + 1
  BY <1>1, <1>3 DEF Consecutive
<1>11. CASE m = 1
  <2>1. rest = <<>> /\ k + l = n
    BY <1>3, <1>4, <1>7, <1>10, <1>11
  <2>2. Consecutive(rest, k + l, n)
    BY <1>7, <1>8, <1>9, <2>1 DEF Consecutive
  <2> QED BY <1>2, <1>3, <1>4, <1>5, <1>6, <1>7, <2>1, <2>2
<1>12. CASE m # 1
  <2>1. 1 \in DOMAIN bs /\ 1 + 1 \in DOMAIN bs
    BY <1>1, <1>12
  <2>2. bs[2][1] = first[1] + l
    BY <1>3, <1>4, <2>1 DEF Consecutive
  <2>3. rest # <<>> /\ rest[1] = bs[2] /\ rest[Len(rest)] = bs[m] /\ Len(rest) \in DOMAIN rest
    BY <1>1, <1>7, <1>12
  <2>4. rest[1][1] = (k + l) + 1 /\ rest[Len(rest)][1] + Len(rest[Len(rest)]) = n + 1
    BY <1>10, <2>2, <2>3
  <2>5. Consecutive(rest, k + l, n)
    BY <1>8, <1>9, <2>3, <2>4 DEF Consecutive
  <2> DEFINE ends == {b \in 0..(m - 1) : b = 0 \/ k + l <= rest[b][1]}
  <2>6. ASSUME NEW b \in 1..(m - 1), b - 1 \in ends PROVE b \in ends
    <3>1. CASE b = 1
      BY <2>4, <3>1
    <3>2. CASE b # 1
      <4>1. b - 1 \in DOMAIN rest /\ (b - 1) + 1 = b /\ b \in DOMAIN rest
        BY <1>7, <3>2
      <4>2. rest[b][1] = rest[b - 1][1] + Len(rest[b - 1])
        BY <1>9, <4>1
      <4>3. rest[b - 1] \in Positions /\ rest[b - 1] # <<>>
        BY <1>7, <1>8, <4>1 DEF Gapless
      <4>4. rest[b - 1][1] \in Nat /\ Len(rest[b - 1]) \in Nat
        BY <4>3 DEF Positions
      <4> QED BY <2>6, <3>2, <4>2, <4>4
    <3> QED BY <3>1, <3>2
  <2>7. 0..(m - 1) \subseteq ends
    <3>1. 0 \in ends /\ m - 1 \in Nat
      BY <1>1
    <3>2. \A b \in 1..(m - 1) : b - 1 \in ends => b \in ends
      BY <2>6
    <3> HIDE DEF ends
    <3> QED BY ONLY <3>1, <3>2, UptoInduction
  <2>8. k + l <= rest[m - 1][1]
    <3>1. m - 1 \in ends
      BY <1>1, <2>7
    <3> QED BY <1>1, <1>12, <3>1
  <2>9. rest[m - 1] \in Positions /\ rest[m - 1] # <<>>
    <3>1. m - 1 \in DOMAIN rest
      BY <1>1, <1>7, <1>12
    <3> QED BY <1>7, <1>8, <3>1 DEF Gapless
  <2>10. Len(rest[m - 1]) \in Nat /\ Len(rest[m - 1]) > 0 /\ rest[m - 1][1] \in Nat
    BY <2>9, EmptySeq DEF Positions
  <2>11. k + l <= n
    BY <1>7, <2>4, <2>8, <2>10
  <2> QED BY <1>2, <1>3, <1>4, <1>5, <1>6, <1>7, <2>5, <2>11
<1> QED BY <1>11, <1>12

\* No request is empty or above a limit.
Within(cs, batch) == Len(batch) \in 1..MaxInputs /\ BatchTokens(cs, batch) <= MaxBatchTokens

\* Every input was validated on its own.
Valid(cs) == \A j \in DOMAIN cs : Tokens(cs[j]) \in Nat /\ Tokens(cs[j]) <= MaxInputTokens

\* So is every batch.
AllWithin(cs, bs) == \A b \in DOMAIN bs : Within(cs, bs[b])

\* After i chunks: the finished batches and the open one hold the first i positions.
Batched(cs, acc, i) ==
    /\ acc.open # <<>>
    /\ Consecutive(Append(acc.done, acc.open), 0, i)
    /\ AllWithin(cs, Append(acc.done, acc.open))

\* One more batch within the limits.
LEMMA AllWithinAppend ==
    ASSUME NEW cs, NEW S, NEW bs \in Seq(S), NEW batch \in S
    PROVE  AllWithin(cs, Append(bs, batch)) <=> AllWithin(cs, bs) /\ Within(cs, batch)
<1>1. PICK m \in Nat : m = Len(bs) /\ DOMAIN bs = 1..m
  BY LenProperties
<1>2. PICK new : new = Append(bs, batch)
  OBVIOUS
<1>3. DOMAIN new = 1..(m + 1) /\ new[m + 1] = batch /\ \A b \in 1..m : new[b] = bs[b]
  BY <1>1, <1>2
<1>4. AllWithin(cs, new) <=> (\A b \in 1..m : Within(cs, bs[b])) /\ Within(cs, batch)
  BY <1>3 DEF AllWithin
<1> QED BY <1>1, <1>2, <1>4 DEF AllWithin

\* A valid input makes a request by itself.
LEMMA OneChunkWithin ==
    ASSUME NEW cs, Valid(cs), NEW i \in DOMAIN cs
    PROVE  Within(cs, <<i>>)
<1>1. BatchTokens(cs, <<i>>) = Tokens(cs[i])
  BY BatchTokensOne DEF Valid
<1>2. Tokens(cs[i]) \in Nat /\ Tokens(cs[i]) <= MaxInputTokens
  BY DEF Valid
<1>3. BatchTokens(cs, <<i>>) <= MaxBatchTokens
  BY <1>1, <1>2, ChunkingAssumption
<1>4. Len(<<i>>) = 1 /\ 1 \in 1..MaxInputs
  BY ChunkingAssumption
<1> QED BY <1>3, <1>4 DEF Within

\* The first chunk begins the first batch.
LEMMA BatchesFirst ==
    ASSUME NEW cs, Valid(cs), 1 \in DOMAIN cs
    PROVE  Batched(cs, BatchesStep(cs, Nothing, 1), 1)
<1>1. BatchesStep(cs, Nothing, 1) = [done |-> <<>>, open |-> <<1>>]
  BY DEF BatchesStep, Nothing
<1>2. Consecutive(<<>>, 0, 0)
  BY DEF Consecutive
<1>3. Consecutive(Append(<<>>, <<0 + 1>>), 0, 0 + 1)
  <2>1. <<>> \in Seq(Positions)
    OBVIOUS
  <2> QED BY <1>2, <2>1, ConsecutiveBegin
<1>4. AllWithin(cs, Append(<<>>, <<1>>))
  <2>1. AllWithin(cs, <<>>) /\ Within(cs, <<1>>)
    BY OneChunkWithin DEF AllWithin
  <2>2. <<>> \in Seq(Seq(Nat)) /\ <<1>> \in Seq(Nat)
    OBVIOUS
  <2> QED BY <2>1, <2>2, AllWithinAppend
<1>5. 0 + 1 = 1 /\ <<1>> # <<>>
  OBVIOUS
<1>6. Consecutive(Append(<<>>, <<1>>), 0, 1)
  BY <1>3, <1>5
<1>7. PICK acc : acc = BatchesStep(cs, Nothing, 1)
  OBVIOUS
<1>8. acc.done = <<>> /\ acc.open = <<1>>
  BY <1>1, <1>7
<1> QED BY <1>4, <1>5, <1>6, <1>7, <1>8 DEF Batched

\* The next position joins the open batch or begins one.
LEMMA BatchesNext ==
    ASSUME NEW cs, Valid(cs), NEW n \in Nat, DOMAIN cs = 1..n,
           NEW i \in Nat, i + 1 \in DOMAIN cs,
           NEW acc \in BatchAccs(cs), Batched(cs, acc, i)
    PROVE  Batched(cs, BatchesStep(cs, acc, i + 1), i + 1)
<1>1. PICK done, open : done = acc.done /\ open = acc.open
  OBVIOUS
<1>2. done \in Seq(Seq(DOMAIN cs)) /\ open \in Seq(DOMAIN cs) /\ open # <<>>
  BY <1>1 DEF BatchAccs, Batched
<1>3. Consecutive(Append(done, open), 0, i) /\ AllWithin(cs, Append(done, open))
  BY <1>1 DEF Batched
<1>4. done \in Seq(Positions) /\ open \in Positions
  <2>1. DOMAIN cs \subseteq Nat
    OBVIOUS
  <2>2. Seq(DOMAIN cs) \subseteq Positions
    BY <2>1, SeqMonotonic DEF Positions
  <2> QED BY <1>2, <2>2, SeqMonotonic
<1>5. AllWithin(cs, done) /\ Within(cs, open)
  BY <1>2, <1>3, AllWithinAppend
<1>6. CASE Exceeds(cs, acc.open, i + 1)
  <2>1. PICK bs : bs = Append(done, open)
    OBVIOUS
  <2>2. bs \in Seq(Positions) /\ bs \in Seq(Seq(DOMAIN cs))
    BY <1>2, <1>4, <2>1
  <2>3. BatchesStep(cs, acc, i + 1) = [done |-> bs, open |-> <<i + 1>>]
    BY <1>1, <1>2, <1>6, <2>1 DEF BatchesStep
  <2>4. Consecutive(Append(bs, <<i + 1>>), 0, i + 1)
    BY <1>3, <2>1, <2>2, ConsecutiveBegin
  <2>5. AllWithin(cs, Append(bs, <<i + 1>>))
    <3>1. <<i + 1>> \in Seq(DOMAIN cs) /\ Within(cs, <<i + 1>>)
      BY OneChunkWithin
    <3> QED BY <1>3, <2>1, <2>2, <3>1, AllWithinAppend
  <2>6. <<i + 1>> # <<>>
    OBVIOUS
  <2>7. PICK new : new = BatchesStep(cs, acc, i + 1)
    OBVIOUS
  <2>8. new.done = bs /\ new.open = <<i + 1>>
    BY <2>3, <2>7
  <2> QED BY <2>4, <2>5, <2>6, <2>7, <2>8 DEF Batched
<1>7. CASE ~Exceeds(cs, acc.open, i + 1)
  <2>1. PICK more : more = Append(open, i + 1)
    OBVIOUS
  <2>2. BatchesStep(cs, acc, i + 1) = [acc EXCEPT !.open = more]
    BY <1>1, <1>7, <2>1 DEF BatchesStep
  <2>3. BatchesStep(cs, acc, i + 1).done = done /\ BatchesStep(cs, acc, i + 1).open = more
    BY <1>1, <2>2 DEF BatchAccs
  <2>4. Consecutive(Append(done, more), 0, i + 1)
    BY <1>2, <1>3, <1>4, <2>1, ConsecutiveExtend
  <2>5. BatchTokens(cs, more) = BatchTokens(cs, open) + Tokens(cs[i + 1])
    BY <1>2, <2>1, BatchTokensAppend DEF Valid
  <2>6. Len(more) = Len(open) + 1 /\ Len(open) \in Nat /\ more # <<>> /\ more \in Seq(DOMAIN cs)
    <3>1. Len(open) \in Nat
      BY <1>2, LenProperties
    <3> QED BY <1>2, <2>1, <3>1, AppendProperties
  <2>7. Len(open) < MaxInputs /\ BatchTokens(cs, open) + Tokens(cs[i + 1]) <= MaxBatchTokens
    <3>1. BatchTokens(cs, open) \in Nat /\ Tokens(cs[i + 1]) \in Nat
      BY <1>2, BatchTokensAppend DEF Valid
    <3>2. MaxBatchTokens \in Nat /\ MaxInputs \in Nat
      BY ChunkingAssumption
    <3>3. ~(Len(open) >= MaxInputs) /\ ~(BatchTokens(cs, open) + Tokens(cs[i + 1]) > MaxBatchTokens)
      BY <1>1, <1>7 DEF Exceeds
    <3> QED BY ONLY <2>6, <3>1, <3>2, <3>3
  <2>8. Within(cs, more)
    BY <2>5, <2>6, <2>7, ChunkingAssumption DEF Within
  <2>9. AllWithin(cs, Append(done, more))
    BY <1>2, <1>5, <2>6, <2>8, AllWithinAppend
  <2> QED BY <2>3, <2>4, <2>6, <2>9 DEF Batched
<1> QED BY <1>6, <1>7

\* _build_safe_batches keeps the order, and the limits.
LEMMA BatchesGood ==
    ASSUME NEW S, NEW cs \in Seq(S), cs # <<>>, Valid(cs)
    PROVE  /\ Batches(cs) \in Seq(Positions) /\ Batches(cs) # <<>>
           /\ Consecutive(Batches(cs), 0, Len(cs))
           /\ AllWithin(cs, Batches(cs))
           /\ \A b \in DOMAIN Batches(cs) : Batches(cs)[b] \in Seq(DOMAIN cs)
<1>1. PICK n \in Nat : n = Len(cs) /\ DOMAIN cs = 1..n /\ n > 0
  BY LenProperties, EmptySeq
<1>2. PICK d : Batching(d, cs) /\ Batches(cs) = Append(d[Len(cs)].done, d[Len(cs)].open)
  BY BatchesSteps
<1>3. \A i \in 0..n : d[i] \in BatchAccs(cs)
  BY <1>1, <1>2 DEF Batching
<1>4. PICK good : good = {i \in 0..n : i = 0 \/ Batched(cs, d[i], i)}
  OBVIOUS
<1>5. ASSUME NEW i \in 1..n, i - 1 \in good PROVE i \in good
  <2>1. d[i] = BatchesStep(cs, d[i - 1], i)
    BY <1>1, <1>2 DEF Batching
  <2>2. CASE i = 1
    <3>1. d[1] = BatchesStep(cs, Nothing, 1)
      BY <1>2, <2>1, <2>2 DEF Batching
    <3> QED BY <1>1, <1>4, <2>2, <3>1, BatchesFirst
  <2>3. CASE i # 1
    <3>1. PICK j \in Nat : j = i - 1
      OBVIOUS
    <3>2. j + 1 = i /\ j \in 0..n /\ i \in 0..n /\ j # 0
      BY <2>3, <3>1
    <3>3. Batched(cs, d[j], j) /\ d[j] \in BatchAccs(cs)
      BY <1>3, <1>4, <1>5, <3>1, <3>2
    <3>4. Batched(cs, BatchesStep(cs, d[j], j + 1), j + 1)
      BY <1>1, <3>2, <3>3, BatchesNext
    <3> QED BY <1>4, <2>1, <3>1, <3>2, <3>4
  <2> QED BY <2>2, <2>3
<1>6. 0..n \subseteq good
  <2>1. 0 \in good
    BY <1>4
  <2>2. \A i \in 1..n : i - 1 \in good => i \in good
    BY <1>5
  <2> QED BY ONLY <2>1, <2>2, n \in Nat, UptoInduction
<1>7. Batched(cs, d[n], n) /\ d[n] \in BatchAccs(cs)
  BY <1>1, <1>3, <1>4, <1>6
<1>8. Batches(cs) \in Seq(Seq(DOMAIN cs)) /\ Batches(cs) # <<>>
  <2>1. d[n].done \in Seq(Seq(DOMAIN cs)) /\ d[n].open \in Seq(DOMAIN cs)
    BY <1>7 DEF BatchAccs
  <2> QED BY <1>1, <1>2, <2>1, AppendProperties
<1>9. Batches(cs) \in Seq(Positions)
  <2>1. DOMAIN cs \subseteq Nat
    BY <1>1
  <2>2. Seq(DOMAIN cs) \subseteq Positions
    BY <2>1, SeqMonotonic DEF Positions
  <2>3. PICK bs : bs = Batches(cs)
    OBVIOUS
  <2>4. bs \in Seq(Seq(DOMAIN cs))
    BY <1>8, <2>3
  <2>5. bs \in Seq(Positions)
    BY ONLY <2>2, <2>4, SeqMonotonic
  <2> QED BY <2>3, <2>5
<1>10. PICK bs : bs = Batches(cs)
  OBVIOUS
<1>11. \A b \in DOMAIN bs : bs[b] \in Seq(DOMAIN cs)
  BY <1>8, <1>10
<1> QED BY <1>1, <1>2, <1>7, <1>8, <1>9, <1>10, <1>11 DEF Batched
-----------------------------------------------------------------------------
(* The response to a request.                                              *)

\* The positions of m things in their own order are the numbers up to m.
LEMMA AscendingIsIdentity ==
    ASSUME NEW m \in Nat, NEW f \in [1..m -> 1..m], \A i, j \in 1..m : i < j => f[i] < f[j]
    PROVE  \A i \in 1..m : f[i] = i
<1>1. PICK low : low = {i \in 0..m : i = 0 \/ i <= f[i]}
  OBVIOUS
<1>2. ASSUME NEW i \in 1..m, i - 1 \in low PROVE i \in low
  <2>1. CASE i = 1
    BY <1>1, <2>1
  <2>2. CASE i # 1
    <3>1. i - 1 \in 1..m /\ i - 1 < i
      BY <2>2
    <3>2. f[i - 1] < f[i] /\ f[i] \in Nat /\ f[i - 1] \in Nat
      BY <3>1
    <3>3. i - 1 <= f[i - 1]
      BY <1>1, <1>2, <3>1
    <3> QED BY <1>1, <3>2, <3>3
  <2> QED BY <2>1, <2>2
<1>3. 0..m \subseteq low
  <2>1. 0 \in low
    BY <1>1
  <2>2. \A i \in 1..m : i - 1 \in low => i \in low
    BY <1>2
  <2> QED BY ONLY <2>1, <2>2, m \in Nat, UptoInduction
<1>4. PICK high : high = {i \in 0..m : i = m \/ f[m - i] <= m - i}
  OBVIOUS
<1>5. ASSUME NEW i \in 1..m, i - 1 \in high PROVE i \in high
  <2>1. CASE i = m
    BY <1>4, <2>1
  <2>2. CASE i # m
    <3>1. PICK j \in Nat : j = m - i
      OBVIOUS
    <3>2. j \in 1..m /\ j + 1 \in 1..m /\ m - (i - 1) = j + 1 /\ i - 1 # m /\ j < j + 1 /\ i \in 0..m
      BY <2>2, <3>1
    <3>3. f[j + 1] <= j + 1
      BY <1>4, <1>5, <3>2
    <3>4. f[j] < f[j + 1] /\ f[j] \in Nat /\ f[j + 1] \in Nat
      BY <3>2
    <3>5. f[j] <= j
      BY <3>1, <3>3, <3>4
    <3> QED BY <1>4, <3>1, <3>2, <3>5
  <2> QED BY <2>1, <2>2
<1>6. 0..m \subseteq high
  <2>1. 0 \in high
    <3>1. CASE m = 0
      BY <1>4, <3>1
    <3>2. CASE m # 0
      <4>1. m \in 1..m /\ m - 0 = m
        BY <3>2
      <4>2. f[m] <= m
        BY <4>1
      <4> QED BY <1>4, <4>1, <4>2
    <3> QED BY <3>1, <3>2
  <2>2. \A i \in 1..m : i - 1 \in high => i \in high
    BY <1>5
  <2> QED BY ONLY <2>1, <2>2, m \in Nat, UptoInduction
<1>7. ASSUME NEW i \in 1..m PROVE f[i] = i
  <2>1. i \in low /\ m - i \in high /\ m - i # m /\ m - (m - i) = i
    BY <1>3, <1>6
  <2>2. i <= f[i] /\ f[i] <= i
    BY <1>1, <1>4, <2>1
  <2>3. f[i] \in Nat
    OBVIOUS
  <2> QED BY <2>2, <2>3
<1> QED BY <1>7

\* A response to a request.
Response(batch, order, m) == [k \in 1..m |-> [index |-> order[k], embedding |-> batch[order[k]]]]

\* A response in any order, sorted by the index, is in the order of the request.
LEMMA OrderedData ==
    ASSUME NEW m \in Nat, NEW batch, DOMAIN batch = 1..m, NEW order \in Bijection(1..m, 1..m),
           NEW data, data = Response(batch, order, m)
    PROVE  DOMAIN Ordered(data) = 1..m /\ \A k \in 1..m : Ordered(data)[k].embedding = batch[k]
<1> USE DEF Response
<1>1. order \in [1..m -> 1..m] /\ \A i \in 1..m : \E k \in 1..m : order[k] = i
  BY DEF Bijection, Injection, Surjection
<1>2. PICK sent : sent = [k \in 1..m |-> [index |-> k, embedding |-> batch[k]]]
  OBVIOUS
<1>3. DOMAIN data = 1..m /\ ToSet(data) = {sent[k] : k \in 1..m}
  <2>1. ASSUME NEW k \in 1..m PROVE data[k] \in {sent[i] : i \in 1..m}
    <3>1. order[k] \in 1..m /\ data[k] = sent[order[k]]
      BY <1>1, <1>2
    <3> QED BY <3>1
  <2>2. ASSUME NEW i \in 1..m PROVE sent[i] \in {data[k] : k \in 1..m}
    <3>1. PICK k \in 1..m : order[k] = i
      BY <1>1
    <3>2. data[k] = sent[i]
      BY <1>2, <3>1
    <3> QED BY <3>2
  <2>3. DOMAIN data = 1..m
    OBVIOUS
  <2>4. ToSet(data) = {data[k] : k \in 1..m}
    BY <2>3 DEF ToSet
  <2> HIDE DEF ToSet
  <2>5. {data[k] : k \in 1..m} \subseteq {sent[i] : i \in 1..m}
    BY <2>1
  <2>6. {sent[i] : i \in 1..m} \subseteq {data[k] : k \in 1..m}
    BY <2>2
  <2> QED BY <2>3, <2>4, <2>5, <2>6
<1> DEFINE Sorted(d) == \A i, j \in DOMAIN d : i < j => d[i].index < d[j].index
<1>4. sent \in [1..m -> ToSet(data)] /\ Sorted(sent)
  BY <1>2, <1>3
<1>5. PICK d : d = Ordered(data)
  OBVIOUS
<1>6. d = CHOOSE x \in [1..m -> ToSet(data)] : Sorted(x)
  BY <1>3, <1>5 DEF Ordered
<1> HIDE DEF Sorted
<1> HIDE DEF Response
<1>7. d \in [1..m -> ToSet(data)] /\ Sorted(d)
  BY <1>4, <1>6
<1>8. \A k \in 1..m : \E i \in 1..m : d[k] = sent[i]
  BY <1>3, <1>7
<1>9. \A i \in 1..m : sent[i].index = i /\ sent[i].embedding = batch[i]
  BY <1>2
<1>10. PICK f : f = [k \in 1..m |-> d[k].index]
  OBVIOUS
<1>11. f \in [1..m -> 1..m] /\ \A k \in 1..m : f[k] \in 1..m /\ d[k] = sent[f[k]]
  <2>1. ASSUME NEW k \in 1..m PROVE f[k] \in 1..m /\ d[k] = sent[f[k]]
    <3>1. PICK i \in 1..m : d[k] = sent[i]
      BY <1>8
    <3>2. f[k] = i
      BY <1>9, <1>10, <3>1
    <3> QED BY <3>1, <3>2
  <2> QED BY <1>10, <2>1
<1>12. \A i, j \in 1..m : i < j => f[i] < f[j]
  BY <1>7, <1>10 DEF Sorted
<1>13. \A k \in 1..m : f[k] = k
  BY <1>11, <1>12, AscendingIsIdentity
<1> QED BY <1>5, <1>7, <1>9, <1>11, <1>13
-----------------------------------------------------------------------------
(* What is made of consecutive pieces is all that packing makes.           *)

\* What the loop that packs has got after i pieces, of which the last make the candidate: finished
\* chunks of G.
PackedUpto(acc, ps, header, G, i) ==
    /\ acc.done \in Seq(G)
    /\ \E a \in 1..(i + 1) : acc.open = SubSeq(ps, a, i)
    /\ acc.open # <<>> => Fits(Chunk(header, acc.open))

\* Chunks of consecutive pieces are of G, if they are within the limit.
Admits(G, ps, header) ==
    \A a, b \in 1..Len(ps) :
        a <= b /\ Fits(Chunk(header, SubSeq(ps, a, b))) => Chunk(header, SubSeq(ps, a, b)) \in G

\* The finished candidate is made of consecutive pieces too.
LEMMA FlushIn ==
    ASSUME NEW ps \in Seq(Texty), NEW header, NEW G, Admits(G, ps, header),
           NEW i \in 0..Len(ps), NEW acc, PackedUpto(acc, ps, header, G, i)
    PROVE  Flush(acc, header) \in Seq(G)
<1>1. CASE acc.open = <<>>
  BY <1>1 DEF Flush, PackedUpto
<1>2. CASE acc.open # <<>>
  <2>1. PICK a \in 1..(i + 1) : acc.open = SubSeq(ps, a, i)
    BY DEF PackedUpto
  <2>2. a # i + 1
    <3> SUFFICES ASSUME a = i + 1 PROVE FALSE
      OBVIOUS
    <3>1. SubSeq(ps, i + 1, i) = <<>>
      BY SubSeqEmpty
    <3> QED BY <1>2, <2>1, <3>1
  <2>3. a \in 1..Len(ps) /\ i \in 1..Len(ps) /\ a <= i
    BY <2>2
  <2>4. Chunk(header, acc.open) \in G
    BY <1>2, <2>1, <2>3 DEF Admits, PackedUpto
  <2>5. acc.done \in Seq(G)
    BY DEF PackedUpto
  <2>6. Append(acc.done, Chunk(header, acc.open)) \in Seq(G)
    BY <2>4, <2>5, AppendProperties
  <2> QED BY <1>2, <2>6 DEF Flush
<1> QED BY <1>1, <1>2

\* An iteration keeps to chunks of consecutive pieces.
LEMMA PackStepIn ==
    ASSUME NEW ps \in Seq(Texty), NEW header \in Seq(Texty), NEW G, Admits(G, ps, header),
           NEW split \in [DOMAIN ps -> Seq(G)],
           NEW i \in Nat, i + 1 \in 1..Len(ps),
           NEW acc \in Accs(Texty), PackedUpto(acc, ps, header, G, i)
    PROVE  PackedUpto(PackStep(ps, header, split, acc, i + 1), ps, header, G, i + 1)
<1>1. PICK a \in 1..(i + 1) : acc.open = SubSeq(ps, a, i)
  BY DEF PackedUpto
<1>2. PICK new : new = PackStep(ps, header, split, acc, i + 1)
  OBVIOUS
<1>3. Flush(acc, header) \in Seq(G)
  <2>1. i \in 0..Len(ps)
    OBVIOUS
  <2> QED BY <2>1, FlushIn
<1>4. split[i + 1] \in Seq(G)
  OBVIOUS
<1>5. CASE Fits(Chunk(header, Append(acc.open, ps[i + 1])))
  <2>1. new.done = acc.done /\ new.open = Append(acc.open, ps[i + 1])
    <3>1. new = [acc EXCEPT !.open = Append(@, ps[i + 1])]
      BY <1>2, <1>5 DEF PackStep
    <3> QED BY <3>1 DEF Accs
  <2>2. new.open = SubSeq(ps, a, i + 1)
    BY <1>1, <2>1, PartGrows
  <2>3. a \in 1..((i + 1) + 1)
    OBVIOUS
  <2> QED BY <1>2, <1>5, <2>1, <2>2, <2>3 DEF PackedUpto
<1>6. CASE ~Fits(Chunk(header, Append(acc.open, ps[i + 1]))) /\ Fits(Chunk(header, <<ps[i + 1]>>))
  <2>1. new.done = Flush(acc, header) /\ new.open = <<ps[i + 1]>>
    BY <1>2, <1>6 DEF PackStep, Begin
  <2>2. new.open = SubSeq(ps, i + 1, i + 1)
    BY <1>1, <2>1, PartGrows
  <2>3. i + 1 \in 1..((i + 1) + 1)
    OBVIOUS
  <2> QED BY <1>2, <1>3, <1>6, <2>1, <2>2, <2>3 DEF PackedUpto
<1>7. CASE ~Fits(Chunk(header, Append(acc.open, ps[i + 1]))) /\ ~Fits(Chunk(header, <<ps[i + 1]>>))
  <2>1. new.done = Flush(acc, header) \o split[i + 1] /\ new.open = <<>>
    BY <1>2, <1>7 DEF PackStep
  <2>2. new.open = SubSeq(ps, i + 2, i + 1) /\ i + 2 = (i + 1) + 1
    BY <1>1, <2>1, PartGrows
  <2>3. i + 2 \in 1..((i + 1) + 1)
    OBVIOUS
  <2>4. new.done \in Seq(G)
    BY <1>3, <1>4, <2>1, ConcatProperties
  <2> QED BY <1>2, <2>1, <2>2, <2>3, <2>4 DEF PackedUpto
<1> QED BY <1>5, <1>6, <1>7

\* The chunks that are packed are of G, if those of consecutive pieces are, and the pieces of

\* what is split.
LEMMA PackedIn ==
    ASSUME NEW ps \in Seq(Texty), NEW header \in Seq(Texty), NEW G \in SUBSET Texty,
           Admits(G, ps, header), NEW split \in [DOMAIN ps -> Seq(G)]
    PROVE  Packed(ps, header, split) \in Seq(G)
<1>1. PICK n \in Nat : n = Len(ps) /\ DOMAIN ps = 1..n
  BY LenProperties
<1>2. split \in [DOMAIN ps -> Seq(Texty)]
  <2>1. Seq(G) \subseteq Seq(Texty)
    BY SeqMonotonic
  <2> QED BY <2>1
<1>3. PICK d : Packing(d, ps, header, split) /\ Packed(ps, header, split) = Flush(d[Len(ps)], header)
  BY <1>2, PackedSteps
<1>4. PICK good : good = {i \in 0..n : PackedUpto(d[i], ps, header, G, i)}
  OBVIOUS
<1>5. 0 \in good
  <2>0. d[0] = Nothing
    BY <1>3 DEF Packing
  <2>1. Nothing.open = <<>> /\ Nothing.done = <<>>
    BY DEF Nothing
  <2>2. SubSeq(ps, 1, 0) = <<>> /\ 1 \in 1..(0 + 1)
    BY SubSeqEmpty
  <2>3. <<>> \in Seq(G)
    OBVIOUS
  <2>4. PackedUpto(Nothing, ps, header, G, 0)
    BY <2>1, <2>2, <2>3 DEF PackedUpto
  <2> QED BY <1>4, <2>0, <2>4
<1>6. ASSUME NEW i \in 1..n, i - 1 \in good PROVE i \in good
  <2>1. PICK j \in Nat : j = i - 1
    OBVIOUS
  <2>2. j + 1 = i /\ j \in 0..n /\ i \in 0..n /\ j + 1 \in 1..Len(ps)
    BY <1>1, <2>1
  <2>3. d[i] = PackStep(ps, header, split, d[j], j + 1) /\ d[j] \in Accs(Texty)
    BY <1>1, <1>3, <2>1, <2>2 DEF Packing
  <2>4. PackedUpto(d[j], ps, header, G, j)
    BY <1>4, <1>6, <2>1
  <2>5. PackedUpto(PackStep(ps, header, split, d[j], j + 1), ps, header, G, j + 1)
    BY <2>2, <2>3, <2>4, PackStepIn
  <2> QED BY <1>4, <2>2, <2>3, <2>5
<1>7. 0..n \subseteq good
  <2>1. \A i \in 1..n : i - 1 \in good => i \in good
    BY <1>6
  <2> QED BY ONLY <1>5, <2>1, n \in Nat, UptoInduction
<1>8. PackedUpto(d[n], ps, header, G, n) /\ n \in 0..Len(ps)
  BY <1>1, <1>4, <1>7
<1> QED BY <1>1, <1>3, <1>8, FlushIn
-----------------------------------------------------------------------------
(* A sentence that is split.                                               *)

\* A word as a piece of its own.
WordPiece(p, w) == [p EXCEPT !.words = <<w>>]
WordPieces(p) == [k \in DOMAIN p.words |-> WordPiece(p, p.words[k])]

\* One iteration of the loop over the words of a sentence.
SplitStep(p, acc, w) ==
    IF acc.open = <<>> \/ Fits(Join(Append(acc.open, WordPiece(p, w))))
      THEN [acc EXCEPT !.open = Append(@, WordPiece(p, w))]
      ELSE [done |-> Flush(acc, <<>>), open |-> Begin(WordPiece(p, w))]

\* The accumulator of the loop along the words.
Splitting(d, p) ==
    /\ d \in [0..Len(p.words) -> Accs(Texty)] /\ d[0] = Nothing
    /\ \A i \in 1..Len(p.words) : d[i] = SplitStep(p, d[i - 1], p.words[i])

LEMMA SplitStepType ==
    ASSUME NEW p \in Texty, NEW acc \in Accs(Texty), NEW i \in 1..Len(p.words)
    PROVE  SplitStep(p, acc, p.words[i]) \in Accs(Texty)
<1>1. PICK piece : piece = WordPiece(p, p.words[i])
  OBVIOUS
<1>2. piece \in Texty
  <2>1. p.words[i] \in Words
    BY DEF Texty
  <2>2. <<p.words[i]>> \in Seq(Words)
    BY <2>1
  <2> QED BY <1>1, <2>2 DEF WordPiece, Texty
<1>3. Flush(acc, <<>>) \in Seq(Texty)
  <2>1. <<>> \in Seq(Texty)
    OBVIOUS
  <2> QED BY <2>1, FlushType
<1>4. Append(acc.open, piece) \in Seq(Texty) /\ <<piece>> \in Seq(Texty)
  BY <1>2 DEF Accs
<1>5. [acc EXCEPT !.open = Append(@, piece)] \in Accs(Texty)
  BY <1>4 DEF Accs
<1>6. [done |-> Flush(acc, <<>>), open |-> Begin(piece)] \in Accs(Texty)
  BY <1>3, <1>4 DEF Accs, Begin
<1> QED BY <1>1, <1>5, <1>6 DEF SplitStep

LEMMA NothingPacked == Nothing \in Accs(Texty)
BY DEF Accs, Nothing

LEMMA TextWords ==
    ASSUME NEW p \in Texty
    PROVE  Len(p.words) \in Nat /\ DOMAIN p.words = 1..Len(p.words)
BY LenProperties DEF Texty

\* SplitSentence raises at its first word or is the chain of the iterations.
LEMMA SplitSteps ==
    ASSUME NEW p \in Texty
    PROVE  \E d : Splitting(d, p) /\ SplitSentence(p)
          = IF ~Fits(WordPiece(p, Head(p.words))) THEN <<Raised>> ELSE Flush(d[Len(p.words)], <<>>)
<1>1. PICK n \in Nat : n = Len(p.words) /\ DOMAIN p.words = 1..n
  BY TextWords
<1>2. PICK V : V = Accs(Texty)
  OBVIOUS
<1>3. PICK op : op = [q \in (1..n) \X V |-> SplitStep(p, q[2], p.words[q[1]])]
  OBVIOUS
<1>4. op \in [(1..n) \X V -> V]
  <2>1. ASSUME NEW i \in 1..n, NEW acc \in V PROVE SplitStep(p, acc, p.words[i]) \in V
    BY <1>1, <1>2, SplitStepType
  <2> QED BY <1>3, <2>1
<1>5. Nothing \in V
  BY <1>2, NothingPacked
<1>6. \A i \in 1..n, acc \in V : op[<<i, acc>>] = SplitStep(p, acc, p.words[i])
  BY <1>3
<1> DEFINE R(h) == h = [s \in SUBSET DOMAIN p.words |->
                          IF s = {} THEN Nothing
                          ELSE LET x == Max(s)
                               IN  SplitStep(p, h[s \ {x}], p.words[x])]
<1>7. PICK g \in [SUBSET (1..n) -> V] : Unfolds(g, n, op, Nothing)
  BY <1>4, <1>5, FoldUnfolds
<1>8. R(g)
  <2>1. ASSUME NEW s \in SUBSET (1..n), s # {}
        PROVE  g[s] = SplitStep(p, g[s \ {Max(s)}], p.words[Max(s)])
    BY <1>6, <1>7, <2>1 DEF Unfolds
  <2>2. \A s \in SUBSET (1..n) : s # {} => Max(s) \in 1..n
    BY <1>7 DEF Unfolds
  <2>3. g[{}] = Nothing
    BY <1>7 DEF Unfolds
  <2> QED BY <1>1, <2>1, <2>2, <2>3
<1>9. PICK h : h = CHOOSE x : R(x)
  OBVIOUS
<1>10. R(h)
  BY <1>8, <1>9
<1>11. SplitSentence(p) = IF ~Fits(WordPiece(p,
        Head(p.words))) THEN <<Raised>> ELSE Flush(h[1..n], <<>>)
  BY <1>1, <1>9 DEF SplitSentence, FoldLeft, MapThenFoldSet, SplitStep, Nothing, WordPiece
<1>12. Follows(h, n, op, Nothing, V)
  <2>0. h[{}] = Nothing
    BY <1>10
  <2> SUFFICES ASSUME NEW s \in SUBSET (1..n), s # {}, h[s \ {Max(s)}] \in V
               PROVE  h[s] = op[<<Max(s), h[s \ {Max(s)}]>>]
    BY <2>0 DEF Follows
  <2>1. Max(s) \in 1..n
    BY <1>7 DEF Unfolds
  <2>2. h[s] = SplitStep(p, h[s \ {Max(s)}], p.words[Max(s)])
    BY <1>1, <1>10, <2>1
  <2> QED BY <1>6, <2>1, <2>2
<1> HIDE DEF R
<1>13. PICK d \in [0..n -> V] : Chain(d, n, op, Nothing) /\ EndsWith(d, n, h[1..n])
  BY <1>4, <1>5, <1>12, FoldChain
<1>14. ASSUME NEW i \in 1..n PROVE d[i] = SplitStep(p, d[i - 1], p.words[i])
  <2>1. i - 1 \in 0..n
    OBVIOUS
  <2> QED BY <1>6, <1>13, <2>1 DEF Chain
<1>15. Splitting(d, p)
  BY <1>1, <1>2, <1>13, <1>14 DEF Splitting, Chain
<1> QED BY <1>1, <1>11, <1>13, <1>15 DEF EndsWith

\* The piece made of one piece.
LEMMA JoinOne ==
    ASSUME NEW p \in Texty
    PROVE  Join(<<p>>).words = p.words
<1>1. p.words \in Seq(Words)
  BY DEF Texty
<1>2. [i \in DOMAIN <<p>> |-> <<p>>[i].words] = <<p.words>>
  OBVIOUS
<1> QED BY <1>1, <1>2, FlattenOne DEF Join

\* The elements of a piece are those of its parts.
LEMMA JoinElements ==
    ASSUME NEW ps, NEW P, \A i \in DOMAIN ps : ps[i].elements \subseteq P
    PROVE  Join(ps).elements \subseteq P
BY DEF Join

LEMMA EmptyHeader ==
    ASSUME NEW ps \in Seq(Texty)
    PROVE  Chunk(<<>>, ps) = Join(ps)
BY ConcatEmptySeq DEF Chunk

LEMMA WordPiecesType ==
    ASSUME NEW p \in Texty
    PROVE  /\ WordPieces(p) \in Seq(Texty) /\ Len(WordPieces(p)) = Len(p.words)
           /\ \A k \in 1..Len(p.words) : /\ WordPieces(p)[k] = WordPiece(p, p.words[k])
                                         /\ WordPieces(p)[k].words = <<p.words[k]>>
                                         /\ WordPieces(p)[k].elements = p.elements
<1>1. PICK n \in Nat : n = Len(p.words) /\ DOMAIN p.words = 1..n
  BY TextWords
<1>2. ASSUME NEW k \in 1..n
      PROVE  /\ WordPiece(p, p.words[k]) \in Texty
             /\ WordPiece(p, p.words[k]).words = <<p.words[k]>>
             /\ WordPiece(p, p.words[k]).elements = p.elements
  <2>1. p.words[k] \in Words
    BY <1>1 DEF Texty
  <2>2. <<p.words[k]>> \in Seq(Words)
    BY <2>1
  <2> QED BY <2>2 DEF WordPiece, Texty
<1>3. WordPieces(p) = [k \in 1..n |-> WordPiece(p, p.words[k])]
  BY <1>1 DEF WordPieces
<1>4. PICK ws : ws = WordPieces(p)
  OBVIOUS
<1>5. \A k \in 1..n : ws[k] = WordPiece(p, p.words[k])
  BY <1>3, <1>4
<1>6. ws \in Seq(Texty) /\ Len(ws) = n
  <2>1. \A k \in 1..n : WordPiece(p, p.words[k]) \in Texty
    BY <1>2
  <2> QED BY <1>3, <1>4, <2>1
<1> QED BY <1>1, <1>2, <1>4, <1>5, <1>6

\* What the loop over words has got after i of them.
SplitUpto(acc, p, G, i) ==
    /\ acc.done \in Seq(G)
    /\ \E a \in 1..(i + 1) : acc.open = SubSeq(WordPieces(p), a, i)
    /\ acc.open = <<>> \/ Len(acc.open) = 1 \/ Fits(Join(acc.open))

\* Pieces of consecutive words are of G, if there is only one or they are within the limit.
AdmitsWords(G, p) ==
    \A a, b \in 1..Len(p.words) :
        LET part == SubSeq(WordPieces(p), a, b)
        IN  a <= b /\ (Len(part) = 1 \/ Fits(Join(part))) => Join(part) \in G

\* The finished candidate is made of consecutive words too.
LEMMA SplitFlushIn ==
    ASSUME NEW p \in Texty, NEW G, AdmitsWords(G, p),
           NEW i \in 0..Len(p.words), NEW acc, SplitUpto(acc, p, G, i)
    PROVE  Flush(acc, <<>>) \in Seq(G)
<1>1. CASE acc.open = <<>>
  BY <1>1 DEF Flush, SplitUpto
<1>2. CASE acc.open # <<>>
  <2>1. PICK a \in 1..(i + 1) : acc.open = SubSeq(WordPieces(p), a, i)
    BY DEF SplitUpto
  <2>2. a # i + 1
    <3> SUFFICES ASSUME a = i + 1 PROVE FALSE
      OBVIOUS
    <3>1. SubSeq(WordPieces(p), i + 1, i) = <<>>
      BY SubSeqEmpty
    <3> QED BY <1>2, <2>1, <3>1
  <2>3. a \in 1..Len(p.words) /\ i \in 1..Len(p.words) /\ a <= i
    BY <2>2, TextWords
  <2>4. Join(acc.open) \in G
    BY <1>2, <2>1, <2>3 DEF AdmitsWords, SplitUpto
  <2>5. acc.open \in Seq(Texty)
    <3>1. \A j \in a..i : WordPieces(p)[j] \in Texty
      BY <2>3, WordPiecesType, ElementOfSeq
    <3> QED BY <2>1, <2>3, <3>1, SubSeqProperties
  <2>6. acc.done \in Seq(G)
    BY DEF SplitUpto
  <2>7. Append(acc.done, Chunk(<<>>, acc.open)) \in Seq(G)
    BY <2>4, <2>5, <2>6, EmptyHeader, AppendProperties
  <2> QED BY <1>2, <2>7 DEF Flush
<1> QED BY <1>1, <1>2

\* An iteration keeps to chunks of consecutive words.
LEMMA SplitStepIn ==
    ASSUME NEW p \in Texty, NEW G, AdmitsWords(G, p), NEW i \in Nat, i + 1 \in 1..Len(p.words),
           NEW acc \in Accs(Texty), SplitUpto(acc, p, G, i)
    PROVE  SplitUpto(SplitStep(p, acc, p.words[i + 1]), p, G, i + 1)
<1>1. PICK a \in 1..(i + 1) : acc.open = SubSeq(WordPieces(p), a, i)
  BY DEF SplitUpto
<1>2. PICK new : new = SplitStep(p, acc, p.words[i + 1])
  OBVIOUS
<1>3. PICK ws : ws = WordPieces(p)
  OBVIOUS
<1>4. ws \in Seq(Texty) /\ i + 1 \in 1..Len(ws) /\ ws[i + 1] = WordPiece(p, p.words[i + 1])
  BY <1>3, WordPiecesType
<1>5. CASE acc.open = <<>> \/ Fits(Join(Append(acc.open, ws[i + 1])))
  <2>1. new.done = acc.done /\ new.open = Append(acc.open, ws[i + 1])
    <3>1. new = [acc EXCEPT !.open = Append(@, ws[i + 1])]
      BY <1>2, <1>4, <1>5 DEF SplitStep
    <3> QED BY <3>1 DEF Accs
  <2>2. new.open = SubSeq(ws, a, i + 1)
    BY <1>1, <1>3, <1>4, <2>1, PartGrows
  <2>3. a \in 1..((i + 1) + 1)
    OBVIOUS
  <2>4. acc.open = <<>> => Len(new.open) = 1
    BY <1>4, <2>1
  <2>5. Len(new.open) = 1 \/ Fits(Join(new.open))
    BY <1>5, <2>1, <2>4
  <2> QED BY <1>2, <1>3, <2>1, <2>2, <2>3, <2>5 DEF SplitUpto
<1>6. CASE ~(acc.open = <<>> \/ Fits(Join(Append(acc.open, ws[i + 1]))))
  <2>1. new.done = Flush(acc, <<>>) /\ new.open = <<ws[i + 1]>>
    BY <1>2, <1>4, <1>6 DEF SplitStep, Begin
  <2>2. new.open = SubSeq(ws, i + 1, i + 1)
    BY <1>1, <1>4, <2>1, PartGrows
  <2>3. i + 1 \in 1..((i + 1) + 1)
    OBVIOUS
  <2>4. Flush(acc, <<>>) \in Seq(G)
    <3>1. i \in 0..Len(p.words)
      BY TextWords
    <3> QED BY <3>1, SplitFlushIn
  <2>5. Len(new.open) = 1
    BY <2>1
  <2> QED BY <1>2, <1>3, <2>1, <2>2, <2>3, <2>4, <2>5 DEF SplitUpto
<1> QED BY <1>5, <1>6

\* What a sentence is split into is of G, if its consecutive words are.
LEMMA SplitIn ==
    ASSUME NEW p \in Texty, NEW G, AdmitsWords(G, p), Raised \in G
    PROVE  SplitSentence(p) \in Seq(G)
<1>1. PICK n \in Nat : n = Len(p.words)
  BY TextWords
<1>3. PICK d : /\ Splitting(d, p)
               /\ SplitSentence(p) = IF ~Fits(WordPiece(p, Head(p.words))) THEN <<Raised>>
                                     ELSE Flush(d[Len(p.words)], <<>>)
  BY SplitSteps
<1>4. PICK good : good = {i \in 0..n : SplitUpto(d[i], p, G, i)}
  OBVIOUS
<1>5. 0 \in good
  <2>0. d[0] = Nothing
    BY <1>3 DEF Splitting
  <2>1. Nothing.open = <<>> /\ Nothing.done = <<>>
    BY DEF Nothing
  <2>2. SubSeq(WordPieces(p), 1, 0) = <<>> /\ 1 \in 1..(0 + 1)
    BY SubSeqEmpty
  <2>3. <<>> \in Seq(G)
    OBVIOUS
  <2>4. SplitUpto(Nothing, p, G, 0)
    BY <2>1, <2>2, <2>3 DEF SplitUpto
  <2> QED BY <1>4, <2>0, <2>4
<1>6. ASSUME NEW i \in 1..n, i - 1 \in good PROVE i \in good
  <2>1. PICK j \in Nat : j = i - 1
    OBVIOUS
  <2>2. j + 1 = i /\ j \in 0..n /\ i \in 0..n /\ j + 1 \in 1..Len(p.words)
    BY <1>1, <2>1
  <2>3. d[i] = SplitStep(p, d[j], p.words[j + 1]) /\ d[j] \in Accs(Texty)
    BY <1>1, <1>3, <2>1, <2>2 DEF Splitting
  <2>4. SplitUpto(d[j], p, G, j)
    BY <1>4, <1>6, <2>1
  <2>5. SplitUpto(SplitStep(p, d[j], p.words[j + 1]), p, G, j + 1)
    BY <2>2, <2>3, <2>4, SplitStepIn
  <2> QED BY <1>4, <2>2, <2>3, <2>5
<1>7. 0..n \subseteq good
  <2>1. \A i \in 1..n : i - 1 \in good => i \in good
    BY <1>6
  <2> QED BY ONLY <1>5, <2>1, n \in Nat, UptoInduction
<1>8. SplitUpto(d[n], p, G, n) /\ n \in 0..Len(p.words)
  BY <1>1, <1>4, <1>7
<1>9. Flush(d[n], <<>>) \in Seq(G) /\ <<Raised>> \in Seq(G)
  BY <1>8, SplitFlushIn
<1> QED BY <1>1, <1>3, <1>9
-----------------------------------------------------------------------------
(* The pieces of elements.                                                 *)

\* The elements that are extracted: a table has a header.
ElementSet ==
    {e \in [position : Nat, kind : {"text", "table", "visual"}, level : Nat, structural : BOOLEAN,
            body : Seq(Seq(Words))] : e.kind = "table" => e.body # <<>>}

\* A chunk is within the limit, or a single word, or was raised.
Sized(p) == p.elements = {} \/ Fits(p) \/ Len(p.words) = 1

\* Such pieces, of some of the elements.
From(P) == {p \in Texty : Sized(p) /\ p.elements \subseteq P}

LEMMA RaisedFrom == \A P : Raised \in From(P)
BY DEF Raised, From, Texty, Sized

LEMMA PieceType ==
    ASSUME NEW e \in ElementSet
    PROVE  /\ Pieces(e) \in Seq(Texty) /\ Len(Pieces(e)) = Len(e.body)
           /\ DOMAIN Pieces(e) = DOMAIN e.body
           /\ \A s \in DOMAIN e.body : /\ Pieces(e)[s].elements = {e.position}
                                       /\ Pieces(e)[s].words = e.body[s]
           /\ Whole(e) \in Texty /\ Whole(e).elements = {e.position}
           /\ Whole(e).words = FlattenSeq(e.body)
<1>1. e.position \in Nat /\ e.body \in Seq(Seq(Words))
  BY DEF ElementSet
<1>2. PICK n \in Nat : n = Len(e.body) /\ DOMAIN e.body = 1..n
        /\ \A s \in 1..n : e.body[s] \in Seq(Words)
  BY <1>1, LenProperties
<1>3. ASSUME NEW ws \in Seq(Words)
      PROVE  /\ Piece(e, ws) \in Texty /\ Piece(e, ws).elements = {e.position}
             /\ Piece(e, ws).words = ws
  BY <1>1, <1>3 DEF Piece, Texty
<1>4. FlattenSeq(e.body) \in Seq(Words)
  BY <1>1, FlattenType
<1>5. PICK ps : ps = Pieces(e)
  OBVIOUS
<1>6. ps = [s \in 1..n |-> Piece(e, e.body[s])]
  BY <1>2, <1>5 DEF Pieces
<1>7. \A s \in 1..n : Piece(e, e.body[s]) \in Texty
  BY <1>2, <1>3
<1>8. ps \in Seq(Texty) /\ Len(ps) = n /\ DOMAIN ps = 1..n
  BY <1>6, <1>7
<1>9. \A s \in 1..n : ps[s].elements = {e.position} /\ ps[s].words = e.body[s]
  BY <1>2, <1>3, <1>6
<1> QED BY <1>2, <1>3, <1>4, <1>5, <1>8, <1>9 DEF Whole

\* _split_oversized_sentence
LEMMA SplitSentenceFrom ==
    ASSUME NEW p \in Texty
    PROVE  SplitSentence(p) \in Seq(From(p.elements))
<1>1. ASSUME NEW a \in 1..Len(p.words), NEW b \in 1..Len(p.words), a <= b,
             NEW part, part = SubSeq(WordPieces(p), a, b), Len(part) = 1 \/ Fits(Join(part))
      PROVE  Join(part) \in From(p.elements)
  <2>1. /\ part \in Seq(Texty) /\ DOMAIN part = 1..Len(part)
        /\ \A k \in DOMAIN part : part[k].elements = p.elements /\ Len(part[k].words) = 1
    <3>1. PICK ws : ws = WordPieces(p)
      OBVIOUS
    <3>2. /\ ws \in Seq(Texty) /\ Len(ws) = Len(p.words)
          /\ \A k \in 1..Len(ws) : ws[k].elements = p.elements /\ Len(ws[k].words) = 1
      <4>1. /\ ws \in Seq(Texty) /\ Len(ws) = Len(p.words)
            /\ \A k \in 1..Len(p.words) : ws[k].words = <<p.words[k]>> /\ ws[k].elements = p.elements
        BY <3>1, WordPiecesType
      <4>2. ASSUME NEW k \in 1..Len(p.words) PROVE Len(ws[k].words) = 1
        <5>1. PICK w : w = p.words[k]
          OBVIOUS
        <5>2. ws[k].words = <<w>> /\ Len(<<w>>) = 1
          BY <4>1, <5>1
        <5> QED BY <5>2
      <4> QED BY <4>1, <4>2
    <3>3. part = SubSeq(ws, a, b) /\ a \in 1..Len(ws) /\ b \in 1..Len(ws)
      BY <1>1, <3>1, <3>2
    <3>4. /\ part \in Seq(Texty) /\ DOMAIN part = 1..(b - a + 1) /\ Len(part) = b - a + 1
          /\ \A k \in 1..(b - a + 1) : part[k] = ws[a + k - 1] /\ a + k - 1 \in 1..Len(ws)
      BY ONLY <3>2, <3>3, a <= b, PartType
    <3> QED BY <3>2, <3>4
  <2>2. Join(part) \in Texty /\ Join(part).elements \subseteq p.elements
    BY <2>1, JoinType, JoinElements
  <2>3. CASE Len(part) = 1
    <3>1. part = <<part[1]>> /\ part[1] \in Texty /\ Len(part[1].words) = 1
      <4>1. 1 \in DOMAIN part
        BY <2>1, <2>3
      <4>2. part[1] \in Texty /\ Len(part[1].words) = 1 /\ part \in Seq(Texty)
        BY <2>1, <4>1
      <4>3. part = <<part[1]>>
        BY ONLY <2>3, <4>2
      <4> QED BY <4>2, <4>3
    <3>2. Len(Join(part).words) = 1
      BY <3>1, JoinOne
    <3> QED BY <2>2, <3>2 DEF From, Sized
  <2>4. CASE Fits(Join(part))
    BY <2>2, <2>4 DEF From, Sized
  <2> QED BY <1>1, <2>3, <2>4
<1>2. AdmitsWords(From(p.elements), p)
  BY <1>1 DEF AdmitsWords
<1> QED BY <1>2, SplitIn, RaisedFrom

\* Chunks of pieces without a header that are within the limit.
LEMMA AdmitsFrom ==
    ASSUME NEW ps \in Seq(Texty), NEW header \in Seq(Texty), NEW P,
           \A i \in DOMAIN ps : ps[i].elements \subseteq P,
           \A i \in DOMAIN header : header[i].elements \subseteq P
    PROVE  Admits(From(P), ps, header)
<1> SUFFICES ASSUME NEW a \in 1..Len(ps), NEW b \in 1..Len(ps), a <= b,
                    Fits(Chunk(header, SubSeq(ps, a, b)))
             PROVE  Chunk(header, SubSeq(ps, a, b)) \in From(P)
  BY DEF Admits
<1>1. PICK part : part = SubSeq(ps, a, b)
  OBVIOUS
<1>2. part \in Seq(Texty) /\ \A k \in DOMAIN part : part[k].elements \subseteq P
  BY <1>1, PartType
<1>3. PICK all : all = header \o part
  OBVIOUS
<1>4. all \in Seq(Texty) /\ \A k \in DOMAIN all : all[k].elements \subseteq P
  BY <1>2, <1>3, ConcatProperties
<1>5. Join(all) \in Texty /\ Join(all).elements \subseteq P
  BY <1>4, JoinType, JoinElements
<1> QED BY <1>1, <1>3, <1>5 DEF Chunk, From, Sized

\* _split_oversized_text
LEMMA SplitTextFrom ==
    ASSUME NEW e \in ElementSet
    PROVE  SplitText(e) \in Seq(From({e.position}))
<1>1. PICK split : split = [s \in DOMAIN e.body |-> SplitSentence(Pieces(e)[s])]
  OBVIOUS
<1>2. split \in [DOMAIN Pieces(e) -> Seq(From({e.position}))]
  <2>1. ASSUME NEW s \in DOMAIN e.body PROVE SplitSentence(Pieces(e)[s]) \in Seq(From({e.position}))
    <3>1. PICK p : p = Pieces(e)[s]
      OBVIOUS
    <3>2. p \in Texty /\ p.elements = {e.position}
      BY <3>1, PieceType
    <3> QED BY <3>1, <3>2, SplitSentenceFrom
  <2> QED BY <1>1, <2>1, PieceType
<1>3. Admits(From({e.position}), Pieces(e), <<>>)
  <2>1. Pieces(e) \in Seq(Texty)
          /\ \A s \in DOMAIN Pieces(e) : Pieces(e)[s].elements \subseteq {e.position}
    BY PieceType
  <2>2. <<>> \in Seq(Texty) /\ DOMAIN <<>> = {}
    OBVIOUS
  <2> QED BY <2>1, <2>2, AdmitsFrom
<1>4. From({e.position}) \subseteq Texty /\ <<>> \in Seq(Texty) /\ Pieces(e) \in Seq(Texty)
  BY PieceType DEF From
<1>5. Packed(Pieces(e), <<>>, split) \in Seq(From({e.position}))
  BY <1>2, <1>3, <1>4, PackedIn
<1> QED BY <1>1, <1>5 DEF SplitText

\* The places of elements.
Places(es) == {es[i].position : i \in DOMAIN es}

\* Pieces of some elements are pieces of more of them.
LEMMA FromMore ==
    ASSUME NEW P, NEW Q, P \subseteq Q
    PROVE  From(P) \subseteq From(Q) /\ Seq(From(P)) \subseteq Seq(From(Q))
<1>1. From(P) \subseteq From(Q)
  BY DEF From
<1> QED BY <1>1, SeqMonotonic

\* _chunk_text
LEMMA ChunkTextFrom ==
    ASSUME NEW es \in Seq(ElementSet)
    PROVE  ChunkText(es) \in Seq(From(Places(es)))
<1>1. PICK split : split = [i \in DOMAIN es |-> SplitText(es[i])]
  OBVIOUS
<1>2. PICK ps : ps = [i \in DOMAIN es |-> Whole(es[i])]
  OBVIOUS
<1>0. PICK n \in Nat : n = Len(es) /\ DOMAIN es = 1..n /\ \A i \in 1..n : es[i] \in ElementSet
  BY LenProperties
<1>3. ps \in Seq(Texty) /\ DOMAIN ps = 1..n
  <2>1. \A i \in 1..n : Whole(es[i]) \in Texty
    BY <1>0, PieceType
  <2> QED BY <1>0, <1>2, <2>1
<1>4. \A i \in 1..n : ps[i].elements = {es[i].position} /\ {es[i].position} \subseteq Places(es)
  BY <1>0, <1>2, PieceType DEF Places
<1>5. split \in [DOMAIN ps -> Seq(From(Places(es)))]
  <2>1. ASSUME NEW i \in 1..n PROVE SplitText(es[i]) \in Seq(From(Places(es)))
    <3>1. PICK e : e = es[i]
      OBVIOUS
    <3>2. SplitText(e) \in Seq(From({e.position})) /\ {e.position} \subseteq Places(es)
      BY <1>0, <1>4, <3>1, SplitTextFrom
    <3>3. Seq(From({e.position})) \subseteq Seq(From(Places(es)))
      BY <3>2, FromMore
    <3> QED BY <3>1, <3>2, <3>3
  <2> QED BY <1>0, <1>1, <1>3, <2>1
<1>6. Admits(From(Places(es)), ps, <<>>)
  <2>2. <<>> \in Seq(Texty) /\ DOMAIN <<>> = {}
    OBVIOUS
  <2>3. \A i \in DOMAIN ps : ps[i].elements \subseteq Places(es)
    BY <1>3, <1>4
  <2> QED BY <1>3, <2>2, <2>3, AdmitsFrom
<1>7. From(Places(es)) \subseteq Texty /\ <<>> \in Seq(Texty)
  BY DEF From
<1>8. Packed(ps, <<>>, split) \in Seq(From(Places(es)))
  BY <1>3, <1>5, <1>6, <1>7, PackedIn
<1> QED BY <1>1, <1>2, <1>8 DEF ChunkText

\* _chunk_visual
LEMMA ChunkVisualFrom ==
    ASSUME NEW es \in Seq(ElementSet)
    PROVE  ChunkVisual(es) \in Seq(From(Places(es)))
<1>0. PICK n \in Nat : n = Len(es) /\ DOMAIN es = 1..n /\ \A i \in 1..n : es[i] \in ElementSet
  BY LenProperties
<1>1. ASSUME NEW i \in 1..n PROVE ChunkText(<<es[i]>>) \in Seq(From(Places(es)))
  <2>1. PICK one : one = <<es[i]>>
    OBVIOUS
  <2>2. one \in Seq(ElementSet) /\ Places(one) \subseteq Places(es)
    BY <1>0, <2>1 DEF Places
  <2>3. ChunkText(one) \in Seq(From(Places(one)))
    BY <2>2, ChunkTextFrom
  <2> QED BY <2>1, <2>2, <2>3, FromMore
<1>2. [i \in DOMAIN es |-> ChunkText(<<es[i]>>)] \in Seq(Seq(From(Places(es))))
  BY <1>0, <1>1
<1> QED BY <1>2, FlattenType DEF ChunkVisual
-----------------------------------------------------------------------------
(* Tables.                                                                 *)

\* The words of a row, in a text.
InRow(ws, r) == {k \in DOMAIN ws : ws[k].at[2] = r}

\* A text made of whole rows of a table, with its header.
RowsWhole(ws, e) ==
    \A r \in {1} \cup {ws[k].at[2] : k \in DOMAIN ws} :
        r \in DOMAIN e.body /\ Cardinality(InRow(ws, r)) = Len(e.body[r])

\* The words of an element know their places.
Marked(e) ==
    \A s \in DOMAIN e.body : \A w \in DOMAIN e.body[s] : e.body[s][w].at = <<e.position, s, w>>

\* Each row is there once.
Once(t, n) == \A j, k \in 1..n : t[j] = t[k] => j = k

\* The words of ss[k] are of row t[k].
OfRows(ss, t, n) == \A k \in 1..n : \A w \in DOMAIN ss[k] : ss[k][w].at[2] = t[k]

\* A text has the words ss[k] in row t[k], and no other ones.
HasRows(ws, ss, t, n) ==
    /\ \A k \in 1..n : Cardinality(InRow(ws, t[k])) = Len(ss[k])
    /\ \A j \in DOMAIN ws : \E k \in 1..n : ws[j].at[2] = t[k]

\* The rows t[1], t[2], ... of a table one after the other.
LEMMA RowsApart ==
    ASSUME NEW n \in Nat, NEW t \in [1..n -> Nat], Once(t, n),
           NEW ss \in Seq(Seq(Words)), Len(ss) = n, OfRows(ss, t, n)
    PROVE  HasRows(FlattenSeq(ss), ss, t, n)
<1> USE DEF Once, OfRows
<1>1. PICK d : Joins(d, ss, Words) /\ FlattenSeq(ss) = d[n]
  BY FlattenSteps
<1>2. /\ d \in [0..n -> Seq(Words)] /\ d[0] = <<>>
      /\ \A i \in 1..n : d[i] = d[i - 1] \o ss[i]
  BY <1>1 DEF Joins
<1>3. \A i \in 1..n : ss[i] \in Seq(Words)
  OBVIOUS
<1> DEFINE Here(i, k) == InRow(d[i], t[k])
        = IF k <= i THEN (Len(d[k - 1]) + 1)..(Len(d[k - 1]) + Len(ss[k])) ELSE {}
           Known(i)   == \A j \in DOMAIN d[i] : \E k \in 1..n : d[i][j].at[2] = t[k]
<1>4. PICK good : good = {i \in 0..n : Known(i) /\ \A k \in 1..n : Here(i, k)}
  OBVIOUS
<1>5. 0 \in good
  <2>1. DOMAIN d[0] = {}
    BY <1>2
  <2>2. Known(0) /\ \A k \in 1..n : Here(0, k)
    BY <2>1 DEF InRow
  <2> QED BY <1>4, <2>2
<1>6. ASSUME NEW i \in 1..n, i - 1 \in good PROVE i \in good
  <2>1. PICK b, s, a : b = d[i - 1] /\ s = ss[i] /\ a = d[i]
    OBVIOUS
  <2>2. b \in Seq(Words) /\ s \in Seq(Words) /\ a = b \o s
    <3>1. i - 1 \in 0..n
      OBVIOUS
    <3> QED BY <1>2, <1>3, <2>1, <3>1
  <2>3. PICK m \in Nat, l \in Nat : m = Len(b) /\ l = Len(s)
    BY <2>2, LenProperties
  <2>4. /\ DOMAIN b = 1..m /\ DOMAIN s = 1..l /\ DOMAIN a = 1..(m + l)
        /\ \A j \in 1..(m + l) : a[j] = IF j <= m THEN b[j] ELSE s[j - m]
    BY <2>2, <2>3, ConcatProperties, LenProperties
  <2>5. \A w \in 1..l : s[w].at[2] = t[i]
    BY <2>1, <2>4
  <2>6. Known(i - 1) /\ \A k \in 1..n : Here(i - 1, k)
    BY <1>4, <1>6
  <2>7. Known(i)
    <3>1. ASSUME NEW j \in 1..(m + l) PROVE \E k \in 1..n : a[j].at[2] = t[k]
      <4>1. CASE j <= m
        <5>1. j \in DOMAIN b /\ a[j] = b[j]
          BY <2>4, <4>1
        <5>2. \E k \in 1..n : b[j].at[2] = t[k]
          BY <2>1, <2>6, <5>1
        <5> QED BY <5>1, <5>2
      <4>2. CASE ~(j <= m)
        <5>1. j - m \in 1..l
          BY <4>2
        <5> QED BY <2>4, <2>5, <4>2, <5>1
      <4> QED BY <4>1, <4>2
    <3> QED BY <2>1, <2>4, <3>1
  <2>8. ASSUME NEW k \in 1..n PROVE Here(i, k)
    <3>1. InRow(a, t[k]) = InRow(b, t[k]) \cup (IF k = i THEN (m + 1)..(m + l) ELSE {})
      <4>1. ASSUME NEW j \in 1..(m + l)
            PROVE  a[j].at[2] = t[k] <=> (j <= m /\ b[j].at[2] = t[k]) \/ (j > m /\ k = i)
        <5>1. CASE j <= m
          BY <2>4, <5>1
        <5>2. CASE j > m
          <6>1. j - m \in 1..l
            BY <5>2
          <6>2. a[j].at[2] = t[i]
            BY <2>4, <2>5, <5>2, <6>1
          <6> QED BY <5>2, <6>2
        <5> QED BY <5>1, <5>2
      <4> QED BY <2>4, <4>1 DEF InRow
    <3>2. InRow(b, t[k]) = IF k <= i - 1 THEN (Len(d[k - 1]) + 1)..(Len(d[k - 1]) + Len(ss[k])) ELSE {}
      BY <2>1, <2>6
    <3>3. k = i => d[k - 1] = b /\ ss[k] = s
      BY <2>1
    <3>4. CASE k = i
      <4>1. InRow(b, t[k]) = {} /\ k <= i
        BY <3>2, <3>4
      <4>2. InRow(a, t[k]) = (Len(d[k - 1]) + 1)..(Len(d[k - 1]) + Len(ss[k]))
        BY <2>3, <3>1, <3>3, <3>4, <4>1
      <4> QED BY <2>1, <4>1, <4>2
    <3>5. CASE k # i
      <4>1. InRow(a, t[k]) = InRow(b, t[k]) /\ (k <= i <=> k <= i - 1)
        BY <3>1, <3>5
      <4> QED BY <2>1, <3>2, <4>1
    <3> QED BY <3>4, <3>5
  <2>9. i \in 0..n
    OBVIOUS
  <2> HIDE DEF Here, Known
  <2> QED BY <1>4, <2>7, <2>8, <2>9
<1> HIDE DEF Here, Known
<1>7. 0..n \subseteq good
  <2>1. \A i \in 1..n : i - 1 \in good => i \in good
    BY <1>6
  <2> QED BY ONLY <1>5, <2>1, n \in Nat, UptoInduction
<1>8. Known(n) /\ \A k \in 1..n : Here(n, k)
  BY <1>4, <1>7
<1>9. ASSUME NEW k \in 1..n PROVE Cardinality(InRow(d[n], t[k])) = Len(ss[k])
  <2>1. InRow(d[n], t[k]) = (Len(d[k - 1]) + 1)..(Len(d[k - 1]) + Len(ss[k]))
    BY <1>8 DEF Here
  <2>2. PICK x \in Nat, y \in Nat : x = Len(d[k - 1]) /\ y = Len(ss[k])
    <3>1. k - 1 \in 0..n
      OBVIOUS
    <3>2. d[k - 1] \in Seq(Words) /\ ss[k] \in Seq(Words)
      BY <1>2, <1>3, <3>1
    <3> QED BY <3>2, LenProperties
  <2>3. Cardinality((x + 1)..(x + y)) = y
    <3>1. x + 1 \in Int /\ x + y \in Int
      OBVIOUS
    <3>2. Cardinality((x + 1)..(x + y)) = IF x + 1 > x + y THEN 0 ELSE (x + y) - (x + 1) + 1
      BY <3>1, FS_Interval
    <3> QED BY <3>2
  <2> QED BY <2>1, <2>2, <2>3
<1> QED BY <1>1, <1>8, <1>9 DEF Known, HasRows

\* What is made of some rows of a table: the first, which is the header, and others.
LEMMA RowsTogether ==
    ASSUME NEW e \in ElementSet, Marked(e), NEW n \in Nat \ {0},
           NEW t \in [1..n -> DOMAIN e.body], Once(t, n), t[1] = 1,
           NEW ps \in Seq(Texty), Len(ps) = n, \A k \in 1..n : ps[k].words = e.body[t[k]]
    PROVE  RowsWhole(Join(ps).words, e)
<1>1. PICK ss : ss = [k \in 1..n |-> e.body[t[k]]]
  OBVIOUS
<1>2. e.body \in Seq(Seq(Words))
  BY DEF ElementSet
<1>3. \A k \in 1..n : e.body[t[k]] \in Seq(Words) /\ t[k] \in Nat /\ t[k] \in DOMAIN e.body
  BY <1>2
<1>4. ss \in Seq(Seq(Words)) /\ Len(ss) = n /\ \A k \in 1..n : ss[k] = e.body[t[k]]
  BY <1>1, <1>3
<1>5. OfRows(ss, t, n)
  BY <1>3, <1>4 DEF Marked, OfRows
<1>6. t \in [1..n -> Nat]
  BY <1>3
<1>7. HasRows(FlattenSeq(ss), ss, t, n)
  BY <1>4, <1>5, <1>6, RowsApart
<1>8. [i \in DOMAIN ps |-> ps[i].words] = ss
  <2>1. DOMAIN ps = 1..n
    OBVIOUS
  <2> QED BY <1>1, <2>1
<1>9. Join(ps).words = FlattenSeq(ss)
  BY <1>8 DEF Join
<1>10. PICK ws : ws = FlattenSeq(ss)
  OBVIOUS
<1>11. HasRows(ws, ss, t, n)
  BY <1>7, <1>10
<1>12. ASSUME NEW r \in {1} \cup {ws[k].at[2] : k \in DOMAIN ws}
       PROVE  r \in DOMAIN e.body /\ Cardinality(InRow(ws, r)) = Len(e.body[r])
  <2>1. PICK k \in 1..n : r = t[k]
    <3>1. CASE r = 1
      BY <3>1
    <3>2. CASE r # 1
      <4>1. PICK j \in DOMAIN ws : r = ws[j].at[2]
        BY <3>2
      <4> QED BY <1>11, <4>1 DEF HasRows
    <3> QED BY <3>1, <3>2
  <2>2. Cardinality(InRow(ws, t[k])) = Len(ss[k])
    BY <1>11 DEF HasRows
  <2> QED BY <1>3, <1>4, <2>1, <2>2
<1> QED BY <1>9, <1>10, <1>12 DEF RowsWhole

\* The chunks of a table.
TableChunks(e) ==
    LET rows == Tail(Pieces(e))
    IN  IF Fits(Whole(e)) THEN <<Whole(e)>>
        ELSE Packed(rows, <<Head(Pieces(e))>>, [i \in DOMAIN rows |-> SplitRow])

LEMMA ChunkTableIs == \A es : ChunkTable(es) = FlattenSeq([i \in DOMAIN es |-> TableChunks(es[i])])
BY DEF ChunkTable, TableChunks

\* Chunks of this table, which keep its rows whole.
OfTable(e) ==
    {p \in From({e.position}) : p.elements # {} => p.elements = {e.position} /\ RowsWhole(p.words, e)}

\* The rows of a table and its header.
LEMMA TableRows ==
    ASSUME NEW e \in ElementSet, e.kind = "table"
    PROVE  /\ Head(Pieces(e)) = Pieces(e)[1] /\ 1 \in DOMAIN e.body
           /\ Tail(Pieces(e)) \in Seq(Texty) /\ Len(Tail(Pieces(e))) = Len(e.body) - 1
           /\ \A i \in 1..(Len(e.body) - 1) : Tail(Pieces(e))[i] = Pieces(e)[i + 1]
           /\ Len(e.body) \in Nat /\ DOMAIN e.body = 1..Len(e.body)
<1>1. e.body \in Seq(Seq(Words)) /\ e.body # <<>>
  BY DEF ElementSet
<1>2. Len(e.body) \in Nat /\ Len(e.body) > 0 /\ DOMAIN e.body = 1..Len(e.body)
  BY <1>1, LenProperties, EmptySeq
<1>3. PICK ps : ps = Pieces(e)
  OBVIOUS
<1>4. ps \in Seq(Texty) /\ Len(ps) = Len(e.body) /\ ps # <<>>
  BY <1>2, <1>3, PieceType
<1>5. Head(ps) = ps[1]
  BY <1>4
<1>6. Tail(ps) \in Seq(Texty) /\ Len(Tail(ps)) = Len(ps) - 1
        /\ \A i \in 1..Len(Tail(ps)) : Tail(ps)[i] = ps[i + 1]
  BY <1>4, HeadTailProperties
<1> QED BY <1>2, <1>3, <1>4, <1>5, <1>6

\* A chunk of the header and consecutive rows.
LEMMA TablePart ==
    ASSUME NEW e \in ElementSet, e.kind = "table", Marked(e),
           NEW rows, rows = Tail(Pieces(e)), NEW header, header = <<Head(Pieces(e))>>,
           NEW a \in 1..Len(rows), NEW b \in 1..Len(rows), a <= b,
           Fits(Chunk(header, SubSeq(rows, a, b)))
    PROVE  Chunk(header, SubSeq(rows, a, b)) \in OfTable(e)
<1>1. PICK m \in Nat : m = Len(e.body) - 1 /\ DOMAIN e.body = 1..(m + 1) /\ Len(rows) = m
  <2>1. Len(e.body) \in Nat /\ DOMAIN e.body = 1..Len(e.body) /\ 1 \in DOMAIN e.body
    BY TableRows
  <2>2. Len(rows) = Len(e.body) - 1
    BY TableRows
  <2>3. PICK l \in Nat : l = Len(e.body)
    BY <2>1
  <2>4. l - 1 \in Nat /\ l = (l - 1) + 1
    BY <2>1, <2>3
  <2> QED BY <2>1, <2>2, <2>3, <2>4
<1>2. /\ rows \in Seq(Texty) /\ header = <<Pieces(e)[1]>>
      /\ \A i \in 1..m : rows[i] = Pieces(e)[i + 1]
  BY <1>1, TableRows
<1>3. \A s \in 1..(m + 1) : /\ Pieces(e)[s] \in Texty /\ Pieces(e)[s].elements = {e.position}
                            /\ Pieces(e)[s].words = e.body[s]
  BY <1>1, PieceType
<1>4. PICK part : part = SubSeq(rows, a, b)
  OBVIOUS
<1>5. /\ part \in Seq(Texty) /\ Len(part) = b - a + 1
      /\ \A k \in 1..(b - a + 1) : part[k] = rows[a + k - 1] /\ a + k - 1 \in 1..m
  BY ONLY <1>1, <1>2, <1>4, a \in 1..Len(rows), b \in 1..Len(rows), a <= b, PartType
<1>6. PICK all : all = header \o part
  OBVIOUS
<1>7. PICK n \in Nat : n = b - a + 2
  BY <1>1
<1>8. 1 \in 1..(m + 1) /\ header \in Seq(Texty) /\ Len(header) = 1 /\ header[1] = Pieces(e)[1]
  BY <1>1, <1>2, <1>3
<1>9. /\ all \in Seq(Texty) /\ Len(all) = n /\ all[1] = Pieces(e)[1]
      /\ \A k \in 2..n : all[k] = part[k - 1]
  <2>1. /\ all \in Seq(Texty) /\ Len(all) = 1 + (b - a + 1)
        /\ \A i \in 1..(1 + (b - a + 1)) : all[i] = IF i <= 1 THEN header[i] ELSE part[i - 1]
    BY <1>5, <1>6, <1>8, ConcatProperties
  <2>2. 1 + (b - a + 1) = n /\ 1 \in 1..n
    BY <1>1, <1>7
  <2> QED BY <1>8, <2>1, <2>2
<1>10. PICK t : t = [k \in 1..n |-> IF k = 1 THEN 1 ELSE a + k - 1]
  OBVIOUS
<1>11. \A k \in 1..n : t[k] \in 1..(m + 1) /\ all[k] = Pieces(e)[t[k]]
  <2> TAKE k \in 1..n
  <2>1. CASE k = 1
    BY <1>1, <1>9, <1>10, <2>1
  <2>2. CASE k # 1
    <3>1. k \in 2..n /\ k - 1 \in 1..(b - a + 1)
      BY <1>1, <1>7, <2>2
    <3>2. all[k] = rows[a + (k - 1) - 1] /\ a + (k - 1) - 1 \in 1..m
      BY <1>5, <1>9, <3>1
    <3>3. PICK j \in 1..m : j = a + (k - 1) - 1
      BY <3>2
    <3>4. t[k] = j + 1 /\ j + 1 \in 1..(m + 1)
      BY <1>1, <1>10, <2>2, <3>3
    <3> QED BY <1>2, <3>2, <3>3, <3>4
  <2> QED BY <2>1, <2>2
<1>12. Once(t, n)
  BY <1>1, <1>7, <1>10 DEF Once
<1>13. n \in Nat \ {0} /\ t[1] = 1 /\ t \in [1..n -> DOMAIN e.body]
  BY <1>1, <1>7, <1>10, <1>11
<1>14. \A k \in 1..n : all[k].words = e.body[t[k]] /\ all[k].elements = {e.position}
  BY <1>3, <1>11
<1>15. RowsWhole(Join(all).words, e)
  <2>1. \A k \in 1..n : all[k].words = e.body[t[k]]
    BY <1>14
  <2> QED BY <1>9, <1>12, <1>13, <2>1, RowsTogether
<1>16. Join(all) \in Texty /\ Join(all).elements = {e.position}
  <2>1. DOMAIN all = 1..n /\ 1 \in 1..n
    BY <1>9, <1>13, LenProperties
  <2>2. UNION {all[i].elements : i \in 1..n} = {e.position}
    BY <1>14, <2>1
  <2>3. Join(all).elements = UNION {all[i].elements : i \in 1..n}
    BY <2>1 DEF Join
  <2> QED BY <1>9, <2>2, <2>3, JoinType
<1> QED BY <1>4, <1>6, <1>15, <1>16 DEF Chunk, OfTable, From, Sized

\* A table that fits has its rows whole.
LEMMA TableWhole ==
    ASSUME NEW e \in ElementSet, e.kind = "table", Marked(e), Fits(Whole(e))
    PROVE  Whole(e) \in OfTable(e)
<1>1. PICK n \in Nat \ {0} : n = Len(e.body) /\ DOMAIN e.body = 1..n
  BY TableRows
<1>2. PICK t : t = [k \in 1..n |-> k]
  OBVIOUS
<1>3. PICK ps : ps = Pieces(e)
  OBVIOUS
<1>4. /\ ps \in Seq(Texty) /\ Len(ps) = n /\ DOMAIN ps = 1..n
      /\ \A k \in 1..n : ps[k].words = e.body[t[k]] /\ ps[k].words = e.body[k]
  BY <1>1, <1>2, <1>3, PieceType
<1>5. t \in [1..n -> DOMAIN e.body] /\ t[1] = 1 /\ Once(t, n)
  BY <1>1, <1>2 DEF Once
<1>6. RowsWhole(Join(ps).words, e)
  BY <1>4, <1>5, RowsTogether
<1>7. Join(ps).words = Whole(e).words
  <2>1. e.body \in Seq(Seq(Words))
    BY DEF ElementSet
  <2>2. [i \in DOMAIN ps |-> ps[i].words] = e.body
    <3>1. e.body = [k \in 1..n |-> e.body[k]]
      BY <1>1, <2>1
    <3> QED BY <1>4, <3>1
  <2> QED BY <1>3, <2>2, PieceType DEF Join
<1> QED BY <1>6, <1>7, PieceType DEF OfTable, From, Sized

LEMMA RaisedOfTable == \A e : Raised \in OfTable(e)
BY RaisedFrom DEF OfTable, Raised

\* So has a table that is divided.
LEMMA TableChunksType ==
    ASSUME NEW e \in ElementSet, e.kind = "table", Marked(e)
    PROVE  TableChunks(e) \in Seq(OfTable(e))
<1>1. CASE Fits(Whole(e))
  <2>1. Whole(e) \in OfTable(e)
    BY <1>1, TableWhole
  <2> QED BY <1>1, <2>1 DEF TableChunks
<1>2. CASE ~Fits(Whole(e))
  <2>1. PICK rows, header : rows = Tail(Pieces(e)) /\ header = <<Head(Pieces(e))>>
    OBVIOUS
  <2>2. PICK split : split = [i \in DOMAIN rows |-> SplitRow]
    OBVIOUS
  <2>3. rows \in Seq(Texty) /\ header \in Seq(Texty)
    <3>1. 1 \in DOMAIN e.body /\ Pieces(e) \in Seq(Texty) /\ DOMAIN Pieces(e) = DOMAIN e.body
      BY PieceType, TableRows
    <3>2. Pieces(e)[1] \in Texty
      BY <3>1
    <3> QED BY <2>1, <3>2, TableRows
  <2>4. Admits(OfTable(e), rows, header)
    BY <2>1, TablePart DEF Admits
  <2>5. split \in [DOMAIN rows -> Seq(OfTable(e))]
    <3>1. SplitRow \in Seq(OfTable(e))
      BY RaisedOfTable DEF SplitRow
    <3> QED BY <2>2, <3>1
  <2>6. OfTable(e) \in SUBSET Texty
    BY DEF OfTable, From
  <2>7. Packed(rows, header, split) \in Seq(OfTable(e))
    BY <2>3, <2>4, <2>5, <2>6, PackedIn
  <2> QED BY <1>2, <2>1, <2>2, <2>7 DEF TableChunks
<1> QED BY <1>1, <1>2

\* Chunks which are each of one of these tables and keep its rows whole.
WholeRows(p, es) ==
    p.elements # {} => \E i \in DOMAIN es : p.elements = {es[i].position} /\ RowsWhole(p.words, es[i])

\* The pieces of a run.
RunPieces(kind, es) == {p \in From(Places(es)) : kind = "table" => WholeRows(p, es)}

\* _chunk_table
LEMMA ChunkTableFrom ==
    ASSUME NEW es \in Seq(ElementSet), \A i \in DOMAIN es : es[i].kind = "table" /\ Marked(es[i])
    PROVE  ChunkTable(es) \in Seq(RunPieces("table", es))
<1>0. PICK n \in Nat : n = Len(es) /\ DOMAIN es = 1..n /\ \A i \in 1..n : es[i] \in ElementSet
  BY LenProperties
<1>1. ASSUME NEW i \in 1..n PROVE TableChunks(es[i]) \in Seq(RunPieces("table", es))
  <2>1. PICK e : e = es[i]
    OBVIOUS
  <2>2. e \in ElementSet /\ e.kind = "table" /\ Marked(e) /\ {e.position} \subseteq Places(es)
    BY <1>0, <2>1 DEF Places
  <2>3. TableChunks(e) \in Seq(OfTable(e))
    BY <2>2, TableChunksType
  <2>4. OfTable(e) \subseteq RunPieces("table", es)
    <3>1. From({e.position}) \subseteq From(Places(es))
      BY <2>2, FromMore
    <3>2. ASSUME NEW p \in OfTable(e) PROVE WholeRows(p, es)
      BY <1>0, <2>1 DEF OfTable, WholeRows
    <3> QED BY <3>1, <3>2 DEF OfTable, RunPieces
  <2> QED BY <2>1, <2>3, <2>4, SeqMonotonic
<1>2. [i \in DOMAIN es |-> TableChunks(es[i])] \in Seq(Seq(RunPieces("table", es)))
  BY <1>0, <1>1
<1> QED BY <1>2, ChunkTableIs, FlattenType

\* A run: elements of E of one kind.
RunSet(E) == {run \in Seq(E) : run # <<>> /\ \A i \in DOMAIN run : run[i].kind = run[1].kind}

\* _chunk_by_content_type
LEMMA ChunksOfKindFrom ==
    ASSUME NEW E \in SUBSET ElementSet, \A e \in E : Marked(e), NEW run \in RunSet(E)
    PROVE  ChunksOfKind(run[1].kind, run) \in Seq(RunPieces(run[1].kind, run))
<1>1. PICK kind : kind = run[1].kind
  OBVIOUS
<1>2. run \in Seq(ElementSet) /\ \A i \in DOMAIN run : run[i].kind = kind /\ Marked(run[i])
  <2>1. run \in Seq(E)
    BY DEF RunSet
  <2>2. \A i \in DOMAIN run : run[i] \in E
    BY <2>1
  <2>3. run \in Seq(ElementSet)
    BY <2>1, SeqMonotonic
  <2> QED BY <1>1, <2>2, <2>3 DEF RunSet
<1>3. kind \in {"text", "table", "visual"}
  <2>1. run # <<>>
    BY DEF RunSet
  <2>2. 1 \in DOMAIN run
    BY <1>2, <2>1
  <2>3. run[1] \in ElementSet
    BY <1>2, <2>2
  <2> QED BY <1>1, <2>3 DEF ElementSet
<1>4. CASE kind = "table"
  <2>1. ChunkTable(run) \in Seq(RunPieces("table", run))
    BY <1>2, <1>4, ChunkTableFrom
  <2> QED BY <1>1, <1>4, <2>1 DEF ChunksOfKind
<1>5. CASE kind # "table"
  <2>1. RunPieces(kind, run) = From(Places(run))
    BY <1>5 DEF RunPieces
  <2>2. ChunkText(run) \in Seq(From(Places(run))) /\ ChunkVisual(run) \in Seq(From(Places(run)))
    BY <1>2, ChunkTextFrom, ChunkVisualFrom
  <2>3. ChunksOfKind(kind, run) = IF kind = "text" THEN ChunkText(run) ELSE ChunkVisual(run)
    BY <1>3, <1>5 DEF ChunksOfKind
  <2> QED BY <1>1, <2>1, <2>2, <2>3
<1> QED BY <1>4, <1>5
-----------------------------------------------------------------------------
(* The runs of one kind.                                                   *)

\* One iteration of _group_by_content_type.
RunsStep(runs, e) ==
    IF runs # <<>> /\ Last(runs)[1].kind = e.kind
      THEN [runs EXCEPT ![Len(runs)] = Append(@, e)]
      ELSE Append(runs, <<e>>)

\* The runs along the loop.
Grouping(d, es, E) ==
    /\ d \in [0..Len(es) -> Seq(RunSet(E))] /\ d[0] = <<>>
    /\ \A i \in 1..Len(es) : d[i] = RunsStep(d[i - 1], es[i])

LEMMA RunsStepType ==
    ASSUME NEW E, NEW es \in Seq(E), NEW i \in 1..Len(es), NEW runs \in Seq(RunSet(E))
    PROVE  RunsStep(runs, es[i]) \in Seq(RunSet(E))
<1>1. PICK e \in E : e = es[i]
  OBVIOUS
<1>2. PICK new : new = RunsStep(runs, e)
  OBVIOUS
<1>3. CASE runs # <<>> /\ Last(runs)[1].kind = e.kind
  <2>1. PICK m \in Nat \ {0} : m = Len(runs) /\ DOMAIN runs = 1..m
    BY <1>3, LenProperties, EmptySeq
  <2>2. PICK run \in RunSet(E) : run = runs[m]
    <3>1. m \in 1..Len(runs)
      BY <2>1
    <3> QED BY <3>1, ElementOfSeq
  <2>3. run \in Seq(E) /\ run # <<>> /\ \A k \in DOMAIN run : run[k].kind = run[1].kind
    BY DEF RunSet
  <2>4. e.kind = run[1].kind
    BY <1>3, <2>1, <2>2 DEF Last
  <2>5. PICK l \in Nat \ {0} : l = Len(run) /\ DOMAIN run = 1..l
    BY <2>3, LenProperties, EmptySeq
  <2>6. PICK more : more = Append(run, e)
    OBVIOUS
  <2>7. /\ more \in Seq(E) /\ Len(more) = l + 1 /\ DOMAIN more = 1..(l + 1)
        /\ \A k \in 1..l : more[k] = run[k]
        /\ more[l + 1] = e
    BY <2>3, <2>5, <2>6, AppendProperties
  <2>8. more[1] = run[1] /\ \A k \in 1..(l + 1) : more[k].kind = run[1].kind
    <3>1. 1 \in 1..l /\ \A k \in 1..(l + 1) : k \in 1..l \/ k = l + 1
      OBVIOUS
    <3>2. \A k \in 1..l : more[k].kind = run[1].kind
      BY <2>3, <2>5, <2>7
    <3>3. more[l + 1].kind = run[1].kind
      BY <2>4, <2>7
    <3> QED BY <2>7, <3>1, <3>2, <3>3
  <2>9. more \in RunSet(E)
    <3>1. more # <<>>
      BY <2>7, EmptySeq
    <3> QED BY <2>7, <2>8, <3>1 DEF RunSet
  <2>10. new = [runs EXCEPT ![m] = more]
    BY <1>2, <1>3, <2>1, <2>2, <2>6 DEF RunsStep
  <2> QED BY <1>1, <1>2, <2>1, <2>9, <2>10, ExceptSeq
<1>4. CASE ~(runs # <<>> /\ Last(runs)[1].kind = e.kind)
  <2>1. new = Append(runs, <<e>>)
    BY <1>2, <1>4 DEF RunsStep
  <2>2. <<e>> \in RunSet(E)
    BY DEF RunSet
  <2> QED BY <1>1, <1>2, <2>1, <2>2, AppendProperties
<1> QED BY <1>3, <1>4

LEMMA NoRuns ==
    ASSUME NEW E
    PROVE  <<>> \in Seq(RunSet(E))
OBVIOUS

\* Runs is the chain of the iterations.
LEMMA RunsSteps ==
    ASSUME NEW E, NEW es \in Seq(E)
    PROVE  \E d : Grouping(d, es, E) /\ Runs(es) = d[Len(es)]
<1>1. PICK n \in Nat : n = Len(es) /\ DOMAIN es = 1..n
  BY LenProperties
<1>2. PICK V : V = Seq(RunSet(E))
  OBVIOUS
<1>3. PICK op : op = [q \in (1..n) \X V |-> RunsStep(q[2], es[q[1]])]
  OBVIOUS
<1>4. op \in [(1..n) \X V -> V]
  <2>1. ASSUME NEW i \in 1..n, NEW acc \in V PROVE RunsStep(acc, es[i]) \in V
    BY <1>1, <1>2, RunsStepType
  <2> QED BY <1>3, <2>1
<1>5. <<>> \in V
  BY <1>2, NoRuns
<1>6. \A i \in 1..n, acc \in V : op[<<i, acc>>] = RunsStep(acc, es[i])
  BY <1>3
<1> DEFINE R(h) == h = [s \in SUBSET DOMAIN es |->
                          IF s = {} THEN <<>>
                          ELSE LET x == Max(s)
                               IN  RunsStep(h[s \ {x}], es[x])]
<1>7. PICK g \in [SUBSET (1..n) -> V] : Unfolds(g, n, op, <<>>)
  BY <1>4, <1>5, FoldUnfolds
<1>8. R(g)
  <2>1. ASSUME NEW s \in SUBSET (1..n), s # {}
        PROVE  g[s] = RunsStep(g[s \ {Max(s)}], es[Max(s)])
    BY <1>6, <1>7, <2>1 DEF Unfolds
  <2>2. \A s \in SUBSET (1..n) : s # {} => Max(s) \in 1..n
    BY <1>7 DEF Unfolds
  <2>3. g[{}] = <<>>
    BY <1>7 DEF Unfolds
  <2> QED BY <1>1, <2>1, <2>2, <2>3
<1>9. PICK h : h = CHOOSE x : R(x)
  OBVIOUS
<1>10. R(h)
  BY <1>8, <1>9
<1>11. Runs(es) = h[1..n]
  BY <1>1, <1>9 DEF Runs, FoldLeft, MapThenFoldSet, RunsStep
<1>12. Follows(h, n, op, <<>>, V)
  <2>0. h[{}] = <<>>
    BY <1>10
  <2> SUFFICES ASSUME NEW s \in SUBSET (1..n), s # {}, h[s \ {Max(s)}] \in V
               PROVE  h[s] = op[<<Max(s), h[s \ {Max(s)}]>>]
    BY <2>0 DEF Follows
  <2>1. Max(s) \in 1..n
    BY <1>7 DEF Unfolds
  <2>2. h[s] = RunsStep(h[s \ {Max(s)}], es[Max(s)])
    BY <1>1, <1>10, <2>1
  <2> QED BY <1>6, <2>1, <2>2
<1> HIDE DEF R
<1>13. PICK d \in [0..n -> V] : Chain(d, n, op, <<>>) /\ EndsWith(d, n, h[1..n])
  BY <1>4, <1>5, <1>12, FoldChain
<1>14. ASSUME NEW i \in 1..n PROVE d[i] = RunsStep(d[i - 1], es[i])
  <2>1. i - 1 \in 0..n
    OBVIOUS
  <2> QED BY <1>6, <1>13, <2>1 DEF Chain
<1>15. Grouping(d, es, E)
  BY <1>1, <1>2, <1>13, <1>14 DEF Grouping, Chain
<1> QED BY <1>1, <1>11, <1>13, <1>15 DEF EndsWith

\* _group_by_content_type makes runs of the elements it gets.
LEMMA RunsType ==
    ASSUME NEW E, NEW es \in Seq(E)
    PROVE  Runs(es) \in Seq(RunSet(E))
<1>1. PICK d : Grouping(d, es, E) /\ Runs(es) = d[Len(es)]
  BY RunsSteps
<1>2. Len(es) \in 0..Len(es)
  BY LenProperties
<1> QED BY <1>1, <1>2 DEF Grouping
-----------------------------------------------------------------------------
(* The sections.                                                           *)

\* The stack of headings and the groups of _group_by_hierarchy.
Entries    == [level : Nat, position : Nat]
Groups     == [path : Seq(Nat), elements : Seq(ElementSet)]
SectionAccs == [stack : Seq(Entries), groups : Seq(Groups)]
NoSections == [stack |-> <<>>, groups |-> <<>>]

Heading(e)   == [level |-> e.level, position |-> e.position]
PathTo(stack) == [h \in DOMAIN stack |-> stack[h].position]

\* The stack p is what is left of another one: its first m headings.
Pops(p, stack, level, m) ==
    /\ m <= Len(stack) /\ Len(p) = m /\ \A k \in 1..m : p[k] = stack[k]
    /\ m = 0 \/ stack[m].level < level
    /\ \A h \in DOMAIN stack : stack[h].level < level => h <= m

\* The part of the stack that is left: it ends with the last heading above the level.
LEMMA PoppedIs ==
    ASSUME NEW stack \in Seq(Entries), NEW level \in Nat
    PROVE  /\ Popped(stack, level) \in Seq(Entries)
           /\ \E m \in Nat : Pops(Popped(stack, level), stack, level, m)
<1>1. PICK n \in Nat : n = Len(stack) /\ DOMAIN stack = 1..n
  BY LenProperties
<1>2. PICK T : T = {h \in DOMAIN stack : stack[h].level < level}
  OBVIOUS
<1>3. PICK m : m = Max({0} \cup T)
  OBVIOUS
<1>4. m \in {0} \cup T /\ \A x \in {0} \cup T : x <= m
  <2>1. \E x \in {0} \cup T : \A y \in {0} \cup T : x >= y
    <3>1. CASE T = {}
      BY <3>1
    <3>2. CASE T # {}
      <4>1. T \in SUBSET (1..n)
        BY <1>1, <1>2
      <4>2. PICK x : x = Max(T)
        OBVIOUS
      <4>3. x \in T /\ \A y \in T : y <= x
        BY <3>2, <4>1, <4>2, MaxOf
      <4> QED BY <4>1, <4>3
    <3> QED BY <3>1, <3>2
  <2>2. m \in {0} \cup T /\ \A y \in {0} \cup T : m >= y
    BY <1>3, <2>1 DEF Max
  <2>3. {0} \cup T \subseteq Nat
    BY <1>1, <1>2
  <2> QED BY <2>2, <2>3
<1>5. m \in Nat /\ m <= n
  BY <1>1, <1>2, <1>4
<1>6. PICK p : p = SubSeq(stack, 1, m)
  OBVIOUS
<1>7. p \in Seq(Entries) /\ Len(p) = m /\ \A k \in 1..m : p[k] = stack[k]
  <2>1. CASE m = 0
    BY <1>6, <2>1, SubSeqEmpty
  <2>2. CASE m # 0
    <3>1. 1 \in 1..Len(stack) /\ m \in 1..Len(stack) /\ 1 <= m
      BY <1>1, <1>5, <2>2
    <3>2. p \in Seq(Entries) /\ Len(p) = m - 1 + 1 /\ \A k \in 1..(m - 1 + 1) : p[k] = stack[1 + k - 1]
      BY <1>6, <3>1, PartType
    <3>3. m - 1 + 1 = m /\ \A k \in 1..m : 1 + k - 1 = k
      BY <1>5
    <3> QED BY <3>2, <3>3
  <2> QED BY <2>1, <2>2
<1>8. Popped(stack, level) = p
  BY <1>2, <1>3, <1>6 DEF Popped
<1>9. Pops(p, stack, level, m)
  BY <1>1, <1>2, <1>4, <1>5, <1>7 DEF Pops
<1> QED BY <1>5, <1>7, <1>8, <1>9

\* The stack with a heading.
Pushed(acc, e) == Append(Popped(acc.stack, e.level), Heading(e))

\* One iteration of _group_by_hierarchy.
SectionsStep(acc, e) ==
    IF e.structural
      THEN [stack  |-> Pushed(acc, e),
            groups |-> Append(acc.groups, [path |-> PathTo(Pushed(acc, e)), elements |-> <<e>>])]
    ELSE IF acc.groups = <<>>
      THEN [acc EXCEPT !.groups = <<[path |-> <<>>, elements |-> <<e>>]>>]
      ELSE [acc EXCEPT !.groups[Len(acc.groups)].elements = Append(@, e)]

\* The stack and the groups along the loop.
Sectioning(d, es) ==
    /\ d \in [0..Len(es) -> SectionAccs] /\ d[0] = NoSections
    /\ \A i \in 1..Len(es) : d[i] = SectionsStep(d[i - 1], es[i])

LEMMA PushedType ==
    ASSUME NEW acc \in SectionAccs, NEW e \in ElementSet
    PROVE  /\ Popped(acc.stack, e.level) \in Seq(Entries) /\ Heading(e) \in Entries
           /\ Pushed(acc, e) \in Seq(Entries) /\ PathTo(Pushed(acc, e)) \in Seq(Nat)
<1>1. acc.stack \in Seq(Entries) /\ e.level \in Nat /\ e.position \in Nat
  BY DEF SectionAccs, ElementSet
<1>2. Popped(acc.stack, e.level) \in Seq(Entries) /\ Heading(e) \in Entries
  BY <1>1, PoppedIs DEF Heading, Entries
<1>3. PICK new : new = Pushed(acc, e)
  OBVIOUS
<1>4. new \in Seq(Entries)
  BY <1>2, <1>3 DEF Pushed
<1>5. PICK n \in Nat : n = Len(new) /\ DOMAIN new = 1..n /\ \A h \in 1..n : new[h] \in Entries
  BY <1>4, LenProperties
<1>6. \A h \in 1..n : new[h].position \in Nat
  BY <1>5 DEF Entries
<1>7. PathTo(new) = [h \in 1..n |-> new[h].position]
  BY <1>5 DEF PathTo
<1>8. PathTo(new) \in Seq(Nat)
  BY <1>6, <1>7
<1> QED BY <1>2, <1>3, <1>4, <1>8

\* The last group, g, has one element more.
Extends(new, acc, e, n, g) ==
    /\ n = Len(acc.groups) /\ acc.groups[n] = g
    /\ new.stack = acc.stack
    /\ new.groups = [acc.groups EXCEPT ![n] = [path |-> g.path, elements |-> Append(g.elements, e)]]
    /\ new = [stack |-> new.stack, groups |-> new.groups]
    /\ [path |-> g.path, elements |-> Append(g.elements, e)] \in Groups

\* An element that is no heading joins the last group.
LEMMA JoinsGroup ==
    ASSUME NEW acc \in SectionAccs, acc.groups # <<>>, NEW e \in ElementSet,
           NEW new, new = [acc EXCEPT !.groups[Len(acc.groups)].elements = Append(@, e)]
    PROVE  \E n \in Nat \ {0}, g \in Groups : Extends(new, acc, e, n, g)
<1>1. acc.groups \in Seq(Groups) /\ acc = [stack |-> acc.stack, groups |-> acc.groups]
  BY DEF SectionAccs
<1>2. PICK n \in Nat \ {0} : n = Len(acc.groups) /\ DOMAIN acc.groups = 1..n
  BY <1>1, LenProperties, EmptySeq
<1>3. PICK g : g = acc.groups[n]
  OBVIOUS
<1>4. g \in Groups
  <2>1. n \in 1..Len(acc.groups)
    BY <1>2
  <2> QED BY <1>1, <1>3, <2>1, ElementOfSeq
<1>5. g.path \in Seq(Nat) /\ g.elements \in Seq(ElementSet)
        /\ g = [path |-> g.path, elements |-> g.elements]
  BY <1>4 DEF Groups
<1>6. Append(g.elements, e) \in Seq(ElementSet)
  BY <1>5
<1>7. PICK more : more = Append(g.elements, e)
  OBVIOUS
<1>8. [path |-> g.path, elements |-> more] \in Groups
  BY <1>5, <1>6, <1>7 DEF Groups
<1>9. new = [acc EXCEPT !.groups = [acc.groups EXCEPT ![n] = [g EXCEPT !.elements = more]]]
  BY <1>1, <1>2, <1>3, <1>7
<1>10. [g EXCEPT !.elements = more] = [path |-> g.path, elements |-> more]
  BY <1>5
<1>11. /\ new.stack = acc.stack
       /\ new.groups = [acc.groups EXCEPT ![n] = [path |-> g.path, elements |-> more]]
       /\ new = [stack |-> new.stack, groups |-> new.groups]
  BY <1>1, <1>9, <1>10
<1>12. Extends(new, acc, e, n, g)
  BY <1>2, <1>3, <1>7, <1>8, <1>11 DEF Extends
<1> QED BY <1>4, <1>12

LEMMA SectionsStepType ==
    ASSUME NEW es \in Seq(ElementSet), NEW i \in 1..Len(es), NEW acc \in SectionAccs
    PROVE  SectionsStep(acc, es[i]) \in SectionAccs
<1>1. PICK e \in ElementSet : e = es[i]
  BY ElementOfSeq
<1>2. acc.stack \in Seq(Entries) /\ acc.groups \in Seq(Groups)
  BY DEF SectionAccs
<1>3. CASE e.structural
  <2>1. Pushed(acc, e) \in Seq(Entries) /\ PathTo(Pushed(acc, e)) \in Seq(Nat)
    BY PushedType
  <2>2. [path |-> PathTo(Pushed(acc, e)), elements |-> <<e>>] \in Groups
    BY <2>1 DEF Groups
  <2>3. Append(acc.groups, [path |-> PathTo(Pushed(acc, e)), elements |-> <<e>>]) \in Seq(Groups)
    BY <1>2, <2>2
  <2> QED BY <1>1, <1>3, <2>1, <2>3 DEF SectionsStep, SectionAccs
<1>4. CASE ~e.structural /\ acc.groups = <<>>
  <2>1. <<[path |-> <<>>, elements |-> <<e>>]>> \in Seq(Groups)
    BY DEF Groups
  <2>2. [acc EXCEPT !.groups = <<[path |-> <<>>, elements |-> <<e>>]>>] \in SectionAccs
    BY <2>1 DEF SectionAccs
  <2> QED BY <1>1, <1>4, <2>2 DEF SectionsStep
<1>5. CASE ~e.structural /\ acc.groups # <<>>
  <2>1. PICK new : new = [acc EXCEPT !.groups[Len(acc.groups)].elements = Append(@, e)]
    OBVIOUS
  <2>2. PICK n \in Nat \ {0}, g \in Groups : Extends(new, acc, e, n, g)
    BY <1>5, <2>1, JoinsGroup
  <2>3. n \in 1..Len(acc.groups)
    BY <2>2 DEF Extends
  <2>4. new.groups \in Seq(Groups)
    BY <1>2, <2>2, <2>3, ExceptSeq DEF Extends
  <2>5. new \in SectionAccs
    BY <1>2, <2>2, <2>4 DEF SectionAccs, Extends
  <2>6. SectionsStep(acc, e) = new
    BY <1>5, <2>1 DEF SectionsStep
  <2> QED BY <1>1, <2>5, <2>6
<1> QED BY <1>3, <1>4, <1>5

LEMMA NoSectionsType == NoSections \in SectionAccs
BY DEF NoSections, SectionAccs

\* Sections is the chain of the iterations.
LEMMA SectionsSteps ==
    ASSUME NEW es \in Seq(ElementSet)
    PROVE  \E d : Sectioning(d, es) /\ Sections(es) = d[Len(es)].groups
<1>1. PICK n \in Nat : n = Len(es) /\ DOMAIN es = 1..n
  BY LenProperties
<1>2. PICK V : V = SectionAccs
  OBVIOUS
<1>3. PICK op : op = [q \in (1..n) \X V |-> SectionsStep(q[2], es[q[1]])]
  OBVIOUS
<1>4. op \in [(1..n) \X V -> V]
  <2>1. ASSUME NEW i \in 1..n, NEW acc \in V PROVE SectionsStep(acc, es[i]) \in V
    BY <1>1, <1>2, SectionsStepType
  <2> QED BY <1>3, <2>1
<1>5. NoSections \in V
  BY <1>2, NoSectionsType
<1>6. \A i \in 1..n, acc \in V : op[<<i, acc>>] = SectionsStep(acc, es[i])
  BY <1>3
<1> DEFINE R(h) == h = [s \in SUBSET DOMAIN es |->
                          IF s = {} THEN NoSections
                          ELSE LET x == Max(s)
                               IN  SectionsStep(h[s \ {x}], es[x])]
<1>7. PICK g \in [SUBSET (1..n) -> V] : Unfolds(g, n, op, NoSections)
  BY <1>4, <1>5, FoldUnfolds
<1>8. R(g)
  <2>1. ASSUME NEW s \in SUBSET (1..n), s # {}
        PROVE  g[s] = SectionsStep(g[s \ {Max(s)}], es[Max(s)])
    BY <1>6, <1>7, <2>1 DEF Unfolds
  <2>2. \A s \in SUBSET (1..n) : s # {} => Max(s) \in 1..n
    BY <1>7 DEF Unfolds
  <2>3. g[{}] = NoSections
    BY <1>7 DEF Unfolds
  <2> QED BY <1>1, <2>1, <2>2, <2>3
<1>9. PICK h : h = CHOOSE x : R(x)
  OBVIOUS
<1>10. R(h)
  BY <1>8, <1>9
<1>11. Sections(es) = h[1..n].groups
  BY <1>1, <1>9 DEF Sections, FoldLeft, MapThenFoldSet, SectionsStep, Pushed, Heading, PathTo,
     NoSections
<1>12. Follows(h, n, op, NoSections, V)
  <2>0. h[{}] = NoSections
    BY <1>10
  <2> SUFFICES ASSUME NEW s \in SUBSET (1..n), s # {}, h[s \ {Max(s)}] \in V
               PROVE  h[s] = op[<<Max(s), h[s \ {Max(s)}]>>]
    BY <2>0 DEF Follows
  <2>1. Max(s) \in 1..n
    BY <1>7 DEF Unfolds
  <2>2. h[s] = SectionsStep(h[s \ {Max(s)}], es[Max(s)])
    BY <1>1, <1>10, <2>1
  <2> QED BY <1>6, <2>1, <2>2
<1> HIDE DEF R
<1>13. PICK d \in [0..n -> V] : Chain(d, n, op, NoSections) /\ EndsWith(d, n, h[1..n])
  BY <1>4, <1>5, <1>12, FoldChain
<1>14. ASSUME NEW i \in 1..n PROVE d[i] = SectionsStep(d[i - 1], es[i])
  <2>1. i - 1 \in 0..n
    OBVIOUS
  <2> QED BY <1>6, <1>13, <2>1 DEF Chain
<1>15. Sectioning(d, es)
  BY <1>1, <1>2, <1>13, <1>14 DEF Sectioning, Chain
<1> QED BY <1>1, <1>11, <1>13, <1>15 DEF EndsWith

\* The elements are in the order of their positions.
Ascends(es) == \A j, k \in DOMAIN es : j < k => es[j].position < es[k].position

\* The headings among the first i elements with no heading of the same or a higher rank
\* between them and the i-th one.
Above(es, i) ==
    {h \in 1..i : es[h].structural /\ \A g \in (h + 1)..i : es[g].structural
          => es[g].level > es[h].level}

\* A stack has the headings above an element, in their order.
StackIs(stack, es, i) ==
    /\ \A k \in DOMAIN stack : \E h \in Above(es, i) : stack[k] = Heading(es[h])
    /\ \A h \in Above(es, i) : \E k \in DOMAIN stack : stack[k] = Heading(es[h])
    /\ \A j, k \in DOMAIN stack : j < k => stack[j].position < stack[k].position

\* A path leads to an element.
HasPath(path, es, i) ==
    /\ \A k \in DOMAIN path : \E h \in Above(es, i) : path[k] = es[h].position
    /\ \A h \in Above(es, i) : \E k \in DOMAIN path : path[k] = es[h].position
    /\ \A j, k \in DOMAIN path : j < k => path[j] < path[k]

\* The elements that a path leads to, and the groups of such elements.
Under(path, es) == {es[i] : i \in {m \in DOMAIN es : HasPath(path, es, m)}}
GroupSet(es) == {g \in Groups : g.elements \in Seq(Under(g.path, es))}

\* The path of a new group leads to its heading.
LEMMA StackPath ==
    ASSUME NEW stack, NEW es, NEW i, StackIs(stack, es, i)
    PROVE  HasPath(PathTo(stack), es, i)
<1>1. PICK path : path = PathTo(stack)
  OBVIOUS
<1>2. DOMAIN path = DOMAIN stack /\ \A k \in DOMAIN path : path[k] = stack[k].position
  BY <1>1 DEF PathTo
<1>3. \A h : Heading(es[h]).position = es[h].position
  BY DEF Heading
<1> QED BY <1>1, <1>2, <1>3 DEF StackIs, HasPath

\* The levels of a stack ascend.
LEMMA LevelsAscend ==
    ASSUME NEW es \in Seq(ElementSet), Ascends(es), NEW i \in 0..Len(es), NEW stack,
          StackIs(stack, es, i),
           NEW j \in DOMAIN stack, NEW k \in DOMAIN stack, j < k
    PROVE  stack[j].level < stack[k].level
<1>1. PICK h \in Above(es, i), g \in Above(es, i) : stack[j] = Heading(es[h])
        /\ stack[k] = Heading(es[g])
  BY DEF StackIs
<1>2. /\ es[h].position < es[g].position
      /\ stack[j].level = es[h].level /\ stack[k].level = es[g].level
  BY <1>1 DEF StackIs, Heading
<1>3. /\ h \in 1..i /\ g \in 1..i /\ es[g].structural /\ i \in Nat
      /\ \A f \in (h + 1)..i : es[f].structural => es[f].level > es[h].level
  BY <1>1, LenProperties DEF Above
<1>4. h \in DOMAIN es /\ g \in DOMAIN es
  BY <1>3, LenProperties
<1>5. es[h].position \in Nat /\ es[g].position \in Nat /\ es[h].level \in Nat /\ es[g].level \in Nat
  <2>1. es[h] \in ElementSet /\ es[g] \in ElementSet
    BY <1>4
  <2> QED BY <2>1 DEF ElementSet
<1>6. h < g
  <2>1. g < h => es[g].position < es[h].position
    BY <1>4 DEF Ascends
  <2> QED BY <1>2, <1>3, <1>5, <2>1
<1>7. g \in (h + 1)..i
  BY <1>3, <1>6
<1> QED BY <1>2, <1>3, <1>5, <1>7

\* Who is above a heading, and above another element.
LEMMA AboveNext ==
    ASSUME NEW es \in Seq(ElementSet), NEW i \in 1..Len(es)
    PROVE  /\ ~es[i].structural => Above(es, i) = Above(es, i - 1)
           /\ es[i].structural =>
                Above(es, i) = {h \in Above(es, i - 1) : es[h].level < es[i].level} \cup {i}
<1>1. i \in Nat \ {0}
  BY LenProperties
<1>2. \A h \in 1..i : es[h].level \in Nat
  <2>1. \A h \in 1..i : es[h] \in ElementSet
    BY <1>1, LenProperties
  <2> QED BY <2>1 DEF ElementSet
<1>3. ASSUME NEW h \in 1..(i - 1)
      PROVE  (\A g \in (h + 1)..i : es[g].structural => es[g].level > es[h].level)
               <=> /\ \A g \in (h + 1)..(i - 1) : es[g].structural => es[g].level > es[h].level
                   /\ es[i].structural => es[i].level > es[h].level
  <2>1. (h + 1)..i = ((h + 1)..(i - 1)) \cup {i}
    BY <1>1
  <2> QED BY <2>1
<1>4. 1..i = (1..(i - 1)) \cup {i} /\ i \notin 1..(i - 1) /\ (i + 1)..i = {}
  BY <1>1
<1>5. ASSUME NEW h \in 1..(i - 1)
      PROVE  h \in Above(es, i) <=> h \in Above(es, i - 1)
            /\ (es[i].structural => es[i].level > es[h].level)
  BY <1>3, <1>4 DEF Above
<1>6. i \in Above(es, i) <=> es[i].structural
  BY <1>4 DEF Above
<1>7. Above(es, i) \subseteq 1..i /\ Above(es, i - 1) \subseteq 1..(i - 1)
  BY DEF Above
<1>8. ASSUME NEW h \in 1..(i - 1) PROVE es[i].level > es[h].level <=> es[h].level < es[i].level
  BY <1>2, <1>4, <1>8
<1>9. CASE es[i].structural
  <2>1. ASSUME NEW h \in 1..(i - 1)
        PROVE  h \in Above(es, i) <=> h \in Above(es, i - 1) /\ es[h].level < es[i].level
    BY <1>5, <1>8, <1>9
  <2>2. Above(es, i) = {h \in Above(es, i - 1) : es[h].level < es[i].level} \cup {i}
    BY <1>4, <1>6, <1>7, <1>9, <2>1
  <2> QED BY <1>9, <2>2
<1>10. CASE ~es[i].structural
  <2>1. Above(es, i) = Above(es, i - 1)
    BY <1>4, <1>5, <1>6, <1>7, <1>10
  <2> QED BY <1>10, <2>1
<1> QED BY <1>9, <1>10

\* A heading takes the place of those that are not above it.
LEMMA StackGrows ==
    ASSUME NEW es \in Seq(ElementSet), Ascends(es), NEW i \in 1..Len(es), es[i].structural,
           NEW acc \in SectionAccs, StackIs(acc.stack, es, i - 1)
    PROVE  StackIs(Pushed(acc, es[i]), es, i)
<1>1. PICK e \in ElementSet : e = es[i]
  BY ElementOfSeq
<1>2. PICK stack \in Seq(Entries) : stack = acc.stack
  BY DEF SectionAccs
<1>3. e.level \in Nat /\ e.position \in Nat
  BY DEF ElementSet
<1>4. PICK p \in Seq(Entries) : p = Popped(stack, e.level)
  BY <1>2, <1>3, PoppedIs
<1>5. PICK m \in Nat : Pops(p, stack, e.level, m)
  BY <1>2, <1>3, <1>4, PoppedIs
<1>6. PICK new : new = Pushed(acc, e)
  OBVIOUS
<1>7. Heading(e) \in Entries
  BY PushedType
<1>8. /\ new = Append(p, Heading(e)) /\ DOMAIN new = 1..(m + 1) /\ new[m + 1] = Heading(e)
      /\ \A k \in 1..m : new[k] = stack[k] /\ k \in DOMAIN stack
  <2>1. new = Append(p, Heading(e))
    BY <1>2, <1>4, <1>6 DEF Pushed
  <2>2. m <= Len(stack) /\ Len(p) = m /\ \A k \in 1..m : p[k] = stack[k]
    BY <1>5 DEF Pops
  <2>3. DOMAIN stack = 1..Len(stack) /\ Len(stack) \in Nat
    BY LenProperties
  <2>4. DOMAIN new = 1..(m + 1) /\ new[m + 1] = Heading(e) /\ \A k \in 1..m : new[k] = p[k]
    BY <1>7, <2>1, <2>2, AppendProperties
  <2> QED BY <2>1, <2>2, <2>3, <2>4
<1>9. i - 1 \in 0..Len(es) /\ i \in DOMAIN es /\ i \in Nat
  BY LenProperties
<1>10. StackIs(stack, es, i - 1)
  BY <1>2
<1>11. Above(es, i) = {h \in Above(es, i - 1) : es[h].level < e.level} \cup {i}
  BY <1>1, AboveNext
<1>12. ASSUME NEW k \in DOMAIN stack
       PROVE  stack[k].level \in Nat /\ (k \in 1..m <=> stack[k].level < e.level)
  <2>1. stack[k].level \in Nat
    <3>1. stack[k] \in Entries
      BY <1>2
    <3> QED BY <3>1 DEF Entries
  <2>2. k \in 1..Len(stack) /\ Len(stack) \in Nat
    BY LenProperties
  <2>3. stack[k].level < e.level => k <= m
    BY <1>5 DEF Pops
  <2>4. ASSUME k \in 1..m PROVE stack[k].level < e.level
    <3>1. stack[m].level < e.level /\ m \in DOMAIN stack
      BY <1>5, <1>8, <2>4 DEF Pops
    <3>2. CASE k = m
      BY <3>1, <3>2
    <3>3. CASE k # m
      <4>1. k < m
        BY <2>4, <3>3
      <4>2. stack[k].level < stack[m].level
        BY <1>9, <1>10, <3>1, <4>1, LevelsAscend
      <4>3. stack[m].level \in Nat
        <5>1. stack[m] \in Entries
          BY <1>2, <3>1
        <5> QED BY <5>1 DEF Entries
      <4> QED BY <1>3, <2>1, <3>1, <4>2, <4>3
    <3> QED BY <3>2, <3>3
  <2> QED BY <2>1, <2>2, <2>3, <2>4
<1>13. ASSUME NEW k \in DOMAIN new PROVE \E h \in Above(es, i) : new[k] = Heading(es[h])
  <2>1. CASE k = m + 1
    BY <1>1, <1>8, <1>11, <2>1
  <2>2. CASE k # m + 1
    <3>1. k \in 1..m /\ k \in DOMAIN stack /\ new[k] = stack[k]
      BY <1>8, <2>2
    <3>2. PICK h \in Above(es, i - 1) : stack[k] = Heading(es[h])
      BY <1>10, <3>1 DEF StackIs
    <3>3. es[h].level < e.level
      <4>1. stack[k].level < e.level
        BY <1>12, <3>1
      <4> QED BY <3>2, <4>1 DEF Heading
    <3> QED BY <1>11, <3>1, <3>2, <3>3
  <2> QED BY <2>1, <2>2
<1>14. ASSUME NEW h \in Above(es, i) PROVE \E k \in DOMAIN new : new[k] = Heading(es[h])
  <2>1. CASE h = i
    <3>1. m + 1 \in DOMAIN new
      BY <1>8
    <3> QED BY <1>1, <1>8, <2>1, <3>1
  <2>2. CASE h # i
    <3>1. h \in Above(es, i - 1) /\ es[h].level < e.level
      BY <1>11, <2>2
    <3>2. PICK k \in DOMAIN stack : stack[k] = Heading(es[h])
      BY <1>10, <3>1 DEF StackIs
    <3>3. stack[k].level < e.level
      BY <3>1, <3>2 DEF Heading
    <3>4. k \in 1..m
      BY <1>12, <3>3
    <3> QED BY <1>8, <3>2, <3>4
  <2> QED BY <2>1, <2>2
<1>15. ASSUME NEW j \in DOMAIN new, NEW k \in DOMAIN new, j < k PROVE new[j].position < new[k].position
  <2>1. j \in 1..m /\ new[j] = stack[j] /\ j \in DOMAIN stack
    BY <1>8, <1>15
  <2>2. CASE k = m + 1
    <3>1. PICK h \in Above(es, i - 1) : stack[j] = Heading(es[h])
      BY <1>10, <2>1 DEF StackIs
    <3>2. h \in DOMAIN es /\ h < i
      <4>1. h \in 1..(i - 1)
        BY DEF Above
      <4> QED BY <1>9, <4>1, LenProperties
    <3>3. es[h].position < es[i].position
      BY <1>9, <3>2 DEF Ascends
    <3> QED BY <1>1, <1>8, <2>1, <2>2, <3>1, <3>3 DEF Heading
  <2>3. CASE k # m + 1
    <3>1. k \in 1..m /\ new[k] = stack[k] /\ k \in DOMAIN stack
      BY <1>8, <2>3
    <3> QED BY <1>10, <1>15, <2>1, <3>1 DEF StackIs
  <2> QED BY <2>2, <2>3
<1> QED BY <1>1, <1>6, <1>13, <1>14, <1>15 DEF StackIs

\* What the loop over the elements has got after i of them.
SectionsUpto(acc, es, i) ==
    /\ StackIs(acc.stack, es, i)
    /\ acc.groups \in Seq(GroupSet(es))
    /\ acc.groups # <<>> => acc.groups[Len(acc.groups)].path = PathTo(acc.stack)
    /\ acc.groups = <<>> => acc.stack = <<>>

\* A group of one element.
LEMMA OneGroup ==
    ASSUME NEW es \in Seq(ElementSet), NEW i \in DOMAIN es, NEW path \in Seq(Nat), HasPath(path, es, i)
    PROVE  [path |-> path, elements |-> <<es[i]>>] \in GroupSet(es)
<1>1. PICK e : e = es[i]
  OBVIOUS
<1>2. e \in ElementSet
  BY <1>1
<1>3. e \in Under(path, es)
  BY <1>1 DEF Under
<1>4. [path |-> path, elements |-> <<e>>] \in Groups
  BY <1>2 DEF Groups
<1>5. PICK g : g = [path |-> path, elements |-> <<e>>]
  OBVIOUS
<1>6. <<e>> \in Seq(Under(path, es))
  BY <1>3
<1>7. g \in Groups /\ g.elements \in Seq(Under(g.path, es))
  BY <1>4, <1>5, <1>6
<1> QED BY <1>1, <1>5, <1>7 DEF GroupSet

\* A heading opens a group.
LEMMA HeadingUpto ==
    ASSUME NEW es \in Seq(ElementSet), Ascends(es), NEW i \in 1..Len(es), es[i].structural,
           NEW acc \in SectionAccs, SectionsUpto(acc, es, i - 1)
    PROVE  SectionsUpto(SectionsStep(acc, es[i]), es, i)
<1>1. PICK e \in ElementSet : e = es[i]
  BY ElementOfSeq
<1>2. PICK new : new = SectionsStep(acc, e)
  OBVIOUS
<1>3. PICK stack \in Seq(Entries) : stack = Pushed(acc, e)
  BY PushedType
<1>4. PICK path \in Seq(Nat) : path = PathTo(stack)
  BY <1>3, PushedType
<1>5. PICK g : g = [path |-> path, elements |-> <<e>>]
  OBVIOUS
<1>6. new.stack = stack /\ new.groups = Append(acc.groups, g)
  BY <1>1, <1>2, <1>3, <1>4, <1>5 DEF SectionsStep
<1>7. StackIs(stack, es, i)
  BY <1>1, <1>3, StackGrows DEF SectionsUpto
<1>8. HasPath(path, es, i)
  BY <1>4, <1>7, StackPath
<1>9. g \in GroupSet(es)
  <2>1. i \in DOMAIN es
    BY LenProperties
  <2> QED BY <1>1, <1>5, <1>8, <2>1, OneGroup
<1>10. PICK n \in Nat : n = Len(acc.groups)
  <2>1. acc.groups \in Seq(Groups)
    BY DEF SectionAccs
  <2> QED BY <2>1, LenProperties
<1>11. acc.groups \in Seq(GroupSet(es))
  BY DEF SectionsUpto
<1>12. PICK gs : gs = Append(acc.groups, g)
  OBVIOUS
<1>13. gs \in Seq(GroupSet(es)) /\ Len(gs) = n + 1 /\ gs[n + 1] = g
  BY <1>9, <1>10, <1>11, <1>12, AppendProperties
<1>14. gs # <<>>
  BY <1>10, <1>13, EmptySeq
<1>15. gs[Len(gs)].path = path
  BY <1>5, <1>13
<1> QED BY <1>1, <1>2, <1>4, <1>6, <1>7, <1>12, <1>13, <1>14, <1>15 DEF SectionsUpto

\* Another element joins the group of the headings above it.
LEMMA OtherUpto ==
    ASSUME NEW es \in Seq(ElementSet), NEW i \in 1..Len(es), ~es[i].structural,
           NEW acc \in SectionAccs, SectionsUpto(acc, es, i - 1)
    PROVE  SectionsUpto(SectionsStep(acc, es[i]), es, i)
<1>1. PICK e \in ElementSet : e = es[i]
  BY ElementOfSeq
<1>2. PICK new : new = SectionsStep(acc, e)
  OBVIOUS
<1>3. Above(es, i) = Above(es, i - 1)
  BY AboveNext
<1>4. StackIs(acc.stack, es, i)
  BY <1>3 DEF SectionsUpto, StackIs
<1>5. HasPath(PathTo(acc.stack), es, i)
  BY <1>4, StackPath
<1>6. i \in DOMAIN es
  BY LenProperties
<1>7. CASE acc.groups = <<>>
  <2>1. PICK g : g = [path |-> <<>>, elements |-> <<e>>]
    OBVIOUS
  <2>2. new = [acc EXCEPT !.groups = <<g>>]
    BY <1>1, <1>2, <1>7, <2>1 DEF SectionsStep
  <2>3. new.stack = acc.stack /\ new.groups = <<g>>
    BY <2>2 DEF SectionAccs
  <2>4. acc.stack = <<>>
    BY <1>7 DEF SectionsUpto
  <2>5. PathTo(acc.stack) = <<>>
    BY <2>4 DEF PathTo
  <2>6. g \in GroupSet(es)
    <3>1. <<>> \in Seq(Nat)
      OBVIOUS
    <3> QED BY <1>1, <1>5, <1>6, <2>1, <2>5, <3>1, OneGroup
  <2>7. <<g>> \in Seq(GroupSet(es)) /\ <<g>> # <<>> /\ Len(<<g>>) = 1 /\ <<g>>[1] = g
    BY <2>6
  <2>8. g.path = PathTo(acc.stack)
    BY <2>1, <2>5
  <2> QED BY <1>1, <1>2, <1>4, <2>3, <2>7, <2>8 DEF SectionsUpto
<1>8. CASE acc.groups # <<>>
  <2>1. new = [acc EXCEPT !.groups[Len(acc.groups)].elements = Append(@, e)]
    BY <1>1, <1>2, <1>8 DEF SectionsStep
  <2>2. PICK n \in Nat \ {0}, g \in Groups : Extends(new, acc, e, n, g)
    BY <1>8, <2>1, JoinsGroup
  <2>3. PICK more : more = [path |-> g.path, elements |-> Append(g.elements, e)]
    OBVIOUS
  <2>4. /\ n = Len(acc.groups) /\ acc.groups[n] = g /\ new.stack = acc.stack
        /\ new.groups = [acc.groups EXCEPT ![n] = more] /\ more \in Groups
    BY <2>2, <2>3 DEF Extends
  <2>5. acc.groups \in Seq(GroupSet(es)) /\ n \in 1..Len(acc.groups)
    BY <2>4 DEF SectionsUpto
  <2>6. g \in GroupSet(es)
    BY <2>4, <2>5, ElementOfSeq
  <2>7. g.path = PathTo(acc.stack)
    BY <1>8, <2>4 DEF SectionsUpto
  <2>8. e \in Under(g.path, es)
    BY <1>1, <1>5, <1>6, <2>7 DEF Under
  <2>9. Append(g.elements, e) \in Seq(Under(g.path, es))
    BY <2>6, <2>8 DEF GroupSet
  <2>10. more \in GroupSet(es)
    BY <2>3, <2>4, <2>9 DEF GroupSet
  <2>11. PICK gs : gs = [acc.groups EXCEPT ![n] = more]
    OBVIOUS
  <2>12. gs \in Seq(GroupSet(es)) /\ Len(gs) = n /\ gs[n] = more
    BY <2>4, <2>5, <2>10, <2>11, ExceptSeq
  <2>13. gs # <<>>
    BY <2>12, EmptySeq
  <2>14. more.path = PathTo(new.stack)
    BY <2>3, <2>4, <2>7
  <2> QED BY <1>1, <1>2, <1>4, <2>4, <2>11, <2>12, <2>13, <2>14 DEF SectionsUpto
<1> QED BY <1>7, <1>8

\* _group_by_hierarchy: every element is in a group with the path to it.
LEMMA SectionsGood ==
    ASSUME NEW es \in Seq(ElementSet), Ascends(es)
    PROVE  Sections(es) \in Seq(GroupSet(es))
<1>1. PICK d : Sectioning(d, es) /\ Sections(es) = d[Len(es)].groups
  BY SectionsSteps
<1>2. PICK n \in Nat : n = Len(es)
  BY LenProperties
<1>3. PICK good : good = {i \in 0..n : SectionsUpto(d[i], es, i)}
  OBVIOUS
<1>4. 0 \in good
  <2>1. d[0] = NoSections
    BY <1>1 DEF Sectioning
  <2>2. NoSections.stack = <<>> /\ NoSections.groups = <<>>
    BY DEF NoSections
  <2>3. Above(es, 0) = {} /\ DOMAIN <<>> = {}
    BY DEF Above
  <2>4. StackIs(<<>>, es, 0)
    BY <2>3 DEF StackIs
  <2>5. <<>> \in Seq(GroupSet(es))
    OBVIOUS
  <2>6. SectionsUpto(NoSections, es, 0)
    BY <2>2, <2>4, <2>5 DEF SectionsUpto
  <2> QED BY <1>3, <2>1, <2>6
<1>5. ASSUME NEW i \in 1..n, i - 1 \in good PROVE i \in good
  <2>1. i \in 0..n /\ i - 1 \in 0..n /\ i \in 1..Len(es)
    BY <1>2
  <2>2. d[i] = SectionsStep(d[i - 1], es[i]) /\ d[i - 1] \in SectionAccs
    BY <1>1, <1>2, <2>1 DEF Sectioning
  <2>3. SectionsUpto(d[i - 1], es, i - 1)
    BY <1>3, <1>5
  <2>4. SectionsUpto(d[i], es, i)
    BY <2>1, <2>2, <2>3, HeadingUpto, OtherUpto
  <2> QED BY <1>3, <2>1, <2>4
<1>6. 0..n \subseteq good
  <2>1. \A i \in 1..n : i - 1 \in good => i \in good
    BY <1>5
  <2> QED BY ONLY <1>4, <2>1, n \in Nat, UptoInduction
<1>7. SectionsUpto(d[n], es, n)
  BY <1>3, <1>6
<1> QED BY <1>1, <1>2, <1>7 DEF SectionsUpto
-----------------------------------------------------------------------------
(* The chunks.                                                             *)

\* Each element of a chunk has its path.
OnPath(c, es) == \A n \in c.elements : \E m \in DOMAIN es : n = es[m].position /\ HasPath(c.path, es, m)

\* The chunks of elements.
ChunkSet(es) ==
    {c \in [elements : SUBSET Nat, words : Seq(Words), kind : {"text", "table", "visual"}, path :
          Seq(Nat)] :
        Sized(c) /\ OnPath(c, es) /\ (c.kind = "table" => WholeRows(c, es))}

\* The chunks of a run and of a section, and all of them.
OfRun(path, run) ==
    LET cs == ChunksOfKind(run[1].kind, run)
    IN  [i \in DOMAIN cs |-> [elements |-> cs[i].elements, words |-> cs[i].words,
                              kind |-> run[1].kind, path |-> path]]
OfSection(g) ==
    LET runs == Runs(g.elements)
    IN  FlattenSeq([r \in DOMAIN runs |-> OfRun(g.path, runs[r])])

LEMMA ChunksAre ==
    ASSUME NEW es
    PROVE  Chunks(es) = FlattenSeq([s \in DOMAIN Sections(es) |-> OfSection(Sections(es)[s])])
BY DEF Chunks, OfSection, OfRun

\* A chunk that is made of a piece.
LEMMA ChunkOfPiece ==
    ASSUME NEW es \in Seq(ElementSet), NEW path \in Seq(Nat), NEW kind \in {"text", "table", "visual"},
           NEW run \in Seq(Under(path, es)), NEW p \in RunPieces(kind, run)
    PROVE  [elements |-> p.elements, words |-> p.words, kind |-> kind, path |-> path] \in ChunkSet(es)
<1>1. PICK c : c = [elements |-> p.elements, words |-> p.words, kind |-> kind, path |-> path]
  OBVIOUS
<1>2. c.elements = p.elements /\ c.words = p.words /\ c.kind = kind /\ c.path = path
  BY <1>1
<1>3. p \in Texty /\ Sized(p) /\ p.elements \subseteq Places(run)
        /\ (kind = "table" => WholeRows(p, run))
  BY DEF RunPieces, From
<1>4. c \in [elements : SUBSET Nat, words : Seq(Words), kind : {"text", "table", "visual"},
        path : Seq(Nat)]
  BY <1>1, <1>3 DEF Texty
<1>5. Sized(c)
  <2>1. Tokens(c) = Tokens(p)
    BY <1>2 DEF Tokens
  <2> QED BY <1>2, <1>3, <2>1 DEF Sized, Fits
<1>6. ASSUME NEW k \in DOMAIN run
      PROVE  \E m \in DOMAIN es : run[k] = es[m] /\ HasPath(path, es, m)
  <2>1. run[k] \in Under(path, es)
    OBVIOUS
  <2> QED BY <2>1 DEF Under
<1>7. OnPath(c, es)
  <2>1. ASSUME NEW n \in p.elements
          PROVE \E m \in DOMAIN es : n = es[m].position /\ HasPath(path, es, m)
    <3>1. PICK k \in DOMAIN run : n = run[k].position
      BY <1>3 DEF Places
    <3> QED BY <1>6, <3>1
  <2> QED BY <1>2, <2>1 DEF OnPath
<1>8. ASSUME kind = "table" PROVE WholeRows(c, es)
  <2>1. ASSUME p.elements # {}
        PROVE  \E m \in DOMAIN es : p.elements = {es[m].position} /\ RowsWhole(p.words, es[m])
    <3>1. PICK k \in DOMAIN run : p.elements = {run[k].position} /\ RowsWhole(p.words, run[k])
      BY <1>3, <1>8, <2>1 DEF WholeRows
    <3> QED BY <1>6, <3>1
  <2> QED BY <1>2, <2>1 DEF WholeRows
<1> QED BY <1>1, <1>2, <1>4, <1>5, <1>7, <1>8 DEF ChunkSet

\* The chunks of a run have the path of its section.
LEMMA OfRunType ==
    ASSUME NEW es \in Seq(ElementSet), \A i \in DOMAIN es : Marked(es[i]),
           NEW path \in Seq(Nat), NEW run \in RunSet(Under(path, es))
    PROVE  OfRun(path, run) \in Seq(ChunkSet(es))
<1>1. Under(path, es) \in SUBSET ElementSet /\ \A e \in Under(path, es) : Marked(e)
  <2>1. \A i \in DOMAIN es : es[i] \in ElementSet
    OBVIOUS
  <2> QED BY <2>1 DEF Under
<1>2. PICK kind : kind = run[1].kind
  OBVIOUS
<1>3. PICK cs : cs = ChunksOfKind(kind, run)
  OBVIOUS
<1>4. cs \in Seq(RunPieces(kind, run))
  BY <1>1, <1>2, <1>3, ChunksOfKindFrom
<1>5. run \in Seq(Under(path, es)) /\ run # <<>>
  BY DEF RunSet
<1>6. kind \in {"text", "table", "visual"}
  <2>1. 1 \in DOMAIN run
    BY <1>5
  <2>2. run[1] \in ElementSet
    BY <1>1, <1>5, <2>1
  <2> QED BY <1>2, <2>2 DEF ElementSet
<1>7. PICK n \in Nat : n = Len(cs) /\ DOMAIN cs = 1..n /\ \A i \in 1..n : cs[i] \in RunPieces(kind, run)
  BY <1>4, LenProperties
<1>8. \A i \in 1..n : [elements |-> cs[i].elements, words |-> cs[i].words, kind |-> kind, path |-> path]
                        \in ChunkSet(es)
  BY <1>5, <1>6, <1>7, ChunkOfPiece
<1>9. OfRun(path, run) = [i \in 1..n |-> [elements |-> cs[i].elements, words |-> cs[i].words,
                                         kind |-> kind, path |-> path]]
  BY <1>2, <1>3, <1>7 DEF OfRun
<1> QED BY <1>8, <1>9

\* The chunks of a section have its path.
LEMMA OfSectionType ==
    ASSUME NEW es \in Seq(ElementSet), \A i \in DOMAIN es : Marked(es[i]), NEW g \in GroupSet(es)
    PROVE  OfSection(g) \in Seq(ChunkSet(es))
<1>1. g.path \in Seq(Nat) /\ g.elements \in Seq(Under(g.path, es))
  BY DEF GroupSet, Groups
<1>2. PICK runs : runs = Runs(g.elements)
  OBVIOUS
<1>3. runs \in Seq(RunSet(Under(g.path, es)))
  BY <1>1, <1>2, RunsType
<1>4. PICK n \in Nat : n = Len(runs) /\ DOMAIN runs = 1..n
                       /\ \A r \in 1..n : runs[r] \in RunSet(Under(g.path, es))
  BY <1>3, LenProperties
<1>5. \A r \in 1..n : OfRun(g.path, runs[r]) \in Seq(ChunkSet(es))
  BY <1>1, <1>4, OfRunType
<1>6. [r \in DOMAIN runs |-> OfRun(g.path, runs[r])] \in Seq(Seq(ChunkSet(es)))
  BY <1>4, <1>5
<1> QED BY <1>2, <1>6, FlattenType DEF OfSection

\* HybridDocumentChunker.chunk
LEMMA ChunksType ==
    ASSUME NEW es \in Seq(ElementSet), Ascends(es), \A i \in DOMAIN es : Marked(es[i])
    PROVE  Chunks(es) \in Seq(ChunkSet(es))
<1>1. PICK gs : gs = Sections(es)
  OBVIOUS
<1>2. gs \in Seq(GroupSet(es))
  BY <1>1, SectionsGood
<1>3. PICK n \in Nat : n = Len(gs) /\ DOMAIN gs = 1..n /\ \A s \in 1..n : gs[s] \in GroupSet(es)
  BY <1>2, LenProperties
<1>4. \A s \in 1..n : OfSection(gs[s]) \in Seq(ChunkSet(es))
  BY <1>3, OfSectionType
<1>5. [s \in DOMAIN gs |-> OfSection(gs[s])] \in Seq(Seq(ChunkSet(es)))
  BY <1>3, <1>4
<1> QED BY <1>1, <1>5, ChunksAre, FlattenType
-----------------------------------------------------------------------------
(* The words of pieces and chunks, without the names of columns.           *)

\* Pieces or chunks.
Worded(T) == \A t \in T : t.words \in Seq(Words)

\* The words of pieces, and those that are kept.
WordsOf(ps) == [i \in DOMAIN ps |-> ps[i].words]
Kept(ps, N) == Keep(FlattenSeq(WordsOf(ps)), N)

\* Something was raised instead of one of them.
HasHole(ps) == \E i \in DOMAIN ps : ps[i].elements = {}

\* They have the words of a text in its order, up to those in N.
Same(ps, ws, N) == HasHole(ps) \/ Kept(ps, N) = Keep(ws, N)

LEMMA WordedTexty == Worded(Texty)
BY DEF Worded, Texty

LEMMA WordsOfType ==
    ASSUME NEW T, Worded(T), NEW ps \in Seq(T)
    PROVE  /\ WordsOf(ps) \in Seq(Seq(Words)) /\ Len(WordsOf(ps)) = Len(ps)
           /\ \A i \in 1..Len(ps) : WordsOf(ps)[i] = ps[i].words
           /\ FlattenSeq(WordsOf(ps)) \in Seq(Words)
<1>1. PICK n \in Nat : n = Len(ps) /\ DOMAIN ps = 1..n /\ \A i \in 1..n : ps[i] \in T
  BY LenProperties
<1>2. \A i \in 1..n : ps[i].words \in Seq(Words)
  BY <1>1 DEF Worded
<1>3. PICK ss : ss = WordsOf(ps)
  OBVIOUS
<1>4. ss = [i \in 1..n |-> ps[i].words]
  BY <1>1, <1>3 DEF WordsOf
<1>5. ss \in Seq(Seq(Words)) /\ Len(ss) = n /\ \A i \in 1..n : ss[i] = ps[i].words
  BY <1>2, <1>4
<1>6. FlattenSeq(ss) \in Seq(Words)
  BY <1>5, FlattenType
<1> QED BY <1>1, <1>3, <1>5, <1>6

LEMMA WordsOfConcat ==
    ASSUME NEW T, Worded(T), NEW ps \in Seq(T), NEW qs \in Seq(T)
    PROVE  WordsOf(ps \o qs) = WordsOf(ps) \o WordsOf(qs)
<1>1. PICK n \in Nat, m \in Nat : n = Len(ps) /\ m = Len(qs)
  BY LenProperties
<1>2. PICK all : all = ps \o qs
  OBVIOUS
<1>3. /\ all \in Seq(T) /\ Len(all) = n + m
      /\ \A i \in 1..(n + m) : all[i] = IF i <= n THEN ps[i] ELSE qs[i - n]
  <2>1. /\ all \in Seq(T) /\ Len(all) = Len(ps) + Len(qs)
        /\ \A i \in 1..(Len(ps) + Len(qs)) : all[i] = IF i <= Len(ps) THEN ps[i] ELSE qs[i - Len(ps)]
    BY <1>2, ConcatProperties
  <2> QED BY <1>1, <2>1
<1>4. PICK a, b, c : a = WordsOf(ps) /\ b = WordsOf(qs) /\ c = WordsOf(all)
  OBVIOUS
<1>5. /\ a \in Seq(Seq(Words)) /\ Len(a) = n /\ \A i \in 1..n : a[i] = ps[i].words
      /\ b \in Seq(Seq(Words)) /\ Len(b) = m /\ \A i \in 1..m : b[i] = qs[i].words
  BY <1>1, <1>4, WordsOfType
<1>6. c \in Seq(Seq(Words)) /\ Len(c) = n + m /\ \A i \in 1..(n + m) : c[i] = all[i].words
  BY <1>3, <1>4, WordsOfType
<1>7. PICK ab : ab = a \o b
  OBVIOUS
<1>8. /\ ab \in Seq(Seq(Words)) /\ Len(ab) = n + m
      /\ \A i \in 1..(n + m) : ab[i] = IF i <= n THEN a[i] ELSE b[i - n]
  <2>1. /\ ab \in Seq(Seq(Words)) /\ Len(ab) = Len(a) + Len(b)
        /\ \A i \in 1..(Len(a) + Len(b)) : ab[i] = IF i <= Len(a) THEN a[i] ELSE b[i - Len(a)]
    BY <1>5, <1>7, ConcatProperties
  <2> QED BY <1>5, <2>1
<1>9. ASSUME NEW i \in 1..(n + m) PROVE c[i] = ab[i]
  <2>1. CASE i <= n
    <3>1. i \in 1..n
      BY <2>1
    <3> QED BY <1>3, <1>5, <1>6, <1>8, <2>1, <3>1
  <2>2. CASE ~(i <= n)
    <3>1. PICK j \in 1..m : j = i - n
      BY <2>2
    <3>2. c[i] = qs[j].words /\ ab[i] = b[j]
      BY <1>3, <1>6, <1>8, <2>2, <3>1
    <3> QED BY <1>5, <3>2
  <2> QED BY <2>1, <2>2
<1>10. c = ab
  BY <1>6, <1>8, <1>9, SeqEqual
<1> QED BY <1>2, <1>4, <1>7, <1>10

\* The kept words of pieces are those of the first, then those of the rest.
LEMMA KeptConcat ==
    ASSUME NEW N, NEW T, Worded(T), NEW ps \in Seq(T), NEW qs \in Seq(T)
    PROVE  /\ Kept(ps \o qs, N) = Kept(ps, N) \o Kept(qs, N)
           /\ Kept(ps, N) \in Seq(Words) /\ Kept(qs, N) \in Seq(Words)
<1>1. PICK a, b : a = WordsOf(ps) /\ b = WordsOf(qs)
  OBVIOUS
<1>2. a \in Seq(Seq(Words)) /\ b \in Seq(Seq(Words)) /\ FlattenSeq(a) \in Seq(Words)
        /\ FlattenSeq(b) \in Seq(Words)
  BY <1>1, WordsOfType
<1>3. WordsOf(ps \o qs) = a \o b
  BY <1>1, WordsOfConcat
<1>4. FlattenSeq(a \o b) = FlattenSeq(a) \o FlattenSeq(b)
  BY <1>2, FlattenConcat
<1>5. PICK x \in Seq(Words), y \in Seq(Words) : x = FlattenSeq(a) /\ y = FlattenSeq(b)
  BY <1>2
<1>6. Keep(x \o y, N) = Keep(x, N) \o Keep(y, N) /\ Keep(x, N) \in Seq(Words)
        /\ Keep(y, N) \in Seq(Words)
  BY KeepConcat, KeptType
<1> QED BY <1>1, <1>3, <1>4, <1>5, <1>6 DEF Kept

LEMMA KeptOne ==
    ASSUME NEW N, NEW p, p.words \in Seq(Words)
    PROVE  Kept(<<p>>, N) = Keep(p.words, N)
<1>1. WordsOf(<<p>>) = <<p.words>>
  BY DEF WordsOf
<1>2. FlattenSeq(<<p.words>>) = p.words
  BY FlattenOne
<1> QED BY <1>1, <1>2 DEF Kept

LEMMA KeptNothing == \A N : Kept(<<>>, N) = <<>>
<1> TAKE N
<1>1. WordsOf(<<>>) = <<>>
  BY DEF WordsOf
<1> QED BY <1>1, FlattenNothing, KeepNothing DEF Kept

LEMMA KeptAppend ==
    ASSUME NEW N, NEW T, Worded(T), NEW ps \in Seq(T), NEW p \in T
    PROVE  Kept(Append(ps, p), N) = Kept(ps, N) \o Keep(p.words, N)
<1>1. PICK one : one = <<p>>
  OBVIOUS
<1>2. one \in Seq(T) /\ Append(ps, p) = ps \o one
  BY <1>1, AppendIsConcat
<1>3. Kept(ps \o one, N) = Kept(ps, N) \o Kept(one, N)
  BY <1>2, KeptConcat
<1>4. p.words \in Seq(Words)
  BY DEF Worded
<1> QED BY <1>1, <1>2, <1>3, <1>4, KeptOne

\* A hole is in either part.
LEMMA HolesConcat ==
    ASSUME NEW T, NEW ps \in Seq(T), NEW qs \in Seq(T)
    PROVE  HasHole(ps \o qs) <=> HasHole(ps) \/ HasHole(qs)
<1>1. PICK n \in Nat, m \in Nat : n = Len(ps) /\ m = Len(qs) /\ DOMAIN ps = 1..n /\ DOMAIN qs = 1..m
  BY LenProperties
<1>2. PICK all : all = ps \o qs
  OBVIOUS
<1>3. /\ DOMAIN all = 1..(n + m)
      /\ \A i \in 1..(n + m) : all[i] = IF i <= n THEN ps[i] ELSE qs[i - n]
  <2>1. /\ all \in Seq(T) /\ Len(all) = Len(ps) + Len(qs)
        /\ \A i \in 1..(Len(ps) + Len(qs)) : all[i] = IF i <= Len(ps) THEN ps[i] ELSE qs[i - Len(ps)]
    BY <1>2, ConcatProperties
  <2> QED BY <1>1, <2>1, LenProperties
<1>4. ASSUME HasHole(all) PROVE HasHole(ps) \/ HasHole(qs)
  <2>1. PICK i \in 1..(n + m) : all[i].elements = {}
    BY <1>3, <1>4 DEF HasHole
  <2>2. CASE i <= n
    <3>1. i \in 1..n
      BY <2>2
    <3> QED BY <1>1, <1>3, <2>1, <2>2, <3>1 DEF HasHole
  <2>3. CASE ~(i <= n)
    <3>1. i - n \in 1..m
      BY <2>3
    <3> QED BY <1>1, <1>3, <2>1, <2>3, <3>1 DEF HasHole
  <2> QED BY <2>2, <2>3
<1>5. ASSUME HasHole(ps) PROVE HasHole(all)
  <2>1. PICK i \in 1..n : ps[i].elements = {}
    BY <1>1, <1>5 DEF HasHole
  <2>2. i \in 1..(n + m) /\ i <= n
    OBVIOUS
  <2> QED BY <1>3, <2>1, <2>2 DEF HasHole
<1>6. ASSUME HasHole(qs) PROVE HasHole(all)
  <2>1. PICK i \in 1..m : qs[i].elements = {}
    BY <1>1, <1>6 DEF HasHole
  <2>2. n + i \in 1..(n + m) /\ ~(n + i <= n) /\ (n + i) - n = i
    OBVIOUS
  <2> QED BY <1>3, <2>1, <2>2 DEF HasHole
<1> QED BY <1>2, <1>4, <1>5, <1>6

\* What is made of parts, one after the other, has the words of the parts.
LEMMA SameConcat ==
    ASSUME NEW N, NEW T, Worded(T), NEW ps \in Seq(T), NEW qs \in Seq(T),
           NEW us \in Seq(Words), NEW ws \in Seq(Words), Same(ps, us, N), Same(qs, ws, N)
    PROVE  Same(ps \o qs, us \o ws, N)
<1>1. Kept(ps \o qs, N) = Kept(ps, N) \o Kept(qs, N)
  BY KeptConcat
<1>2. Keep(us \o ws, N) = Keep(us, N) \o Keep(ws, N)
  BY KeepConcat
<1>3. HasHole(ps \o qs) <=> HasHole(ps) \/ HasHole(qs)
  BY HolesConcat
<1> QED BY <1>1, <1>2, <1>3 DEF Same

LEMMA SameNothing == \A N : Same(<<>>, <<>>, N)
BY KeptNothing, KeepNothing DEF Same

\* What holds of each part holds of the whole.
LEMMA SameFlatten ==
    ASSUME NEW N, NEW T, Worded(T), NEW pss \in Seq(Seq(T)), NEW tt \in Seq(Seq(Words)),
           Len(pss) = Len(tt), \A i \in 1..Len(pss) : Same(pss[i], tt[i], N)
    PROVE  Same(FlattenSeq(pss), FlattenSeq(tt), N)
<1>1. PICK n \in Nat : n = Len(pss) /\ n = Len(tt)
  BY LenProperties
<1>2. PICK d : Joins(d, pss, T) /\ FlattenSeq(pss) = d[Len(pss)]
  BY FlattenSteps
<1>3. PICK e : Joins(e, tt, Words) /\ FlattenSeq(tt) = e[Len(tt)]
  BY FlattenSteps
<1>4. /\ d \in [0..n -> Seq(T)] /\ d[0] = <<>> /\ \A i \in 1..n : d[i] = d[i - 1] \o pss[i]
      /\ e \in [0..n -> Seq(Words)] /\ e[0] = <<>> /\ \A i \in 1..n : e[i] = e[i - 1] \o tt[i]
  BY <1>1, <1>2, <1>3 DEF Joins
<1>5. PICK good : good = {i \in 0..n : Same(d[i], e[i], N)}
  OBVIOUS
<1>6. 0 \in good
  BY <1>4, <1>5, SameNothing
<1>7. ASSUME NEW i \in 1..n, i - 1 \in good PROVE i \in good
  <2>1. i \in 0..n /\ i - 1 \in 0..n
    OBVIOUS
  <2>2. PICK x \in Seq(T), y \in Seq(Words) : x = d[i - 1] /\ y = e[i - 1]
    BY <1>4, <2>1
  <2>3. PICK ps \in Seq(T), ws \in Seq(Words) : ps = pss[i] /\ ws = tt[i]
    BY <1>1, ElementOfSeq
  <2>4. Same(x, y, N) /\ Same(ps, ws, N)
    BY <1>1, <1>5, <1>7, <2>2, <2>3
  <2>5. Same(x \o ps, y \o ws, N)
    BY <2>4, SameConcat
  <2>6. d[i] = x \o ps /\ e[i] = y \o ws
    BY <1>4, <2>2, <2>3
  <2> QED BY <1>5, <2>1, <2>5, <2>6
<1>8. 0..n \subseteq good
  <2>1. \A i \in 1..n : i - 1 \in good => i \in good
    BY <1>7
  <2> QED BY ONLY <1>6, <2>1, n \in Nat, UptoInduction
<1>9. Same(d[n], e[n], N)
  BY <1>5, <1>8
<1> QED BY <1>1, <1>2, <1>3, <1>9
-----------------------------------------------------------------------------
(* Packing and splitting keep the words.                                   *)

\* What is packed so far: the finished pieces and the open ones have the words of ws.
Holds(acc, ws, N) == HasHole(acc.done) \/ Kept(acc.done, N) \o Kept(acc.open, N) = Keep(ws, N)

LEMMA HoldsNothing == \A N : Holds(Nothing, <<>>, N)
<1>1. Nothing.done = <<>> /\ Nothing.open = <<>>
  BY DEF Nothing
<1>2. <<>> \o <<>> = <<>>
  OBVIOUS
<1> QED BY <1>1, <1>2, KeptNothing, KeepNothing DEF Holds

\* Finishing the candidate loses no word.
LEMMA FlushKeeps ==
    ASSUME NEW N, NEW acc \in Accs(Texty), NEW header \in Seq(Texty), Kept(header, N) = <<>>,
           NEW ws \in Seq(Words), Holds(acc, ws, N)
    PROVE  Same(Flush(acc, header), ws, N)
<1>1. PICK done \in Seq(Texty), open \in Seq(Texty) : done = acc.done /\ open = acc.open
  BY DEF Accs
<1>2. CASE open = <<>>
  <2>1. Flush(acc, header) = done
    BY <1>1, <1>2 DEF Flush
  <2>2. Kept(done, N) \o Kept(open, N) = Kept(done, N)
    <3>1. Kept(done, N) \in Seq(Words)
      BY WordedTexty, KeptConcat
    <3> QED BY <1>2, <3>1, KeptNothing, ConcatEmptySeq
  <2> QED BY <1>1, <2>1, <2>2 DEF Holds, Same
<1>3. CASE open # <<>>
  <2>1. PICK p \in Texty : p = Chunk(header, open)
    BY ChunkPieceType
  <2>2. Flush(acc, header) = Append(done, p)
    BY <1>1, <1>3, <2>1 DEF Flush
  <2>3. Keep(p.words, N) = Kept(open, N)
    <3>1. Keep(p.words, N) = Kept(header \o open, N)
      BY <2>1 DEF Chunk, Join, Kept, WordsOf
    <3>2. Kept(header \o open, N) = Kept(header, N) \o Kept(open, N) /\ Kept(open, N) \in Seq(Words)
      BY WordedTexty, KeptConcat
    <3>3. <<>> \o Kept(open, N) = Kept(open, N)
      BY <3>2, ConcatEmptySeq
    <3> QED BY <3>1, <3>2, <3>3
  <2>4. Kept(Append(done, p), N) = Kept(done, N) \o Kept(open, N)
    BY <2>3, WordedTexty, KeptAppend
  <2>5. HasHole(done) => HasHole(Append(done, p))
    <3>1. Append(done, p) = done \o <<p>> /\ <<p>> \in Seq(Texty)
      BY AppendIsConcat
    <3> QED BY <3>1, HolesConcat
  <2> QED BY <1>1, <2>2, <2>4, <2>5 DEF Holds, Same
<1> QED BY <1>2, <1>3

\* A piece joins the candidate.
LEMMA HoldsJoined ==
    ASSUME NEW N, NEW acc \in Accs(Texty), NEW ws \in Seq(Words), Holds(acc, ws, N), NEW p \in Texty,
           NEW new, new.done = acc.done, new.open = Append(acc.open, p)
    PROVE  Holds(new, ws \o p.words, N)
<1>1. PICK done \in Seq(Texty), open \in Seq(Texty) : done = acc.done /\ open = acc.open
  BY DEF Accs
<1>2. PICK us \in Seq(Words) : us = p.words
  BY DEF Texty
<1>3. PICK a \in Seq(Words), b \in Seq(Words), c \in Seq(Words) :
        a = Kept(done, N) /\ b = Kept(open, N) /\ c = Keep(us, N)
  BY WordedTexty, KeptConcat, KeptType
<1>4. Kept(Append(open, p), N) = b \o c
  BY <1>2, <1>3, WordedTexty, KeptAppend
<1>5. Keep(ws \o us, N) = Keep(ws, N) \o c
  BY <1>3, KeepConcat
<1>6. (a \o b) \o c = a \o (b \o c)
  BY ONLY a \in Seq(Words), b \in Seq(Words), c \in Seq(Words), ConcatAssociative
<1>7. HasHole(done) \/ a \o b = Keep(ws, N)
  BY <1>1, <1>3 DEF Holds
<1>8. HasHole(done) \/ a \o (b \o c) = Keep(ws \o us, N)
  BY <1>5, <1>6, <1>7
<1> QED BY <1>1, <1>2, <1>3, <1>4, <1>8 DEF Holds

\* The candidate is finished, and a piece begins a new one.
LEMMA HoldsBegun ==
    ASSUME NEW N, NEW done \in Seq(Texty), NEW ws \in Seq(Words), Same(done, ws, N), NEW p \in Texty,
           NEW new, new.done = done, new.open = <<p>>
    PROVE  Holds(new, ws \o p.words, N)
<1>1. PICK us \in Seq(Words) : us = p.words
  BY DEF Texty
<1>2. Kept(<<p>>, N) = Keep(us, N)
  BY <1>1, KeptOne
<1>3. Keep(ws \o us, N) = Keep(ws, N) \o Keep(us, N)
  BY KeepConcat
<1> QED BY <1>1, <1>2, <1>3 DEF Holds, Same

\* The candidate is finished, and what a piece is split into follows.
LEMMA HoldsSplit ==
    ASSUME NEW N, NEW done \in Seq(Texty), NEW ws \in Seq(Words), Same(done, ws, N), NEW p \in Texty,
           NEW parts \in Seq(Texty), Same(parts, p.words, N),
           NEW new, new.done = done \o parts, new.open = <<>>
    PROVE  Holds(new, ws \o p.words, N)
<1>1. PICK us \in Seq(Words) : us = p.words
  BY DEF Texty
<1>2. PICK all \in Seq(Texty) : all = done \o parts
  BY ConcatProperties
<1>3. Same(all, ws \o us, N)
  BY <1>1, <1>2, WordedTexty, SameConcat
<1>4. Kept(all, N) \o Kept(<<>>, N) = Kept(all, N)
  <2>1. Kept(all, N) \in Seq(Words)
    BY WordedTexty, KeptConcat
  <2> QED BY <2>1, KeptNothing, ConcatEmptySeq
<1> QED BY <1>1, <1>2, <1>3, <1>4 DEF Holds, Same

\* One iteration of the loop that packs.
LEMMA PackStepHolds ==
    ASSUME NEW N, NEW ps \in Seq(Texty), NEW header \in Seq(Texty), Kept(header, N) = <<>>,
           NEW split \in [DOMAIN ps -> Seq(Texty)], NEW i \in DOMAIN ps, Same(split[i], ps[i].words, N),
           NEW acc \in Accs(Texty), NEW ws \in Seq(Words), Holds(acc, ws, N)
    PROVE  Holds(PackStep(ps, header, split, acc, i), ws \o ps[i].words, N)
<1>1. PICK p \in Texty : p = ps[i]
  OBVIOUS
<1>2. PICK new : new = PackStep(ps, header, split, acc, i)
  OBVIOUS
<1>3. PICK done \in Seq(Texty) : done = Flush(acc, header)
  BY FlushType
<1>4. Same(done, ws, N)
  BY <1>3, FlushKeeps
<1>5. CASE Fits(Chunk(header, Append(acc.open, p)))
  <2>1. new = [acc EXCEPT !.open = Append(@, p)]
    BY <1>1, <1>2, <1>5 DEF PackStep
  <2>2. new.done = acc.done /\ new.open = Append(acc.open, p)
    BY <2>1 DEF Accs
  <2> QED BY <1>1, <1>2, <2>2, HoldsJoined
<1>6. CASE ~Fits(Chunk(header, Append(acc.open, p))) /\ Fits(Chunk(header, <<p>>))
  <2>1. new.done = done /\ new.open = <<p>>
    BY <1>1, <1>2, <1>3, <1>6 DEF PackStep, Begin
  <2> QED BY <1>1, <1>2, <1>4, <2>1, HoldsBegun
<1>7. CASE ~Fits(Chunk(header, Append(acc.open, p))) /\ ~Fits(Chunk(header, <<p>>))
  <2>1. PICK parts \in Seq(Texty) : parts = split[i]
    OBVIOUS
  <2>2. new.done = done \o parts /\ new.open = <<>>
    BY <1>1, <1>2, <1>3, <1>7, <2>1 DEF PackStep
  <2>3. Same(parts, p.words, N)
    BY <1>1, <2>1
  <2> QED BY <1>1, <1>2, <1>4, <2>2, <2>3, HoldsSplit
<1> QED BY <1>5, <1>6, <1>7

\* What pieces are packed into has their words.
LEMMA PackedKeeps ==
    ASSUME NEW N, NEW ps \in Seq(Texty), NEW header \in Seq(Texty), Kept(header, N) = <<>>,
           NEW split \in [DOMAIN ps -> Seq(Texty)], \A i \in DOMAIN ps : Same(split[i], ps[i].words, N)
    PROVE  Same(Packed(ps, header, split), FlattenSeq(WordsOf(ps)), N)
<1>1. PICK n \in Nat : n = Len(ps) /\ DOMAIN ps = 1..n
  BY LenProperties
<1>2. PICK d : Packing(d, ps, header, split) /\ Packed(ps, header, split) = Flush(d[Len(ps)], header)
  BY PackedSteps
<1>3. PICK tt \in Seq(Seq(Words)) : tt = WordsOf(ps)
  BY WordedTexty, WordsOfType
<1>4. Len(tt) = n /\ \A i \in 1..n : tt[i] = ps[i].words
  BY <1>1, <1>3, WordedTexty, WordsOfType
<1>5. PICK e : Joins(e, tt, Words) /\ FlattenSeq(tt) = e[Len(tt)]
  BY FlattenSteps
<1>6. /\ d \in [0..n -> Accs(Texty)] /\ d[0] = Nothing
      /\ \A i \in 1..n : d[i] = PackStep(ps, header, split, d[i - 1], i)
      /\ e \in [0..n -> Seq(Words)] /\ e[0] = <<>> /\ \A i \in 1..n : e[i] = e[i - 1] \o tt[i]
  BY <1>1, <1>2, <1>4, <1>5 DEF Packing, Joins
<1>7. PICK good : good = {i \in 0..n : Holds(d[i], e[i], N)}
  OBVIOUS
<1>8. 0 \in good
  BY <1>6, <1>7, HoldsNothing
<1>9. ASSUME NEW i \in 1..n, i - 1 \in good PROVE i \in good
  <2>1. i \in 0..n /\ i - 1 \in 0..n /\ i \in DOMAIN ps
    BY <1>1
  <2>2. PICK acc \in Accs(Texty), ws \in Seq(Words) : acc = d[i - 1] /\ ws = e[i - 1]
    BY <1>6, <2>1
  <2>3. Holds(acc, ws, N)
    BY <1>7, <1>9, <2>2
  <2>4. Same(split[i], ps[i].words, N)
    BY <2>1
  <2>5. Holds(PackStep(ps, header, split, acc, i), ws \o ps[i].words, N)
    BY <2>1, <2>3, <2>4, PackStepHolds
  <2>6. d[i] = PackStep(ps, header, split, acc, i) /\ e[i] = ws \o ps[i].words
    BY <1>4, <1>6, <2>2
  <2> QED BY <1>7, <2>1, <2>5, <2>6
<1>10. 0..n \subseteq good
  <2>1. \A i \in 1..n : i - 1 \in good => i \in good
    BY <1>9
  <2> QED BY ONLY <1>8, <2>1, n \in Nat, UptoInduction
<1>11. PICK acc \in Accs(Texty), ws \in Seq(Words) : acc = d[n] /\ ws = e[n]
  BY <1>6
<1>12. Holds(acc, ws, N)
  BY <1>7, <1>10, <1>11
<1>13. Same(Flush(acc, header), ws, N)
  BY <1>12, FlushKeeps
<1> QED BY <1>1, <1>2, <1>3, <1>4, <1>5, <1>11, <1>13

\* What a sentence is split into has its words.
LEMMA SplitKeeps ==
    ASSUME NEW N, NEW p \in Texty
    PROVE  Same(SplitSentence(p), p.words, N)
<1>1. PICK n \in Nat : n = Len(p.words) /\ DOMAIN p.words = 1..n
  BY TextWords
<1>2. PICK d : /\ Splitting(d, p)
               /\ SplitSentence(p) = IF ~Fits(WordPiece(p, Head(p.words))) THEN <<Raised>>
                                     ELSE Flush(d[Len(p.words)], <<>>)
  BY SplitSteps
<1>3. PICK words \in Seq(Words) : words = p.words
  BY DEF Texty
<1>4. d \in [0..n -> Accs(Texty)] /\ d[0] = Nothing
        /\ \A i \in 1..n : d[i] = SplitStep(p, d[i - 1], words[i])
  BY <1>1, <1>2, <1>3 DEF Splitting
<1>5. PICK e : e = [i \in 0..n |-> SubSeq(words, 1, i)]
  OBVIOUS
<1>6. e[0] = <<>> /\ \A i \in 0..n : e[i] = SubSeq(words, 1, i)
  BY <1>5, SubSeqEmpty
<1>7. \A i \in 0..n : e[i] \in Seq(Words)
  <2>1. \A i \in 0..Len(words) : SubSeq(words, 1, i) \in Seq(Words)
    BY FrontPart
  <2> QED BY <1>1, <1>3, <1>6, <2>1
<1>8. ASSUME NEW i \in 1..n PROVE e[i] = e[i - 1] \o <<words[i]>>
  <2>1. \A j \in 1..Len(words) : SubSeq(words, 1, j) = SubSeq(words, 1, j - 1) \o <<words[j]>>
    BY FrontPart
  <2>2. i \in 0..n /\ i - 1 \in 0..n /\ i \in 1..Len(words)
    BY <1>1, <1>3
  <2>3. SubSeq(words, 1, i) = SubSeq(words, 1, i - 1) \o <<words[i]>>
    BY <2>1, <2>2
  <2> QED BY <1>6, <2>2, <2>3
<1>9. e[n] = words
  BY <1>1, <1>3, <1>6, FrontPart
<1>10. PICK good : good = {i \in 0..n : Holds(d[i], e[i], N)}
  OBVIOUS
<1>11. 0 \in good
  BY <1>4, <1>6, <1>10, HoldsNothing
<1>12. ASSUME NEW i \in 1..n, i - 1 \in good PROVE i \in good
  <2>1. i \in 0..n /\ i - 1 \in 0..n
    OBVIOUS
  <2>2. PICK acc \in Accs(Texty), ws \in Seq(Words), w \in Words : acc = d[i - 1]
          /\ ws = e[i - 1] /\ w = words[i]
    BY <1>1, <1>3, <1>4, <1>7, <2>1, ElementOfSeq
  <2>3. Holds(acc, ws, N)
    BY <1>10, <1>12, <2>2
  <2>4. PICK new : new = SplitStep(p, acc, w)
    OBVIOUS
  <2>5. PICK q \in Texty : q = WordPiece(p, w) /\ q.words = <<w>>
    <3>1. <<w>> \in Seq(Words)
      OBVIOUS
    <3>2. WordPiece(p, w) \in Texty
      BY <3>1 DEF WordPiece, Texty
    <3>3. WordPiece(p, w).words = <<w>>
      BY DEF WordPiece, Texty
    <3> QED BY <3>2, <3>3
  <2>6. q.words = <<w>>
    BY <2>5
  <2>7. Holds(new, ws \o <<w>>, N)
    <3>1. CASE acc.open = <<>> \/ Fits(Join(Append(acc.open, q)))
      <4>1. new = [acc EXCEPT !.open = Append(@, q)]
        BY <2>4, <2>5, <3>1 DEF SplitStep
      <4>2. new.done = acc.done /\ new.open = Append(acc.open, q)
        BY <4>1 DEF Accs
      <4> QED BY <2>3, <2>6, <4>2, HoldsJoined
    <3>2. CASE ~(acc.open = <<>> \/ Fits(Join(Append(acc.open, q))))
      <4>1. PICK header \in Seq(Texty) : header = <<>>
        BY EmptySeq
      <4>2. Kept(header, N) = <<>>
        BY <4>1, KeptNothing
      <4>3. PICK done \in Seq(Texty) : done = Flush(acc, header)
        BY FlushType
      <4>4. Same(done, ws, N)
        BY <2>3, <4>2, <4>3, FlushKeeps
      <4>5. new.done = done /\ new.open = <<q>>
        BY <2>4, <2>5, <3>2, <4>1, <4>3 DEF SplitStep, Begin
      <4> QED BY <2>6, <4>4, <4>5, HoldsBegun
    <3> QED BY <3>1, <3>2
  <2>8. d[i] = new /\ e[i] = ws \o <<w>>
    BY <1>4, <1>8, <2>2, <2>4
  <2> QED BY <1>10, <2>1, <2>7, <2>8
<1>13. 0..n \subseteq good
  <2>1. \A i \in 1..n : i - 1 \in good => i \in good
    BY <1>12
  <2> QED BY ONLY <1>11, <2>1, n \in Nat, UptoInduction
<1>14. PICK acc \in Accs(Texty), header \in Seq(Texty) : acc = d[n] /\ header = <<>>
  <2>1. <<>> \in Seq(Texty)
    BY EmptySeq
  <2>2. n \in 0..n
    BY <1>1
  <2>3. d[n] \in Accs(Texty)
    BY <1>4, <2>2
  <2> QED BY <2>1, <2>3
<1>15. Holds(acc, words, N)
  BY <1>9, <1>10, <1>13, <1>14
<1>16. Same(Flush(acc, header), words, N)
  BY <1>14, <1>15, KeptNothing, FlushKeeps
<1>17. CASE Fits(WordPiece(p, Head(p.words)))
  <2>1. SplitSentence(p) = Flush(acc, header)
    BY <1>1, <1>2, <1>14, <1>17
  <2> QED BY <1>3, <1>16, <2>1
<1>18. CASE ~Fits(WordPiece(p, Head(p.words)))
  <2>1. PICK ps : ps = SplitSentence(p)
    OBVIOUS
  <2>2. ps = <<Raised>>
    BY <1>2, <1>18, <2>1
  <2>3. 1 \in DOMAIN ps /\ ps[1].elements = {}
    BY <2>2 DEF Raised
  <2> QED BY <2>1, <2>3 DEF Same, HasHole
<1> QED BY <1>17, <1>18
-----------------------------------------------------------------------------
(* Chunks of one kind keep the words of their elements.                    *)

\* The words of elements.
Text(es) == FlattenSeq([i \in DOMAIN es |-> Whole(es[i]).words])

\* The names of the columns are in N.
NamesIn(e, N) == e.kind = "table" => \A w \in DOMAIN e.body[1] : e.body[1][w] \in N

LEMMA FromTexty == \A P : From(P) \subseteq Texty /\ Seq(From(P)) \subseteq Seq(Texty)
<1> TAKE P
<1>1. From(P) \subseteq Texty
  BY DEF From
<1> QED BY <1>1, SeqMonotonic

LEMMA TextType ==
    ASSUME NEW es \in Seq(ElementSet)
    PROVE  /\ [i \in DOMAIN es |-> Whole(es[i]).words] \in Seq(Seq(Words))
           /\ Len([i \in DOMAIN es |-> Whole(es[i]).words]) = Len(es)
           /\ Text(es) \in Seq(Words)
<1>1. PICK n \in Nat : n = Len(es) /\ DOMAIN es = 1..n /\ \A i \in 1..n : es[i] \in ElementSet
  BY LenProperties
<1>2. PICK tt : tt = [i \in DOMAIN es |-> Whole(es[i]).words]
  OBVIOUS
<1>3. tt = [i \in 1..n |-> Whole(es[i]).words]
  BY <1>1, <1>2
<1>4. \A i \in 1..n : Whole(es[i]).words \in Seq(Words)
  <2>1. \A i \in 1..n : Whole(es[i]) \in Texty
    BY <1>1, PieceType
  <2> QED BY <2>1 DEF Texty
<1>5. tt \in Seq(Seq(Words)) /\ Len(tt) = n
  BY <1>3, <1>4
<1>6. FlattenSeq(tt) \in Seq(Words)
  BY <1>5, FlattenType
<1> QED BY <1>1, <1>2, <1>5, <1>6 DEF Text

\* _split_oversized_text
LEMMA SplitTextKeeps ==
    ASSUME NEW N, NEW e \in ElementSet
    PROVE  Same(SplitText(e), Whole(e).words, N)
<1>1. PICK split : split = [s \in DOMAIN e.body |-> SplitSentence(Pieces(e)[s])]
  OBVIOUS
<1>2. PICK ps : ps = Pieces(e)
  OBVIOUS
<1>3. PICK n \in Nat : n = Len(e.body) /\ DOMAIN e.body = 1..n /\ e.body \in Seq(Seq(Words))
  BY LenProperties DEF ElementSet
<1>4. /\ ps \in Seq(Texty) /\ DOMAIN ps = 1..n /\ \A s \in 1..n : ps[s] \in Texty
        /\ ps[s].words = e.body[s]
      /\ Whole(e).words = FlattenSeq(e.body)
  BY <1>2, <1>3, PieceType
<1>5. split \in [DOMAIN ps -> Seq(Texty)] /\ \A s \in DOMAIN ps : split[s] = SplitSentence(ps[s])
  <2>1. \A s \in 1..n : SplitSentence(ps[s]) \in Seq(Texty)
    BY <1>4, SplitSentenceFrom, FromTexty
  <2>2. split = [s \in 1..n |-> SplitSentence(ps[s])]
    BY <1>1, <1>2, <1>3
  <2> QED BY <1>4, <2>1, <2>2
<1>6. \A s \in DOMAIN ps : Same(split[s], ps[s].words, N)
  BY <1>4, <1>5, SplitKeeps
<1>7. PICK header \in Seq(Texty) : header = <<>>
  BY EmptySeq
<1>8. Same(Packed(ps, header, split), FlattenSeq(WordsOf(ps)), N)
  BY <1>4, <1>5, <1>6, <1>7, KeptNothing, PackedKeeps
<1>9. WordsOf(ps) = e.body
  <2>1. e.body = [s \in 1..n |-> e.body[s]]
    BY <1>3
  <2>2. WordsOf(ps) = [s \in 1..n |-> e.body[s]]
    BY <1>4 DEF WordsOf
  <2> QED BY <2>1, <2>2
<1> QED BY <1>1, <1>2, <1>4, <1>7, <1>8, <1>9 DEF SplitText

\* _chunk_text
LEMMA ChunkTextKeeps ==
    ASSUME NEW N, NEW es \in Seq(ElementSet)
    PROVE  Same(ChunkText(es), Text(es), N)
<1>1. PICK split : split = [i \in DOMAIN es |-> SplitText(es[i])]
  OBVIOUS
<1>2. PICK ps : ps = [i \in DOMAIN es |-> Whole(es[i])]
  OBVIOUS
<1>3. PICK n \in Nat : n = Len(es) /\ DOMAIN es = 1..n /\ \A i \in 1..n : es[i] \in ElementSet
  BY LenProperties
<1>4. ps \in Seq(Texty) /\ DOMAIN ps = 1..n /\ \A i \in 1..n : ps[i] = Whole(es[i])
  <2>1. \A i \in 1..n : Whole(es[i]) \in Texty
    BY <1>3, PieceType
  <2> QED BY <1>2, <1>3, <2>1
<1>5. split \in [DOMAIN ps -> Seq(Texty)] /\ \A i \in 1..n : split[i] = SplitText(es[i])
  <2>1. \A i \in 1..n : SplitText(es[i]) \in Seq(Texty)
    BY <1>3, SplitTextFrom, FromTexty
  <2> QED BY <1>1, <1>3, <1>4, <2>1
<1>6. \A i \in DOMAIN ps : Same(split[i], ps[i].words, N)
  BY <1>3, <1>4, <1>5, SplitTextKeeps
<1>7. PICK header \in Seq(Texty) : header = <<>>
  BY EmptySeq
<1>8. Same(Packed(ps, header, split), FlattenSeq(WordsOf(ps)), N)
  BY <1>4, <1>5, <1>6, <1>7, KeptNothing, PackedKeeps
<1>9. WordsOf(ps) = [i \in DOMAIN es |-> Whole(es[i]).words]
  <2>1. WordsOf(ps) = [i \in 1..n |-> Whole(es[i]).words]
    BY <1>4 DEF WordsOf
  <2> QED BY <1>3, <2>1
<1> QED BY <1>1, <1>2, <1>7, <1>8, <1>9 DEF ChunkText, Text

LEMMA TextOfOne ==
    ASSUME NEW e \in ElementSet
    PROVE  Text(<<e>>) = Whole(e).words
<1>1. PICK ws : ws = Whole(e).words
  OBVIOUS
<1>2. ws \in Seq(Words)
  BY <1>1, PieceType DEF Texty
<1>3. [i \in DOMAIN <<e>> |-> Whole(<<e>>[i]).words] = <<ws>>
  BY <1>1
<1> QED BY <1>1, <1>2, <1>3, FlattenOne DEF Text

\* _chunk_visual
LEMMA ChunkVisualKeeps ==
    ASSUME NEW N, NEW es \in Seq(ElementSet)
    PROVE  Same(ChunkVisual(es), Text(es), N)
<1>1. PICK n \in Nat : n = Len(es) /\ DOMAIN es = 1..n /\ \A i \in 1..n : es[i] \in ElementSet
  BY LenProperties
<1>2. PICK pss, tt : /\ pss = [i \in DOMAIN es |-> ChunkText(<<es[i]>>)]
                     /\ tt = [i \in DOMAIN es |-> Whole(es[i]).words]
  OBVIOUS
<1>3. ASSUME NEW i \in 1..n
      PROVE  ChunkText(<<es[i]>>) \in Seq(Texty) /\ Same(ChunkText(<<es[i]>>), Whole(es[i]).words, N)
  <2>1. PICK e \in ElementSet : e = es[i]
    BY <1>1
  <2>2. PICK one : one = <<e>>
    OBVIOUS
  <2>3. one \in Seq(ElementSet)
    BY <2>2
  <2>4. ChunkText(one) \in Seq(Texty)
    BY <2>3, ChunkTextFrom, FromTexty
  <2>5. Same(ChunkText(one), Text(one), N)
    BY <2>3, ChunkTextKeeps
  <2>6. Text(one) = Whole(e).words
    BY <2>2, TextOfOne
  <2> QED BY <2>1, <2>2, <2>4, <2>5, <2>6
<1>4. pss \in Seq(Seq(Texty)) /\ Len(pss) = n /\ \A i \in 1..n : pss[i] = ChunkText(<<es[i]>>)
  <2>1. \A i \in 1..n : ChunkText(<<es[i]>>) \in Seq(Texty)
    BY <1>3
  <2> QED BY <1>1, <1>2, <2>1
<1>5. tt \in Seq(Seq(Words)) /\ Len(tt) = n /\ \A i \in 1..n : tt[i] = Whole(es[i]).words
  BY <1>1, <1>2, TextType
<1>6. \A i \in 1..n : Same(pss[i], tt[i], N)
  BY <1>3, <1>4, <1>5
<1>7. Same(FlattenSeq(pss), FlattenSeq(tt), N)
  BY <1>4, <1>5, <1>6, WordedTexty, SameFlatten
<1> QED BY <1>2, <1>7 DEF ChunkVisual, Text

\* A row that is split raises, so that nothing is said of its words.
LEMMA HoleKeeps ==
    ASSUME NEW N, NEW ws
    PROVE  Same(SplitRow, ws, N)
<1>1. PICK ps : ps = SplitRow
  OBVIOUS
<1>2. ps = <<Raised>>
  BY <1>1 DEF SplitRow
<1>3. 1 \in DOMAIN ps /\ ps[1].elements = {}
  BY <1>2 DEF Raised
<1> QED BY <1>1, <1>3 DEF Same, HasHole

\* The rows below the names of the columns.
LEMMA TableText ==
    ASSUME NEW N, NEW e \in ElementSet, e.kind = "table", NamesIn(e, N)
    PROVE  /\ Kept(<<Head(Pieces(e))>>, N) = <<>>
           /\ Keep(Whole(e).words, N) = Keep(FlattenSeq(WordsOf(Tail(Pieces(e)))), N)
<1>1. PICK m \in Nat : m = Len(e.body) - 1 /\ DOMAIN e.body = 1..(m + 1) /\ Len(e.body) = m + 1
  <2>1. Len(e.body) \in Nat /\ DOMAIN e.body = 1..Len(e.body) /\ 1 \in DOMAIN e.body
    BY TableRows
  <2>2. PICK l \in Nat : l = Len(e.body)
    BY <2>1
  <2>3. l - 1 \in Nat /\ l = (l - 1) + 1
    BY <2>1, <2>2
  <2> QED BY <2>1, <2>2, <2>3
<1>2. PICK body : body = e.body
  OBVIOUS
<1>3. body \in Seq(Seq(Words)) /\ 1 \in 1..(m + 1)
  BY <1>1, <1>2 DEF ElementSet
<1>4. PICK names \in Seq(Words) : names = body[1]
  BY <1>1, <1>2, <1>3
<1>5. Keep(names, N) = <<>>
  <2>1. \A k \in DOMAIN names : names[k] \in N
    BY <1>2, <1>4 DEF NamesIn
  <2> QED BY <2>1, KeepNone
<1>6. PICK rows : rows = Tail(Pieces(e))
  OBVIOUS
<1>7. /\ rows \in Seq(Texty) /\ Len(rows) = m /\ \A i \in 1..m : rows[i].words = body[i + 1]
      /\ Head(Pieces(e)).words = names
  <2>1. /\ rows \in Seq(Texty) /\ Len(rows) = m /\ \A i \in 1..m : rows[i] = Pieces(e)[i + 1]
        /\ Head(Pieces(e)) = Pieces(e)[1]
    BY <1>1, <1>6, TableRows
  <2>2. \A s \in 1..(m + 1) : Pieces(e)[s].words = body[s]
    BY <1>1, <1>2, PieceType
  <2>3. \A i \in 1..m : i + 1 \in 1..(m + 1)
    OBVIOUS
  <2> QED BY <1>3, <1>4, <2>1, <2>2, <2>3
<1>8. Kept(<<Head(Pieces(e))>>, N) = <<>>
  BY <1>5, <1>7, KeptOne
<1>9. PICK tt : tt = WordsOf(rows)
  OBVIOUS
<1>10. /\ tt \in Seq(Seq(Words)) /\ Len(tt) = m /\ \A i \in 1..m : tt[i] = body[i + 1]
       /\ FlattenSeq(tt) \in Seq(Words)
  BY <1>7, <1>9, WordedTexty, WordsOfType
<1>11. PICK one : one = <<names>>
  OBVIOUS
<1>12. one \in Seq(Seq(Words)) /\ Len(one) = 1 /\ one[1] = names
  BY <1>11
<1>13. PICK all : all = one \o tt
  OBVIOUS
<1>14. all = body
  <2>1. /\ all \in Seq(Seq(Words)) /\ Len(all) = Len(one) + Len(tt)
        /\ \A i \in 1..(Len(one) + Len(tt)) : all[i]
              = IF i <= Len(one) THEN one[i] ELSE tt[i - Len(one)]
    BY <1>10, <1>12, <1>13, ConcatProperties
  <2>2. Len(all) = m + 1 /\ \A i \in 1..(m + 1) : all[i] = IF i <= 1 THEN one[i] ELSE tt[i - 1]
    BY <1>10, <1>12, <2>1
  <2>3. ASSUME NEW i \in 1..(m + 1) PROVE all[i] = body[i]
    <3>1. CASE i = 1
      BY <1>4, <1>12, <2>2, <3>1
    <3>2. CASE i # 1
      <4>1. ~(i <= 1) /\ i - 1 \in 1..m /\ (i - 1) + 1 = i
        BY <3>2
      <4>2. tt[i - 1] = body[(i - 1) + 1]
        BY <1>10, <4>1
      <4> QED BY <2>2, <4>1, <4>2
    <3> QED BY <3>1, <3>2
  <2>4. Len(body) = m + 1
    BY <1>1, <1>2
  <2> QED BY <1>3, <2>1, <2>2, <2>3, <2>4, SeqEqual
<1>15. FlattenSeq(body) = names \o FlattenSeq(tt)
  <2>1. FlattenSeq(one \o tt) = FlattenSeq(one) \o FlattenSeq(tt)
    BY <1>10, <1>12, FlattenConcat
  <2>2. FlattenSeq(one) = names
    BY <1>11, FlattenOne
  <2> QED BY <1>13, <1>14, <2>1, <2>2
<1>16. PICK rest \in Seq(Words) : rest = FlattenSeq(tt)
  BY <1>10
<1>17. Keep(names \o rest, N) = <<>> \o Keep(rest, N) /\ Keep(rest, N) \in Seq(Words)
  <2>1. names \in Seq(Words) /\ rest \in Seq(Words)
    BY <1>5, <1>16
  <2>2. Keep(names \o rest, N) = Keep(names, N) \o Keep(rest, N)
    BY ONLY <2>1, KeepConcat
  <2>3. Keep(rest, N) \in Seq(Words)
    BY ONLY <2>1, KeptType
  <2>4. Keep(names, N) = <<>>
    BY <1>5
  <2> QED BY <2>2, <2>3, <2>4
<1>18. <<>> \o Keep(rest, N) = Keep(rest, N)
  BY <1>17, ConcatEmptySeq
<1>19. Whole(e).words = names \o rest
  BY <1>2, <1>15, <1>16, PieceType
<1> QED BY <1>6, <1>8, <1>9, <1>16, <1>17, <1>18, <1>19

\* A table keeps its words, whether it is divided or not.
LEMMA TableKeeps ==
    ASSUME NEW N, NEW e \in ElementSet, e.kind = "table", NamesIn(e, N)
    PROVE  Same(TableChunks(e), Whole(e).words, N)
<1>1. CASE Fits(Whole(e))
  <2>1. TableChunks(e) = <<Whole(e)>>
    BY <1>1 DEF TableChunks
  <2>2. Kept(<<Whole(e)>>, N) = Keep(Whole(e).words, N)
    <3>1. Whole(e).words \in Seq(Words)
      BY PieceType DEF Texty
    <3> QED BY <3>1, KeptOne
  <2> QED BY <2>1, <2>2 DEF Same
<1>2. CASE ~Fits(Whole(e))
  <2>1. PICK rows, header : rows = Tail(Pieces(e)) /\ header = <<Head(Pieces(e))>>
    OBVIOUS
  <2>2. PICK split : split = [i \in DOMAIN rows |-> SplitRow]
    OBVIOUS
  <2>3. rows \in Seq(Texty) /\ header \in Seq(Texty)
    <3>1. 1 \in DOMAIN e.body /\ Pieces(e) \in Seq(Texty) /\ DOMAIN Pieces(e) = DOMAIN e.body
      BY PieceType, TableRows
    <3>2. Pieces(e)[1] \in Texty
      BY <3>1
    <3> QED BY <2>1, <3>2, TableRows
  <2>4. split \in [DOMAIN rows -> Seq(Texty)]
    <3>1. SplitRow \in Seq(Texty)
      BY DEF SplitRow, Raised, Texty
    <3> QED BY <2>2, <3>1
  <2>5. \A i \in DOMAIN rows : Same(split[i], rows[i].words, N)
    <3> TAKE i \in DOMAIN rows
    <3>1. split[i] = SplitRow
      BY <2>2
    <3> QED BY <3>1, HoleKeeps
  <2>6. Kept(header, N) = <<>> /\ Keep(Whole(e).words, N) = Keep(FlattenSeq(WordsOf(rows)), N)
    BY <2>1, TableText
  <2>7. Same(Packed(rows, header, split), FlattenSeq(WordsOf(rows)), N)
    BY <2>3, <2>4, <2>5, <2>6, PackedKeeps
  <2>8. TableChunks(e) = Packed(rows, header, split)
    BY <1>2, <2>1, <2>2 DEF TableChunks
  <2> QED BY <2>6, <2>7, <2>8 DEF Same
<1> QED BY <1>1, <1>2

\* _chunk_table
LEMMA ChunkTableKeeps ==
    ASSUME NEW N, NEW es \in Seq(ElementSet),
           \A i \in DOMAIN es : es[i].kind = "table" /\ Marked(es[i]) /\ NamesIn(es[i], N)
    PROVE  Same(ChunkTable(es), Text(es), N)
<1>1. PICK n \in Nat : n = Len(es) /\ DOMAIN es = 1..n /\ \A i \in 1..n : es[i] \in ElementSet
  BY LenProperties
<1>2. PICK pss, tt : /\ pss = [i \in DOMAIN es |-> TableChunks(es[i])]
                     /\ tt = [i \in DOMAIN es |-> Whole(es[i]).words]
  OBVIOUS
<1>3. ASSUME NEW i \in 1..n
      PROVE  TableChunks(es[i]) \in Seq(Texty) /\ Same(TableChunks(es[i]), Whole(es[i]).words, N)
  <2>1. PICK e \in ElementSet : e = es[i]
    BY <1>1
  <2>2. e.kind = "table" /\ Marked(e) /\ NamesIn(e, N)
    BY <1>1, <2>1
  <2>3. TableChunks(e) \in Seq(OfTable(e)) /\ OfTable(e) \subseteq Texty
    BY <2>2, TableChunksType DEF OfTable, From
  <2>4. TableChunks(e) \in Seq(Texty)
    BY <2>3, SeqMonotonic
  <2> QED BY <2>1, <2>2, <2>4, TableKeeps
<1>4. pss \in Seq(Seq(Texty)) /\ Len(pss) = n /\ \A i \in 1..n : pss[i] = TableChunks(es[i])
  <2>1. \A i \in 1..n : TableChunks(es[i]) \in Seq(Texty)
    BY <1>3
  <2> QED BY <1>1, <1>2, <2>1
<1>5. tt \in Seq(Seq(Words)) /\ Len(tt) = n /\ \A i \in 1..n : tt[i] = Whole(es[i]).words
  BY <1>1, <1>2, TextType
<1>6. \A i \in 1..n : Same(pss[i], tt[i], N)
  BY <1>3, <1>4, <1>5
<1>7. Same(FlattenSeq(pss), FlattenSeq(tt), N)
  BY <1>4, <1>5, <1>6, WordedTexty, SameFlatten
<1> QED BY <1>2, <1>7, ChunkTableIs DEF Text

\* _chunk_by_content_type
LEMMA ChunksOfKindKeeps ==
    ASSUME NEW N, NEW E \in SUBSET ElementSet, \A e \in E : Marked(e) /\ NamesIn(e, N),
          NEW run \in RunSet(E)
    PROVE  Same(ChunksOfKind(run[1].kind, run), Text(run), N)
<1>1. PICK kind : kind = run[1].kind
  OBVIOUS
<1>2. run \in Seq(ElementSet) /\ \A i \in DOMAIN run : run[i].kind = kind /\ Marked(run[i])
        /\ NamesIn(run[i], N)
  <2>1. run \in Seq(E)
    BY DEF RunSet
  <2>2. \A i \in DOMAIN run : run[i] \in E
    BY <2>1
  <2>3. run \in Seq(ElementSet)
    BY <2>1, SeqMonotonic
  <2> QED BY <1>1, <2>2, <2>3 DEF RunSet
<1>3. kind \in {"text", "table", "visual"}
  <2>1. run # <<>>
    BY DEF RunSet
  <2>2. 1 \in DOMAIN run
    BY <1>2, <2>1
  <2>3. run[1] \in ElementSet
    BY <1>2, <2>2
  <2> QED BY <1>1, <2>3 DEF ElementSet
<1>4. CASE kind = "table"
  <2>1. Same(ChunkTable(run), Text(run), N)
    BY <1>2, <1>4, ChunkTableKeeps
  <2> QED BY <1>1, <1>4, <2>1 DEF ChunksOfKind
<1>5. CASE kind # "table"
  <2>1. Same(ChunkText(run), Text(run), N) /\ Same(ChunkVisual(run), Text(run), N)
    BY <1>2, ChunkTextKeeps, ChunkVisualKeeps
  <2>2. ChunksOfKind(kind, run) = IF kind = "text" THEN ChunkText(run) ELSE ChunkVisual(run)
    BY <1>3, <1>5 DEF ChunksOfKind
  <2> QED BY <1>1, <2>1, <2>2
<1> QED BY <1>4, <1>5

\* The chunks of a run have the words and the elements of its pieces.
LEMMA OfRunKeeps ==
    ASSUME NEW N, NEW E \in SUBSET ElementSet, \A e \in E : Marked(e) /\ NamesIn(e, N),
          NEW run \in RunSet(E),
           NEW path
    PROVE  Same(OfRun(path, run), Text(run), N)
<1>1. PICK kind, cs : kind = run[1].kind /\ cs = ChunksOfKind(kind, run)
  OBVIOUS
<1>2. Same(cs, Text(run), N)
  BY <1>1, ChunksOfKindKeeps
<1>3. PICK new : new = OfRun(path, run)
  OBVIOUS
<1>4. new = [i \in DOMAIN cs |-> [elements |-> cs[i].elements, words |-> cs[i].words,
        kind |-> kind, path |-> path]]
  BY <1>1, <1>3 DEF OfRun
<1>5. DOMAIN new = DOMAIN cs /\ \A i \in DOMAIN cs : new[i].elements = cs[i].elements
        /\ new[i].words = cs[i].words
  BY <1>4
<1>6. WordsOf(new) = WordsOf(cs)
  BY <1>5 DEF WordsOf
<1>7. HasHole(new) <=> HasHole(cs)
  BY <1>5 DEF HasHole
<1> QED BY <1>2, <1>3, <1>6, <1>7 DEF Same, Kept

-----------------------------------------------------------------------------
(* Runs and sections have the elements in their order.                     *)

\* An element joins the last run or opens one: the runs have it at the end.
LEMMA RunsStepKeeps ==
    ASSUME NEW E, NEW runs \in Seq(RunSet(E)), NEW e \in E
    PROVE  FlattenSeq(RunsStep(runs, e)) = FlattenSeq(runs) \o <<e>>
<1>1. runs \in Seq(Seq(E))
  <2>1. RunSet(E) \subseteq Seq(E)
    BY DEF RunSet
  <2> QED BY <2>1, SeqMonotonic
<1>2. CASE runs # <<>> /\ Last(runs)[1].kind = e.kind
  <2>1. PICK n \in Nat \ {0} : n = Len(runs)
    BY <1>1, <1>2, LenProperties, EmptySeq
  <2>2. PICK new : new = RunsStep(runs, e)
    OBVIOUS
  <2>3. PICK more : more = Append(runs[n], e)
    OBVIOUS
  <2>4. LastIs(new, runs, n, more)
    BY <1>2, <2>1, <2>2, <2>3 DEF RunsStep, LastIs
  <2>5. FlattenSeq(new) = FlattenSeq(runs) \o <<e>>
    BY <1>1, <2>1, <2>3, <2>4, LastGrows
  <2> QED BY <2>2, <2>5
<1>3. CASE ~(runs # <<>> /\ Last(runs)[1].kind = e.kind)
  <2>1. PICK one \in Seq(E) : one = <<e>>
    <3>1. <<e>> \in Seq(E)
      OBVIOUS
    <3> QED BY <3>1
  <2>2. RunsStep(runs, e) = Append(runs, one)
    BY <1>3, <2>1 DEF RunsStep
  <2> QED BY <1>1, <2>1, <2>2, FlattenAppend
<1> QED BY <1>2, <1>3

\* _group_by_content_type
LEMMA RunsKeep ==
    ASSUME NEW E, NEW es \in Seq(E)
    PROVE  FlattenSeq(Runs(es)) = es
<1>1. PICK n \in Nat : n = Len(es)
  BY LenProperties
<1>2. PICK d : Grouping(d, es, E) /\ Runs(es) = d[Len(es)]
  BY RunsSteps
<1>3. d \in [0..n -> Seq(RunSet(E))] /\ d[0] = <<>> /\ \A i \in 1..n : d[i] = RunsStep(d[i - 1], es[i])
  BY <1>1, <1>2 DEF Grouping
<1>4. PICK good : good = {i \in 0..n : FlattenSeq(d[i]) = SubSeq(es, 1, i)}
  OBVIOUS
<1>5. 0 \in good
  BY <1>3, <1>4, FlattenNothing, SubSeqEmpty
<1>6. ASSUME NEW i \in 1..n, i - 1 \in good PROVE i \in good
  <2>1. i \in 0..n /\ i - 1 \in 0..n /\ i \in 1..Len(es)
    BY <1>1
  <2>2. PICK runs \in Seq(RunSet(E)), e \in E : runs = d[i - 1] /\ e = es[i]
    BY <1>3, <2>1, ElementOfSeq
  <2>3. FlattenSeq(d[i]) = FlattenSeq(runs) \o <<e>>
    BY <1>3, <2>2, RunsStepKeeps
  <2>4. SubSeq(es, 1, i) = SubSeq(es, 1, i - 1) \o <<es[i]>>
    BY <2>1, FrontPart
  <2>5. FlattenSeq(runs) = SubSeq(es, 1, i - 1)
    BY <1>4, <1>6, <2>2
  <2> QED BY <1>4, <2>1, <2>2, <2>3, <2>4, <2>5
<1>7. 0..n \subseteq good
  <2>1. \A i \in 1..n : i - 1 \in good => i \in good
    BY <1>6
  <2> QED BY ONLY <1>5, <2>1, n \in Nat, UptoInduction
<1>8. FlattenSeq(d[n]) = SubSeq(es, 1, n)
  BY <1>4, <1>7
<1> QED BY <1>1, <1>2, <1>8, FrontPart

\* The elements of groups.
ElementsOf(gs) == [s \in DOMAIN gs |-> gs[s].elements]

LEMMA ElementsOfType ==
    ASSUME NEW gs \in Seq(Groups)
    PROVE  /\ ElementsOf(gs) \in Seq(Seq(ElementSet)) /\ Len(ElementsOf(gs)) = Len(gs)
           /\ \A s \in 1..Len(gs) : ElementsOf(gs)[s] = gs[s].elements
<1>1. PICK n \in Nat : n = Len(gs) /\ DOMAIN gs = 1..n /\ \A s \in 1..n : gs[s] \in Groups
  BY LenProperties
<1>2. PICK ess : ess = ElementsOf(gs)
  OBVIOUS
<1>3. ess = [s \in 1..n |-> gs[s].elements]
  BY <1>1, <1>2 DEF ElementsOf
<1>4. \A s \in 1..n : gs[s].elements \in Seq(ElementSet)
  BY <1>1 DEF Groups
<1> QED BY <1>1, <1>2, <1>3, <1>4

\* A group more.
LEMMA ElementsOfAppend ==
    ASSUME NEW gs \in Seq(Groups), NEW g \in Groups
    PROVE  ElementsOf(Append(gs, g)) = Append(ElementsOf(gs), g.elements)
<1>1. PICK n \in Nat : n = Len(gs)
  BY LenProperties
<1>2. PICK more \in Seq(Groups) : more = Append(gs, g)
  BY AppendProperties
<1>3. Len(more) = n + 1 /\ more[n + 1] = g /\ \A s \in 1..n : more[s] = gs[s]
  BY <1>1, <1>2, AppendProperties
<1>4. PICK a, b : a = ElementsOf(gs) /\ b = ElementsOf(more)
  OBVIOUS
<1>5. /\ a \in Seq(Seq(ElementSet)) /\ Len(a) = n /\ \A s \in 1..n : a[s] = gs[s].elements
      /\ b \in Seq(Seq(ElementSet)) /\ Len(b) = n + 1 /\ \A s \in 1..(n + 1) : b[s] = more[s].elements
  BY <1>1, <1>3, <1>4, ElementsOfType
<1>6. PICK es \in Seq(ElementSet) : es = g.elements
  BY DEF Groups
<1>7. PICK c : c = Append(a, es)
  OBVIOUS
<1>8. c \in Seq(Seq(ElementSet)) /\ Len(c) = n + 1 /\ c[n + 1] = es /\ \A s \in 1..n : c[s] = a[s]
  BY <1>5, <1>7, AppendProperties
<1>9. \A s \in 1..(n + 1) : s = n + 1 \/ s \in 1..n
  OBVIOUS
<1>10. \A s \in 1..(n + 1) : c[s] = b[s]
  BY <1>3, <1>5, <1>6, <1>8, <1>9
<1>11. c = b
  BY <1>5, <1>8, <1>10, SeqEqual
<1> QED BY <1>2, <1>4, <1>6, <1>7, <1>11

\* Another last group.
LEMMA ElementsOfLast ==
    ASSUME NEW gs \in Seq(Groups), NEW n \in Nat \ {0}, n = Len(gs), NEW g \in Groups
    PROVE  ElementsOf([gs EXCEPT ![n] = g]) = [ElementsOf(gs) EXCEPT ![n] = g.elements]
<1>1. PICK new : new = [gs EXCEPT ![n] = g]
  OBVIOUS
<1>2. DOMAIN gs = 1..n
  BY LenProperties
<1>3. DOMAIN new = 1..n /\ \A s \in 1..n : new[s] = IF s = n THEN g ELSE gs[s]
  BY <1>1, <1>2
<1>4. PICK a, b : a = ElementsOf(gs) /\ b = ElementsOf(new)
  OBVIOUS
<1>5. a = [s \in 1..n |-> gs[s].elements] /\ b = [s \in 1..n |-> new[s].elements]
  BY <1>2, <1>3, <1>4 DEF ElementsOf
<1>6. b = [a EXCEPT ![n] = g.elements]
  BY <1>3, <1>5
<1> QED BY <1>1, <1>4, <1>6

\* An element joins the last group or opens one: the groups have it at the end.
LEMMA SectionsStepKeeps ==
    ASSUME NEW acc \in SectionAccs, NEW e \in ElementSet
    PROVE  FlattenSeq(ElementsOf(SectionsStep(acc, e).groups))
          = FlattenSeq(ElementsOf(acc.groups)) \o <<e>>
<1>1. PICK gs \in Seq(Groups) : gs = acc.groups
  BY DEF SectionAccs
<1>2. PICK new : new = SectionsStep(acc, e)
  OBVIOUS
<1>3. PICK ess \in Seq(Seq(ElementSet)), one \in Seq(ElementSet) : ess = ElementsOf(gs) /\ one = <<e>>
  <2>1. ElementsOf(gs) \in Seq(Seq(ElementSet))
    BY ElementsOfType
  <2>2. <<e>> \in Seq(ElementSet)
    OBVIOUS
  <2> QED BY <2>1, <2>2
<1>4. ASSUME NEW path \in Seq(Nat), new.groups = Append(gs, [path |-> path, elements |-> <<e>>])
      PROVE  FlattenSeq(ElementsOf(new.groups)) = FlattenSeq(ess) \o <<e>>
  <2>1. PICK g \in Groups : g = [path |-> path, elements |-> one]
    BY DEF Groups
  <2>2. ElementsOf(new.groups) = Append(ess, one)
    BY <1>3, <1>4, <2>1, ElementsOfAppend
  <2> QED BY <1>3, <2>2, FlattenAppend
<1>5. CASE e.structural
  <2>1. PathTo(Pushed(acc, e)) \in Seq(Nat)
    BY PushedType
  <2>2. new.groups = Append(gs, [path |-> PathTo(Pushed(acc, e)), elements |-> <<e>>])
    BY <1>1, <1>2, <1>5 DEF SectionsStep
  <2> QED BY <1>1, <1>2, <1>3, <1>4, <2>1, <2>2
<1>6. CASE ~e.structural /\ gs = <<>>
  <2>1. new = [acc EXCEPT !.groups = <<[path |-> <<>>, elements |-> <<e>>]>>]
    BY <1>1, <1>2, <1>6 DEF SectionsStep
  <2>2. new.groups = <<[path |-> <<>>, elements |-> <<e>>]>>
    BY <2>1 DEF SectionAccs
  <2>3. new.groups = Append(gs, [path |-> <<>>, elements |-> <<e>>])
    BY <1>6, <2>2
  <2>4. <<>> \in Seq(Nat)
    BY EmptySeq
  <2> QED BY <1>1, <1>2, <1>3, <1>4, <2>3, <2>4
<1>7. CASE ~e.structural /\ gs # <<>>
  <2>1. new = [acc EXCEPT !.groups[Len(acc.groups)].elements = Append(@, e)]
    BY <1>1, <1>2, <1>7 DEF SectionsStep
  <2>2. PICK n \in Nat \ {0}, g \in Groups : Extends(new, acc, e, n, g)
    BY <1>1, <1>7, <2>1, JoinsGroup
  <2>3. PICK more \in Groups : more = [path |-> g.path, elements |-> Append(g.elements, e)]
    BY <2>2 DEF Extends
  <2>4. n = Len(gs) /\ gs[n] = g /\ new.groups = [gs EXCEPT ![n] = more]
    BY <1>1, <2>2, <2>3 DEF Extends
  <2>5. ElementsOf(new.groups) = [ess EXCEPT ![n] = more.elements]
    <3>1. n = Len(gs)
      BY <2>4
    <3>2. ElementsOf([gs EXCEPT ![n] = more]) = [ElementsOf(gs) EXCEPT ![n] = more.elements]
      BY <3>1, ElementsOfLast
    <3> QED BY <1>3, <2>4, <3>2
  <2>6. Len(ess) = n /\ ess[n] = g.elements
    <3>1. n \in 1..Len(gs)
      BY <2>4
    <3> QED BY <1>3, <2>4, <3>1, ElementsOfType
  <2>7. more.elements = Append(ess[n], e)
    BY <2>3, <2>6
  <2>8. PICK all : all = ElementsOf(new.groups)
    OBVIOUS
  <2>9. PICK last : last = Append(ess[n], e)
    OBVIOUS
  <2>10. LastIs(all, ess, n, last)
    BY <2>5, <2>6, <2>7, <2>8, <2>9 DEF LastIs
  <2>11. FlattenSeq(all) = FlattenSeq(ess) \o <<e>>
    BY <2>6, <2>9, <2>10, LastGrows
  <2> QED BY <1>1, <1>2, <1>3, <2>8, <2>11
<1> QED BY <1>5, <1>6, <1>7

\* _group_by_hierarchy
LEMMA SectionsKeep ==
    ASSUME NEW es \in Seq(ElementSet)
    PROVE  FlattenSeq(ElementsOf(Sections(es))) = es
<1>1. PICK n \in Nat : n = Len(es)
  BY LenProperties
<1>2. PICK d : Sectioning(d, es) /\ Sections(es) = d[Len(es)].groups
  BY SectionsSteps
<1>3. d \in [0..n -> SectionAccs] /\ d[0] = NoSections
        /\ \A i \in 1..n : d[i] = SectionsStep(d[i - 1], es[i])
  BY <1>1, <1>2 DEF Sectioning
<1>4. PICK good : good = {i \in 0..n : FlattenSeq(ElementsOf(d[i].groups)) = SubSeq(es, 1, i)}
  OBVIOUS
<1>5. 0 \in good
  <2>1. ElementsOf(<<>>) = <<>>
    BY DEF ElementsOf
  <2>2. d[0].groups = <<>>
    BY <1>3 DEF NoSections
  <2>3. SubSeq(es, 1, 0) = <<>> /\ 0 \in 0..n
    BY SubSeqEmpty
  <2> QED BY <1>4, <2>1, <2>2, <2>3, FlattenNothing
<1>6. ASSUME NEW i \in 1..n, i - 1 \in good PROVE i \in good
  <2>1. i \in 0..n /\ i - 1 \in 0..n /\ i \in 1..Len(es)
    BY <1>1
  <2>2. PICK acc \in SectionAccs, e \in ElementSet : acc = d[i - 1] /\ e = es[i]
    BY <1>3, <2>1, ElementOfSeq
  <2>3. FlattenSeq(ElementsOf(d[i].groups)) = FlattenSeq(ElementsOf(acc.groups)) \o <<e>>
    BY <1>3, <2>2, SectionsStepKeeps
  <2>4. SubSeq(es, 1, i) = SubSeq(es, 1, i - 1) \o <<es[i]>>
    BY <2>1, FrontPart
  <2>5. FlattenSeq(ElementsOf(acc.groups)) = SubSeq(es, 1, i - 1)
    BY <1>4, <1>6, <2>2
  <2> QED BY <1>4, <2>1, <2>2, <2>3, <2>4, <2>5
<1>7. 0..n \subseteq good
  <2>1. \A i \in 1..n : i - 1 \in good => i \in good
    BY <1>6
  <2> QED BY ONLY <1>5, <2>1, n \in Nat, UptoInduction
<1>8. FlattenSeq(ElementsOf(d[n].groups)) = SubSeq(es, 1, n)
  BY <1>4, <1>7
<1> QED BY <1>1, <1>2, <1>8, FrontPart
-----------------------------------------------------------------------------
(* The chunks have the words of the elements.                              *)

\* The words of elements.
TextsOf(es) == [i \in DOMAIN es |-> Whole(es[i]).words]

LEMMA TextsOfIs ==
    ASSUME NEW es \in Seq(ElementSet), NEW n \in Nat, n = Len(es)
    PROVE  /\ TextsOf(es) \in Seq(Seq(Words)) /\ Len(TextsOf(es)) = n
           /\ \A i \in 1..n : TextsOf(es)[i] = Whole(es[i]).words
           /\ Text(es) = FlattenSeq(TextsOf(es))
<1>1. DOMAIN es = 1..n
  BY LenProperties
<1> QED BY <1>1, TextType DEF TextsOf, Text

\* The text of elements is that of the first, then that of the rest.
LEMMA TextJoined ==
    ASSUME NEW us \in Seq(ElementSet), NEW vs \in Seq(ElementSet)
    PROVE  Text(us \o vs) = Text(us) \o Text(vs)
<1>1. PICK n \in Nat, m \in Nat : n = Len(us) /\ m = Len(vs)
  BY LenProperties
<1>2. PICK all : all = us \o vs
  OBVIOUS
<1>3. /\ all \in Seq(ElementSet) /\ Len(all) = n + m
      /\ \A i \in 1..(n + m) : all[i] = IF i <= n THEN us[i] ELSE vs[i - n]
  <2>1. /\ all \in Seq(ElementSet) /\ Len(all) = Len(us) + Len(vs)
        /\ \A i \in 1..(Len(us) + Len(vs)) : all[i] = IF i <= Len(us) THEN us[i] ELSE vs[i - Len(us)]
    BY <1>2, ConcatProperties
  <2> QED BY <1>1, <2>1
<1>4. PICK a, b, c : a = TextsOf(us) /\ b = TextsOf(vs) /\ c = TextsOf(all)
  OBVIOUS
<1>5. /\ a \in Seq(Seq(Words)) /\ Len(a) = n /\ \A i \in 1..n : a[i] = Whole(us[i]).words
      /\ b \in Seq(Seq(Words)) /\ Len(b) = m /\ \A i \in 1..m : b[i] = Whole(vs[i]).words
      /\ Text(us) = FlattenSeq(a) /\ Text(vs) = FlattenSeq(b)
  BY <1>1, <1>4, TextsOfIs
<1>6. /\ c \in Seq(Seq(Words)) /\ Len(c) = n + m /\ \A i \in 1..(n + m) : c[i] = Whole(all[i]).words
      /\ Text(all) = FlattenSeq(c)
  BY <1>3, <1>4, TextsOfIs
<1>7. PICK ab : ab = a \o b
  OBVIOUS
<1>8. /\ ab \in Seq(Seq(Words)) /\ Len(ab) = n + m
      /\ \A i \in 1..(n + m) : ab[i] = IF i <= n THEN a[i] ELSE b[i - n]
  <2>1. /\ ab \in Seq(Seq(Words)) /\ Len(ab) = Len(a) + Len(b)
        /\ \A i \in 1..(Len(a) + Len(b)) : ab[i] = IF i <= Len(a) THEN a[i] ELSE b[i - Len(a)]
    BY <1>5, <1>7, ConcatProperties
  <2> QED BY <1>5, <2>1
<1>9. ASSUME NEW i \in 1..(n + m) PROVE c[i] = ab[i]
  <2>1. CASE i <= n
    <3>1. i \in 1..n
      BY <2>1
    <3> QED BY <1>3, <1>5, <1>6, <1>8, <2>1, <3>1
  <2>2. CASE ~(i <= n)
    <3>1. PICK j \in 1..m : j = i - n
      BY <2>2
    <3>2. c[i] = Whole(vs[j]).words /\ ab[i] = b[j]
      BY <1>3, <1>6, <1>8, <2>2, <3>1
    <3> QED BY <1>5, <3>2
  <2> QED BY <2>1, <2>2
<1>10. c = a \o b
  BY <1>6, <1>7, <1>8, <1>9, SeqEqual
<1>11. FlattenSeq(a \o b) = FlattenSeq(a) \o FlattenSeq(b)
  BY <1>5, FlattenConcat
<1> QED BY <1>2, <1>5, <1>6, <1>10, <1>11

LEMMA TextOfNothing == Text(<<>>) = <<>>
<1>1. [i \in DOMAIN <<>> |-> Whole(<<>>[i]).words] = <<>>
  OBVIOUS
<1> QED BY <1>1, FlattenNothing DEF Text

\* The words of groups of elements are those of the elements one after the other.
LEMMA TextFlattened ==
    ASSUME NEW ess \in Seq(Seq(ElementSet)), NEW tt \in Seq(Seq(Words)), Len(tt) = Len(ess),
           \A i \in 1..Len(ess) : tt[i] = Text(ess[i])
    PROVE  FlattenSeq(tt) = Text(FlattenSeq(ess))
<1>1. PICK n \in Nat : n = Len(ess) /\ n = Len(tt)
  BY LenProperties
<1>2. PICK d : Joins(d, ess, ElementSet) /\ FlattenSeq(ess) = d[Len(ess)]
  BY FlattenSteps
<1>3. PICK e : Joins(e, tt, Words) /\ FlattenSeq(tt) = e[Len(tt)]
  BY FlattenSteps
<1>4. /\ d \in [0..n -> Seq(ElementSet)] /\ d[0] = <<>> /\ \A i \in 1..n : d[i] = d[i - 1] \o ess[i]
      /\ e[0] = <<>> /\ \A i \in 1..n : e[i] = e[i - 1] \o tt[i]
  BY <1>1, <1>2, <1>3 DEF Joins
<1>5. PICK good : good = {i \in 0..n : e[i] = Text(d[i])}
  OBVIOUS
<1>6. 0 \in good
  BY <1>4, <1>5, TextOfNothing
<1>7. ASSUME NEW i \in 1..n, i - 1 \in good PROVE i \in good
  <2>1. i \in 0..n /\ i - 1 \in 0..n
    OBVIOUS
  <2>2. PICK us \in Seq(ElementSet) : us = d[i - 1]
    BY <1>4, <2>1
  <2>3. PICK vs \in Seq(ElementSet) : vs = ess[i]
    BY <1>1, ElementOfSeq
  <2>4. e[i] = Text(us) \o Text(vs)
    BY <1>1, <1>4, <1>5, <1>7, <2>2, <2>3
  <2>5. Text(us \o vs) = Text(us) \o Text(vs)
    BY TextJoined
  <2>6. d[i] = us \o vs
    BY <1>4, <2>2, <2>3
  <2> QED BY <1>5, <2>1, <2>4, <2>5, <2>6
<1>8. 0..n \subseteq good
  <2>1. \A i \in 1..n : i - 1 \in good => i \in good
    BY <1>7
  <2> QED BY ONLY <1>6, <2>1, n \in Nat, UptoInduction
<1>9. e[n] = Text(d[n])
  BY <1>5, <1>8
<1> QED BY <1>1, <1>2, <1>3, <1>9

LEMMA WordedChunks == \A es : Worded(ChunkSet(es))
BY DEF Worded, ChunkSet

\* The chunks of a section.
LEMMA OfSectionKeeps ==
    ASSUME NEW N, NEW es \in Seq(ElementSet), \A i \in DOMAIN es : Marked(es[i]) /\ NamesIn(es[i], N),
           NEW g \in GroupSet(es)
    PROVE  Same(OfSection(g), Text(g.elements), N)
<1>1. PICK path, gs : path = g.path /\ gs = g.elements /\ path \in Seq(Nat)
        /\ gs \in Seq(Under(path, es))
  BY DEF GroupSet, Groups
<1>2. PICK E : E = Under(path, es)
  OBVIOUS
<1>3. E \in SUBSET ElementSet /\ \A e \in E : Marked(e) /\ NamesIn(e, N)
  <2>1. \A i \in DOMAIN es : es[i] \in ElementSet
    OBVIOUS
  <2> QED BY <1>2, <2>1 DEF Under
<1>4. PICK runs : runs = Runs(gs)
  OBVIOUS
<1>5. runs \in Seq(RunSet(E)) /\ FlattenSeq(runs) = gs
  BY <1>1, <1>2, <1>4, RunsType, RunsKeep
<1>6. PICK n \in Nat : n = Len(runs) /\ DOMAIN runs = 1..n /\ \A r \in 1..n : runs[r] \in RunSet(E)
  BY <1>5, LenProperties
<1>7. PICK pss, tt : pss = [r \in DOMAIN runs |-> OfRun(path, runs[r])]
        /\ tt = [r \in 1..n |-> Text(runs[r])]
  OBVIOUS
<1>8. runs \in Seq(Seq(ElementSet)) /\ \A r \in 1..n : runs[r] \in Seq(ElementSet)
  <2>1. Seq(E) \subseteq Seq(ElementSet)
    BY <1>3, SeqMonotonic
  <2>2. RunSet(E) \subseteq Seq(ElementSet)
    BY <2>1 DEF RunSet
  <2>3. Seq(RunSet(E)) \subseteq Seq(Seq(ElementSet))
    BY <2>2, SeqMonotonic
  <2> QED BY <1>5, <1>6, <2>2, <2>3
<1>9. pss \in Seq(Seq(ChunkSet(es))) /\ Len(pss) = n /\ \A r \in 1..n : pss[r] = OfRun(path, runs[r])
  <2>0. path \in Seq(Nat) /\ \A i \in DOMAIN es : Marked(es[i])
    BY <1>1
  <2>1. \A r \in 1..n : OfRun(path, runs[r]) \in Seq(ChunkSet(es))
    BY <1>2, <1>6, <2>0, OfRunType
  <2> QED BY <1>6, <1>7, <2>1
<1>10. tt \in Seq(Seq(Words)) /\ Len(tt) = n /\ \A r \in 1..n : tt[r] = Text(runs[r])
  <2>1. \A r \in 1..n : Text(runs[r]) \in Seq(Words)
    BY <1>8, TextType
  <2> QED BY <1>7, <2>1
<1>11. \A r \in 1..n : Same(pss[r], tt[r], N)
  BY <1>3, <1>6, <1>9, <1>10, OfRunKeeps
<1>12. Same(FlattenSeq(pss), FlattenSeq(tt), N)
  BY <1>9, <1>10, <1>11, WordedChunks, SameFlatten
<1>13. FlattenSeq(tt) = Text(FlattenSeq(runs))
  BY <1>6, <1>8, <1>10, TextFlattened
<1>14. OfSection(g) = FlattenSeq(pss)
  BY <1>1, <1>4, <1>7 DEF OfSection
<1> QED BY <1>1, <1>5, <1>12, <1>13, <1>14

\* HybridDocumentChunker.chunk
LEMMA ChunksKeep ==
    ASSUME NEW N, NEW es \in Seq(ElementSet), Ascends(es),
          \A i \in DOMAIN es : Marked(es[i]) /\ NamesIn(es[i], N)
    PROVE  Same(Chunks(es), Text(es), N)
<1>1. PICK gs : gs = Sections(es)
  OBVIOUS
<1>2. gs \in Seq(GroupSet(es)) /\ FlattenSeq(ElementsOf(gs)) = es
  BY <1>1, SectionsGood, SectionsKeep
<1>3. PICK n \in Nat : n = Len(gs) /\ DOMAIN gs = 1..n /\ \A s \in 1..n : gs[s] \in GroupSet(es)
  BY <1>2, LenProperties
<1>4. gs \in Seq(Groups) /\ \A s \in 1..n : gs[s].elements \in Seq(ElementSet)
  <2>1. GroupSet(es) \subseteq Groups
    BY DEF GroupSet
  <2>2. gs \in Seq(Groups)
    BY <1>2, <2>1, SeqMonotonic
  <2> QED BY <1>3, <2>1, <2>2 DEF Groups
<1>5. PICK ess : ess = ElementsOf(gs)
  OBVIOUS
<1>6. ess \in Seq(Seq(ElementSet)) /\ Len(ess) = n /\ \A s \in 1..n : ess[s] = gs[s].elements
  BY <1>3, <1>4, <1>5, ElementsOfType
<1>7. PICK pss, tt : pss = [s \in DOMAIN gs |-> OfSection(gs[s])]
        /\ tt = [s \in 1..n |-> Text(gs[s].elements)]
  OBVIOUS
<1>8. pss \in Seq(Seq(ChunkSet(es))) /\ Len(pss) = n /\ \A s \in 1..n : pss[s] = OfSection(gs[s])
  <2>1. \A s \in 1..n : OfSection(gs[s]) \in Seq(ChunkSet(es))
    BY <1>3, OfSectionType
  <2> QED BY <1>3, <1>7, <2>1
<1>9. tt \in Seq(Seq(Words)) /\ Len(tt) = n /\ \A s \in 1..n : tt[s] = Text(gs[s].elements)
  <2>1. \A s \in 1..n : Text(gs[s].elements) \in Seq(Words)
    BY <1>4, TextType
  <2> QED BY <1>7, <2>1
<1>10. \A s \in 1..n : Same(pss[s], tt[s], N)
  BY <1>3, <1>8, <1>9, OfSectionKeeps
<1>11. Same(FlattenSeq(pss), FlattenSeq(tt), N)
  BY <1>8, <1>9, <1>10, WordedChunks, SameFlatten
<1>12. FlattenSeq(tt) = Text(FlattenSeq(ess))
  BY <1>6, <1>9, TextFlattened
<1> QED BY <1>1, <1>2, <1>5, <1>7, <1>11, <1>12, ChunksAre

-----------------------------------------------------------------------------
(* Every element is in a chunk.                                            *)

\* The elements that pieces or chunks are made of, which are all there unless something
\* was raised.
ElementsIn(ps) == UNION {ps[i].elements : i \in DOMAIN ps}
Covers(ps, P) == HasHole(ps) \/ P \subseteq ElementsIn(ps)

\* The elements of parts are those of the whole.
LEMMA ElementsConcat ==
    ASSUME NEW T, NEW ps \in Seq(T), NEW qs \in Seq(T)
    PROVE  ElementsIn(ps \o qs) = ElementsIn(ps) \cup ElementsIn(qs)
<1>1. PICK n \in Nat, m \in Nat : n = Len(ps) /\ m = Len(qs) /\ DOMAIN ps = 1..n /\ DOMAIN qs = 1..m
  BY LenProperties
<1>2. PICK all : all = ps \o qs
  OBVIOUS
<1>3. /\ DOMAIN all = 1..(n + m)
      /\ \A i \in 1..(n + m) : all[i] = IF i <= n THEN ps[i] ELSE qs[i - n]
  <2>1. /\ all \in Seq(T) /\ Len(all) = Len(ps) + Len(qs)
        /\ \A i \in 1..(Len(ps) + Len(qs)) : all[i] = IF i <= Len(ps) THEN ps[i] ELSE qs[i - Len(ps)]
    BY <1>2, ConcatProperties
  <2> QED BY <1>1, <2>1, LenProperties
<1>4. ASSUME NEW i \in 1..n PROVE i \in 1..(n + m) /\ all[i] = ps[i]
  BY <1>3
<1>5. ASSUME NEW i \in 1..m PROVE n + i \in 1..(n + m) /\ all[n + i] = qs[i]
  <2>1. n + i \in 1..(n + m) /\ ~(n + i <= n) /\ (n + i) - n = i
    OBVIOUS
  <2> QED BY <1>3, <2>1
<1>6. ASSUME NEW i \in 1..(n + m)
      PROVE  (\E j \in 1..n : all[i] = ps[j]) \/ (\E j \in 1..m : all[i] = qs[j])
  <2>1. CASE i <= n
    BY <1>3, <2>1
  <2>2. CASE ~(i <= n)
    <3>1. i - n \in 1..m
      BY <2>2
    <3> QED BY <1>3, <2>2, <3>1
  <2> QED BY <2>1, <2>2
<1>7. \A x : x \in ElementsIn(all) <=> x \in ElementsIn(ps) \cup ElementsIn(qs)
  <2> TAKE x
  <2>1. ASSUME x \in ElementsIn(all) PROVE x \in ElementsIn(ps) \cup ElementsIn(qs)
    <3>1. PICK i \in 1..(n + m) : x \in all[i].elements
      BY <1>3, <2>1 DEF ElementsIn
    <3> QED BY <1>1, <1>6, <3>1 DEF ElementsIn
  <2>2. ASSUME x \in ElementsIn(ps) PROVE x \in ElementsIn(all)
    <3>1. PICK i \in 1..n : x \in ps[i].elements
      BY <1>1, <2>2 DEF ElementsIn
    <3> QED BY <1>3, <1>4, <3>1 DEF ElementsIn
  <2>3. ASSUME x \in ElementsIn(qs) PROVE x \in ElementsIn(all)
    <3>1. PICK i \in 1..m : x \in qs[i].elements
      BY <1>1, <2>3 DEF ElementsIn
    <3> QED BY <1>3, <1>5, <3>1 DEF ElementsIn
  <2> QED BY <2>1, <2>2, <2>3
<1> QED BY <1>2, <1>7

\* What is in a part is in the whole.
LEMMA CoversConcat ==
    ASSUME NEW T, NEW ps \in Seq(T), NEW qs \in Seq(T), NEW P, Covers(ps, P) \/ Covers(qs, P)
    PROVE  Covers(ps \o qs, P)
<1>1. ElementsIn(ps \o qs) = ElementsIn(ps) \cup ElementsIn(qs)
  BY ElementsConcat
<1>2. HasHole(ps \o qs) <=> HasHole(ps) \/ HasHole(qs)
  BY HolesConcat
<1> QED BY <1>1, <1>2 DEF Covers

\* What is in one of the parts is in all of them together.
LEMMA CoversFlatten ==
    ASSUME NEW T, NEW pss \in Seq(Seq(T)), NEW k \in 1..Len(pss), NEW P, Covers(pss[k], P)
    PROVE  Covers(FlattenSeq(pss), P)
<1>1. PICK n \in Nat : n = Len(pss)
  BY LenProperties
<1>2. PICK d : Joins(d, pss, T) /\ FlattenSeq(pss) = d[Len(pss)]
  BY FlattenSteps
<1>3. d \in [0..n -> Seq(T)] /\ \A i \in 1..n : d[i] = d[i - 1] \o pss[i]
  BY <1>1, <1>2 DEF Joins
<1>4. PICK good : good = {i \in 0..n : k <= i => Covers(d[i], P)}
  OBVIOUS
<1>5. 0 \in good
  BY <1>1, <1>4
<1>6. ASSUME NEW i \in 1..n, i - 1 \in good PROVE i \in good
  <2>1. i \in 0..n /\ i - 1 \in 0..n
    OBVIOUS
  <2>2. PICK x \in Seq(T), ps \in Seq(T) : x = d[i - 1] /\ ps = pss[i]
    BY <1>1, <1>3, <2>1, ElementOfSeq
  <2>3. d[i] = x \o ps
    BY <1>3, <2>2
  <2>4. CASE k = i
    <3>1. Covers(ps, P)
      BY <2>2, <2>4
    <3>2. Covers(x \o ps, P)
      BY <3>1, CoversConcat
    <3> QED BY <1>4, <2>1, <2>3, <3>2
  <2>5. CASE k # i /\ k <= i
    <3>1. k <= i - 1
      BY <1>1, <2>5
    <3>2. Covers(x, P)
      BY <1>4, <1>6, <2>2, <3>1
    <3>3. Covers(x \o ps, P)
      BY <3>2, CoversConcat
    <3> QED BY <1>4, <2>1, <2>3, <3>3
  <2> QED BY <1>4, <2>1, <2>4, <2>5
<1>7. 0..n \subseteq good
  <2>1. \A i \in 1..n : i - 1 \in good => i \in good
    BY <1>6
  <2> QED BY ONLY <1>5, <2>1, n \in Nat, UptoInduction
<1>8. Covers(d[n], P)
  BY <1>1, <1>4, <1>7
<1> QED BY <1>1, <1>2, <1>8

\* What is packed so far has the elements of P, in finished pieces and open ones.
Has(acc, P) == HasHole(acc.done) \/ P \subseteq ElementsIn(acc.done) \cup ElementsIn(acc.open)

\* Finishing the candidate loses no element.
LEMMA FlushHas ==
    ASSUME NEW acc \in Accs(Texty), NEW header \in Seq(Texty), NEW P, Has(acc, P)
    PROVE  Covers(Flush(acc, header), P)
<1>1. PICK done \in Seq(Texty), open \in Seq(Texty) : done = acc.done /\ open = acc.open
  BY DEF Accs
<1>2. CASE open = <<>>
  <2>1. Flush(acc, header) = done
    BY <1>1, <1>2 DEF Flush
  <2>2. ElementsIn(open) = {}
    BY <1>2 DEF ElementsIn
  <2> QED BY <1>1, <2>1, <2>2 DEF Has, Covers
<1>3. CASE open # <<>>
  <2>1. PICK p \in Texty : p = Chunk(header, open)
    BY ChunkPieceType
  <2>2. PICK one \in Seq(Texty) : one = <<p>>
    <3>1. <<p>> \in Seq(Texty)
      OBVIOUS
    <3> QED BY <3>1
  <2>3. Flush(acc, header) = done \o one
    <3>1. Flush(acc, header) = Append(done, p)
      BY <1>1, <1>3, <2>1 DEF Flush
    <3> QED BY <2>2, <3>1, AppendIsConcat
  <2>4. ElementsIn(one) = p.elements
    <3>1. DOMAIN one = {1} /\ one[1] = p
      BY <2>2
    <3> QED BY <3>1 DEF ElementsIn
  <2>5. p.elements = ElementsIn(header) \cup ElementsIn(open)
    <3>1. p.elements = ElementsIn(header \o open)
      BY <2>1 DEF Chunk, Join, ElementsIn
    <3> QED BY <3>1, ElementsConcat
  <2>6. ElementsIn(done \o one) = ElementsIn(done) \cup ElementsIn(one)
    BY ElementsConcat
  <2>7. HasHole(done) => HasHole(done \o one)
    BY HolesConcat
  <2> QED BY <1>1, <2>3, <2>4, <2>5, <2>6, <2>7 DEF Has, Covers
<1> QED BY <1>2, <1>3

\* An iteration of the loop that packs keeps what there is and adds its piece.
LEMMA PackStepHas ==
    ASSUME NEW ps \in Seq(Texty), NEW header \in Seq(Texty),
           NEW split \in [DOMAIN ps -> Seq(Texty)], NEW i \in DOMAIN ps, NEW acc \in Accs(Texty), NEW P,
           \/ Has(acc, P)
           \/ P = ps[i].elements /\ (~Fits(Chunk(header, <<ps[i]>>)) => Covers(split[i], P))
    PROVE  Has(PackStep(ps, header, split, acc, i), P)
<1>1. PICK p \in Texty : p = ps[i]
  OBVIOUS
<1>2. PICK new : new = PackStep(ps, header, split, acc, i)
  OBVIOUS
<1>3. PICK done \in Seq(Texty), open \in Seq(Texty), one \in Seq(Texty) :
        done = acc.done /\ open = acc.open /\ one = <<p>>
  <2>1. <<p>> \in Seq(Texty) /\ acc.done \in Seq(Texty) /\ acc.open \in Seq(Texty)
    BY DEF Accs
  <2> QED BY <2>1
<1>4. ElementsIn(one) = p.elements
  <2>1. DOMAIN one = {1} /\ one[1] = p
    BY <1>3
  <2> QED BY <2>1 DEF ElementsIn
<1>5. PICK flushed \in Seq(Texty) : flushed = Flush(acc, header)
  BY FlushType
<1>6. Has(acc, P) => Covers(flushed, P)
  BY <1>5, FlushHas
<1>7. CASE Fits(Chunk(header, Append(acc.open, p)))
  <2>1. new = [acc EXCEPT !.open = Append(@, p)]
    BY <1>1, <1>2, <1>7 DEF PackStep
  <2>2. new.done = done /\ new.open = open \o one
    <3>1. new.done = acc.done /\ new.open = Append(acc.open, p)
      BY <2>1 DEF Accs
    <3> QED BY <1>3, <3>1, AppendIsConcat
  <2>3. ElementsIn(open \o one) = ElementsIn(open) \cup ElementsIn(one)
    BY ElementsConcat
  <2> QED BY <1>1, <1>2, <1>3, <1>4, <2>2, <2>3 DEF Has
<1>8. CASE ~Fits(Chunk(header, Append(acc.open, p))) /\ Fits(Chunk(header, <<p>>))
  <2>1. new.done = flushed /\ new.open = one
    BY <1>1, <1>2, <1>3, <1>5, <1>8 DEF PackStep, Begin
  <2> QED BY <1>1, <1>2, <1>4, <1>6, <2>1 DEF Has, Covers
<1>9. CASE ~Fits(Chunk(header, Append(acc.open, p))) /\ ~Fits(Chunk(header, <<p>>))
  <2>1. PICK parts \in Seq(Texty) : parts = split[i]
    OBVIOUS
  <2>2. new.done = flushed \o parts /\ new.open = <<>>
    BY <1>1, <1>2, <1>5, <1>9, <2>1 DEF PackStep
  <2>3. Covers(flushed, P) \/ Covers(parts, P)
    BY <1>1, <1>6, <1>9, <2>1
  <2>4. Covers(flushed \o parts, P)
    BY <2>3, CoversConcat
  <2> QED BY <1>2, <2>2, <2>4 DEF Has, Covers
<1> QED BY <1>7, <1>8, <1>9

\* Every piece is in what the pieces are packed into.
LEMMA PackedCovers ==
    ASSUME NEW ps \in Seq(Texty), NEW header \in Seq(Texty), NEW split \in [DOMAIN ps -> Seq(Texty)],
           NEW k \in DOMAIN ps, NEW P, P = ps[k].elements,
           ~Fits(Chunk(header, <<ps[k]>>)) => Covers(split[k], P)
    PROVE  Covers(Packed(ps, header, split), P)
<1>1. PICK n \in Nat : n = Len(ps) /\ DOMAIN ps = 1..n
  BY LenProperties
<1>2. PICK d : Packing(d, ps, header, split) /\ Packed(ps, header, split) = Flush(d[Len(ps)], header)
  BY PackedSteps
<1>3. d \in [0..n -> Accs(Texty)] /\ \A i \in 1..n : d[i] = PackStep(ps, header, split, d[i - 1], i)
  BY <1>1, <1>2 DEF Packing
<1>4. PICK good : good = {i \in 0..n : k <= i => Has(d[i], P)}
  OBVIOUS
<1>5. 0 \in good
  BY <1>1, <1>4
<1>6. ASSUME NEW i \in 1..n, i - 1 \in good PROVE i \in good
  <2>1. i \in 0..n /\ i - 1 \in 0..n /\ i \in DOMAIN ps
    BY <1>1
  <2>2. PICK acc \in Accs(Texty) : acc = d[i - 1]
    BY <1>3, <2>1
  <2>3. d[i] = PackStep(ps, header, split, acc, i)
    BY <1>3, <2>2
  <2>4. CASE k = i
    BY <1>4, <2>1, <2>3, <2>4, PackStepHas
  <2>5. CASE k # i /\ k <= i
    <3>1. k <= i - 1
      BY <1>1, <2>5
    <3>2. Has(acc, P)
      BY <1>4, <1>6, <2>2, <3>1
    <3> QED BY <1>4, <2>1, <2>3, <3>2, PackStepHas
  <2> QED BY <1>4, <2>1, <2>4, <2>5
<1>7. 0..n \subseteq good
  <2>1. \A i \in 1..n : i - 1 \in good => i \in good
    BY <1>6
  <2> QED BY ONLY <1>5, <2>1, n \in Nat, UptoInduction
<1>8. PICK acc \in Accs(Texty) : acc = d[n] /\ Has(acc, P)
  BY <1>1, <1>3, <1>4, <1>7
<1>9. Covers(Flush(acc, header), P)
  BY <1>8, FlushHas
<1> QED BY <1>1, <1>2, <1>8, <1>9

\* Chunks of one element have it, if there are any.
LEMMA OneCovers ==
    ASSUME NEW n, NEW ps \in Seq(From({n})), ps # <<>>
    PROVE  Covers(ps, {n})
<1>1. 1 \in DOMAIN ps /\ ps[1] \in From({n})
  <2>1. Len(ps) \in Nat \ {0} /\ DOMAIN ps = 1..Len(ps)
    BY LenProperties, EmptySeq
  <2>2. 1 \in 1..Len(ps)
    BY <2>1
  <2> QED BY <2>1, <2>2, ElementOfSeq
<1>2. ps[1].elements = {} \/ ps[1].elements = {n}
  BY <1>1 DEF From
<1> QED BY <1>1, <1>2 DEF Covers, HasHole, ElementsIn

\* Chunks that have something are there.
LEMMA CoversSome ==
    ASSUME NEW ps, NEW P, P # {}, Covers(ps, P)
    PROVE  ps # <<>>
<1>1. DOMAIN <<>> = {}
  OBVIOUS
<1> QED BY <1>1 DEF Covers, HasHole, ElementsIn

\* A piece without words fits.
LEMMA NothingFits ==
    ASSUME NEW p \in Texty, p.words = <<>>
    PROVE  Fits(Chunk(<<>>, <<p>>))
<1>1. PICK one \in Seq(Texty), c \in Texty : one = <<p>> /\ c = Join(one)
  <2>1. <<p>> \in Seq(Texty)
    OBVIOUS
  <2> QED BY <2>1, JoinType
<1>2. c.words = <<>>
  BY <1>1, JoinOne
<1>3. PICK d : Counting(d, c.words) /\ Tokens(c) = d[Len(c.words)]
  <2>1. c.words \in Seq(Words)
    BY DEF Texty
  <2> QED BY <2>1, TokensSteps
<1>4. Tokens(c) = 0 /\ MaxTokens \in Nat
  BY <1>2, <1>3, ChunkingAssumption DEF Counting
<1>5. Chunk(<<>>, one) = c
  BY <1>1, EmptyHeader
<1> QED BY <1>1, <1>4, <1>5 DEF Fits

\* A sentence with words is split into something.
LEMMA SplitSome ==
    ASSUME NEW p \in Texty, p.words # <<>>
    PROVE  SplitSentence(p) # <<>>
<1> SUFFICES ASSUME SplitSentence(p) = <<>> PROVE FALSE
  OBVIOUS
<1>1. Same(<<>>, p.words, {})
  BY SplitKeeps
<1>2. ~HasHole(<<>>)
  BY DEF HasHole
<1>3. p.words \in Seq(Words) /\ Keep(p.words, {}) = p.words
  BY KeepAll DEF Texty
<1>4. Kept(<<>>, {}) = <<>>
  BY KeptNothing
<1> QED BY <1>1, <1>2, <1>3, <1>4 DEF Same

\* _split_oversized_text, of a text that is too large
LEMMA SplitTextCovers ==
    ASSUME NEW e \in ElementSet, ~Fits(Chunk(<<>>, <<Whole(e)>>))
    PROVE  Covers(SplitText(e), {e.position})
<1>1. Whole(e).words # <<>>
  BY PieceType, NothingFits
<1>2. e.body # <<>>
  BY <1>1, PieceType, FlattenNothing
<1>3. PICK n \in Nat : n = Len(e.body) /\ DOMAIN e.body = 1..n /\ 1 \in 1..n
  <2>1. e.body \in Seq(Seq(Words))
    BY DEF ElementSet
  <2>2. Len(e.body) \in Nat \ {0} /\ DOMAIN e.body = 1..Len(e.body)
    BY <1>2, <2>1, LenProperties, EmptySeq
  <2> QED BY <2>2
<1>4. PICK ps : ps = Pieces(e)
  OBVIOUS
<1>5. ps \in Seq(Texty) /\ DOMAIN ps = 1..n /\ \A s \in 1..n : ps[s].elements = {e.position}
  BY <1>3, <1>4, PieceType
<1>6. PICK split : split = [s \in DOMAIN e.body |-> SplitSentence(ps[s])]
  OBVIOUS
<1>7. \A s \in 1..n : SplitSentence(ps[s]) \in Seq(From({e.position}))
  <2> TAKE s \in 1..n
  <2>1. PICK p \in Texty : p = ps[s]
    BY <1>5
  <2>2. p.elements = {e.position}
    BY <1>5, <2>1
  <2> QED BY <2>1, <2>2, SplitSentenceFrom
<1>8. split \in [DOMAIN ps -> Seq(Texty)] /\ \A s \in 1..n : split[s] = SplitSentence(ps[s])
  <2>1. \A s \in 1..n : SplitSentence(ps[s]) \in Seq(Texty)
    BY <1>7, FromTexty
  <2> QED BY <1>3, <1>5, <1>6, <2>1
<1>9. PICK header \in Seq(Texty) : header = <<>>
  BY EmptySeq
<1>10. ASSUME ~Fits(Chunk(header, <<ps[1]>>)) PROVE Covers(split[1], {e.position})
  <2>1. PICK p \in Texty : p = ps[1]
    BY <1>3, <1>5
  <2>2. p.words # <<>>
    BY <1>9, <1>10, <2>1, NothingFits
  <2>3. SplitSentence(p) # <<>> /\ SplitSentence(p) \in Seq(From({e.position}))
    BY <1>3, <1>7, <2>1, <2>2, SplitSome
  <2>4. Covers(SplitSentence(p), {e.position})
    BY <2>3, OneCovers
  <2> QED BY <1>3, <1>8, <2>1, <2>4
<1>11. Covers(Packed(ps, header, split), {e.position})
  <2>1. 1 \in DOMAIN ps /\ {e.position} = ps[1].elements
    BY <1>3, <1>5
  <2> QED BY <1>5, <1>8, <1>10, <2>1, PackedCovers
<1> QED BY <1>4, <1>6, <1>9, <1>11 DEF SplitText

\* _chunk_text
LEMMA ChunkTextCovers ==
    ASSUME NEW es \in Seq(ElementSet), NEW k \in DOMAIN es
    PROVE  Covers(ChunkText(es), {es[k].position})
<1>1. PICK split : split = [i \in DOMAIN es |-> SplitText(es[i])]
  OBVIOUS
<1>2. PICK ps : ps = [i \in DOMAIN es |-> Whole(es[i])]
  OBVIOUS
<1>3. PICK n \in Nat : n = Len(es) /\ DOMAIN es = 1..n /\ \A i \in 1..n : es[i] \in ElementSet
  BY LenProperties
<1>4. ps \in Seq(Texty) /\ DOMAIN ps = 1..n /\ \A i \in 1..n : ps[i] = Whole(es[i])
  <2>1. \A i \in 1..n : Whole(es[i]) \in Texty
    BY <1>3, PieceType
  <2> QED BY <1>2, <1>3, <2>1
<1>5. split \in [DOMAIN ps -> Seq(Texty)] /\ \A i \in 1..n : split[i] = SplitText(es[i])
  <2>1. \A i \in 1..n : SplitText(es[i]) \in Seq(Texty)
    BY <1>3, SplitTextFrom, FromTexty
  <2> QED BY <1>1, <1>3, <1>4, <2>1
<1>6. PICK header \in Seq(Texty) : header = <<>>
  BY EmptySeq
<1>7. PICK e \in ElementSet : e = es[k]
  BY <1>3
<1>8. ps[k] = Whole(e) /\ ps[k].elements = {e.position} /\ split[k] = SplitText(e) /\ k \in DOMAIN ps
  BY <1>3, <1>4, <1>5, <1>7, PieceType
<1>9. ~Fits(Chunk(header, <<ps[k]>>)) => Covers(split[k], {e.position})
  BY <1>6, <1>8, SplitTextCovers
<1>10. Covers(Packed(ps, header, split), {e.position})
  BY <1>4, <1>5, <1>8, <1>9, PackedCovers
<1> QED BY <1>1, <1>2, <1>6, <1>7, <1>10 DEF ChunkText

\* _chunk_visual
LEMMA ChunkVisualCovers ==
    ASSUME NEW es \in Seq(ElementSet), NEW k \in DOMAIN es
    PROVE  Covers(ChunkVisual(es), {es[k].position})
<1>1. PICK n \in Nat : n = Len(es) /\ DOMAIN es = 1..n /\ \A i \in 1..n : es[i] \in ElementSet
  BY LenProperties
<1>2. PICK pss : pss = [i \in DOMAIN es |-> ChunkText(<<es[i]>>)]
  OBVIOUS
<1>3. \A i \in 1..n : ChunkText(<<es[i]>>) \in Seq(Texty)
  <2> TAKE i \in 1..n
  <2>1. <<es[i]>> \in Seq(ElementSet)
    BY <1>1
  <2> QED BY <2>1, ChunkTextFrom, FromTexty
<1>4. pss \in Seq(Seq(Texty)) /\ Len(pss) = n /\ \A i \in 1..n : pss[i] = ChunkText(<<es[i]>>)
  BY <1>1, <1>2, <1>3
<1>5. Covers(pss[k], {es[k].position})
  <2>1. PICK e \in ElementSet : e = es[k]
    BY <1>1
  <2>2. PICK one : one = <<e>>
    OBVIOUS
  <2>3. one \in Seq(ElementSet) /\ 1 \in DOMAIN one /\ one[1] = e
    BY <2>2
  <2>4. Covers(ChunkText(one), {e.position})
    BY <2>3, ChunkTextCovers
  <2> QED BY <1>1, <1>4, <2>1, <2>2, <2>4
<1>6. Covers(FlattenSeq(pss), {es[k].position})
  BY <1>1, <1>4, <1>5, CoversFlatten
<1> QED BY <1>2, <1>6 DEF ChunkVisual

\* A table, unless it is only a header above the limit.
LEMMA TableCovers ==
    ASSUME NEW e \in ElementSet, e.kind = "table", ~HeaderOnly(e)
    PROVE  Covers(TableChunks(e), {e.position})
<1>1. CASE Fits(Whole(e))
  <2>1. TableChunks(e) = <<Whole(e)>>
    BY <1>1 DEF TableChunks
  <2>2. DOMAIN <<Whole(e)>> = {1} /\ <<Whole(e)>>[1].elements = {e.position}
    BY PieceType
  <2> QED BY <2>1, <2>2 DEF Covers, ElementsIn
<1>2. CASE ~Fits(Whole(e))
  <2>1. PICK rows, header : rows = Tail(Pieces(e)) /\ header = <<Head(Pieces(e))>>
    OBVIOUS
  <2>2. PICK split : split = [i \in DOMAIN rows |-> SplitRow]
    OBVIOUS
  <2>3. rows \in Seq(Texty) /\ header \in Seq(Texty)
    <3>1. 1 \in DOMAIN e.body /\ Pieces(e) \in Seq(Texty) /\ DOMAIN Pieces(e) = DOMAIN e.body
      BY PieceType, TableRows
    <3>2. Pieces(e)[1] \in Texty
      BY <3>1
    <3> QED BY <2>1, <3>2, TableRows
  <2>4. 1 \in DOMAIN rows /\ rows[1].elements = {e.position}
    <3>1. /\ Len(e.body) \in Nat /\ 1 \in 1..Len(e.body) /\ DOMAIN e.body = 1..Len(e.body)
          /\ Len(rows) = Len(e.body) - 1
          /\ \A i \in 1..(Len(e.body) - 1) : rows[i] = Pieces(e)[i + 1]
      BY <2>1, TableRows
    <3>2. Len(e.body) # 1
      BY <1>2 DEF HeaderOnly
    <3>3. PICK l \in Nat : l = Len(e.body) /\ 1 \in 1..(l - 1) /\ 2 \in 1..l
      <4>1. PICK l \in Nat : l = Len(e.body)
        BY <3>1
      <4>2. l \in Nat /\ 1 \in 1..l /\ l # 1
        BY <3>1, <3>2, <4>1
      <4>3. 1 \in 1..(l - 1) /\ 2 \in 1..l
        BY ONLY <4>2
      <4> QED BY <4>1, <4>3
    <3>4. rows[1] = Pieces(e)[2] /\ 2 \in DOMAIN e.body
      BY <3>1, <3>3
    <3>5. DOMAIN rows = 1..(l - 1)
      BY <2>3, <3>1, <3>3, LenProperties
    <3> QED BY <3>3, <3>4, <3>5, PieceType
  <2>5. split \in [DOMAIN rows -> Seq(Texty)]
    <3>1. SplitRow \in Seq(Texty)
      BY DEF SplitRow, Raised, Texty
    <3> QED BY <2>2, <3>1
  <2>6. Covers(split[1], {e.position})
    <3>1. split[1] = <<Raised>>
      BY <2>2, <2>4 DEF SplitRow
    <3>2. 1 \in DOMAIN <<Raised>> /\ <<Raised>>[1].elements = {}
      BY DEF Raised
    <3> QED BY <3>1, <3>2 DEF Covers, HasHole
  <2>7. Covers(Packed(rows, header, split), {e.position})
    BY <2>3, <2>4, <2>5, <2>6, PackedCovers
  <2> QED BY <1>2, <2>1, <2>2, <2>7 DEF TableChunks
<1> QED BY <1>1, <1>2

\* _chunk_table
LEMMA ChunkTableCovers ==
    ASSUME NEW es \in Seq(ElementSet), \A i \in DOMAIN es : es[i].kind = "table" /\ Marked(es[i]),
           NEW k \in DOMAIN es, ~HeaderOnly(es[k])
    PROVE  Covers(ChunkTable(es), {es[k].position})
<1>1. PICK n \in Nat : n = Len(es) /\ DOMAIN es = 1..n /\ \A i \in 1..n : es[i] \in ElementSet
  BY LenProperties
<1>2. PICK pss : pss = [i \in DOMAIN es |-> TableChunks(es[i])]
  OBVIOUS
<1>3. \A i \in 1..n : TableChunks(es[i]) \in Seq(Texty)
  <2> TAKE i \in 1..n
  <2>1. OfTable(es[i]) \subseteq Texty
    BY DEF OfTable, From
  <2>2. TableChunks(es[i]) \in Seq(OfTable(es[i]))
    BY <1>1, TableChunksType
  <2> QED BY <2>1, <2>2, SeqMonotonic
<1>4. pss \in Seq(Seq(Texty)) /\ Len(pss) = n /\ \A i \in 1..n : pss[i] = TableChunks(es[i])
  BY <1>1, <1>2, <1>3
<1>5. Covers(pss[k], {es[k].position})
  BY <1>1, <1>4, TableCovers
<1>6. Covers(FlattenSeq(pss), {es[k].position})
  BY <1>1, <1>4, <1>5, CoversFlatten
<1> QED BY <1>2, <1>6, ChunkTableIs

\* _chunk_by_content_type
LEMMA ChunksOfKindCover ==
    ASSUME NEW E \in SUBSET ElementSet, \A e \in E : Marked(e), NEW run \in RunSet(E),
           NEW k \in DOMAIN run, ~HeaderOnly(run[k])
    PROVE  Covers(ChunksOfKind(run[1].kind, run), {run[k].position})
<1>1. PICK kind : kind = run[1].kind
  OBVIOUS
<1>2. run \in Seq(ElementSet) /\ \A i \in DOMAIN run : run[i].kind = kind /\ Marked(run[i])
  <2>1. run \in Seq(E)
    BY DEF RunSet
  <2>2. \A i \in DOMAIN run : run[i] \in E
    BY <2>1
  <2>3. run \in Seq(ElementSet)
    BY <2>1, SeqMonotonic
  <2> QED BY <1>1, <2>2, <2>3 DEF RunSet
<1>3. kind \in {"text", "table", "visual"}
  <2>1. run[k] \in ElementSet /\ run[k].kind = kind
    BY <1>2
  <2> QED BY <2>1 DEF ElementSet
<1>4. CASE kind = "table"
  <2>1. Covers(ChunkTable(run), {run[k].position})
    BY <1>2, <1>4, ChunkTableCovers
  <2> QED BY <1>1, <1>4, <2>1 DEF ChunksOfKind
<1>5. CASE kind # "table"
  <2>1. Covers(ChunkText(run), {run[k].position}) /\ Covers(ChunkVisual(run), {run[k].position})
    BY <1>2, ChunkTextCovers, ChunkVisualCovers
  <2>2. ChunksOfKind(kind, run) = IF kind = "text" THEN ChunkText(run) ELSE ChunkVisual(run)
    BY <1>3, <1>5 DEF ChunksOfKind
  <2> QED BY <1>1, <2>1, <2>2
<1> QED BY <1>4, <1>5

\* The chunks of a run.
LEMMA OfRunCovers ==
    ASSUME NEW E \in SUBSET ElementSet, \A e \in E : Marked(e), NEW run \in RunSet(E), NEW path,
           NEW k \in DOMAIN run, ~HeaderOnly(run[k])
    PROVE  Covers(OfRun(path, run), {run[k].position})
<1>1. PICK kind, cs : kind = run[1].kind /\ cs = ChunksOfKind(kind, run)
  OBVIOUS
<1>2. Covers(cs, {run[k].position})
  BY <1>1, ChunksOfKindCover
<1>3. PICK new : new = OfRun(path, run)
  OBVIOUS
<1>4. new = [i \in DOMAIN cs |-> [elements |-> cs[i].elements, words |-> cs[i].words,
        kind |-> kind, path |-> path]]
  BY <1>1, <1>3 DEF OfRun
<1>5. DOMAIN new = DOMAIN cs /\ \A i \in DOMAIN cs : new[i].elements = cs[i].elements
  BY <1>4
<1>6. ElementsIn(new) = ElementsIn(cs) /\ (HasHole(new) <=> HasHole(cs))
  BY <1>5 DEF ElementsIn, HasHole
<1> QED BY <1>2, <1>3, <1>6 DEF Covers

\* What is in parts put together is in one of them.
LEMMA FlattenHas ==
    ASSUME NEW S, NEW ss \in Seq(Seq(S)), NEW j \in DOMAIN FlattenSeq(ss)
    PROVE  \E r \in 1..Len(ss) : \E k \in DOMAIN ss[r] : FlattenSeq(ss)[j] = ss[r][k]
<1>1. PICK n \in Nat : n = Len(ss)
  BY LenProperties
<1>2. PICK d : Joins(d, ss, S) /\ FlattenSeq(ss) = d[Len(ss)]
  BY FlattenSteps
<1>3. d \in [0..n -> Seq(S)] /\ d[0] = <<>> /\ \A i \in 1..n : d[i] = d[i - 1] \o ss[i]
  BY <1>1, <1>2 DEF Joins
<1> DEFINE In(s, i) == \A l \in DOMAIN s : \E r \in 1..i : \E k \in DOMAIN ss[r] : s[l] = ss[r][k]
<1>4. PICK good : good = {i \in 0..n : In(d[i], i)}
  OBVIOUS
<1>5. 0 \in good
  BY <1>3, <1>4
<1>6. ASSUME NEW i \in 1..n, i - 1 \in good PROVE i \in good
  <2>1. i \in 0..n /\ i - 1 \in 0..n
    OBVIOUS
  <2>2. PICK x \in Seq(S), part \in Seq(S) : x = d[i - 1] /\ part = ss[i]
    BY <1>1, <1>3, <2>1, ElementOfSeq
  <2>3. PICK a \in Nat, b \in Nat : a = Len(x) /\ b = Len(part) /\ DOMAIN x = 1..a /\ DOMAIN part = 1..b
    BY LenProperties
  <2>4. PICK all : all = x \o part
    OBVIOUS
  <2>5. /\ DOMAIN all = 1..(a + b)
        /\ \A l \in 1..(a + b) : all[l] = IF l <= a THEN x[l] ELSE part[l - a]
    <3>1. /\ all \in Seq(S) /\ Len(all) = Len(x) + Len(part)
          /\ \A l \in 1..(Len(x) + Len(part)) : all[l] = IF l <= Len(x) THEN x[l] ELSE part[l - Len(x)]
      BY <2>4, ConcatProperties
    <3> QED BY <2>3, <3>1, LenProperties
  <2>6. In(x, i - 1)
    BY <1>4, <1>6, <2>2
  <2>7. ASSUME NEW l \in 1..(a + b)
        PROVE  \E r \in 1..i : \E k \in DOMAIN ss[r] : all[l] = ss[r][k]
    <3>1. CASE l <= a
      <4>1. l \in DOMAIN x /\ all[l] = x[l]
        BY <2>3, <2>5, <3>1
      <4>2. PICK r \in 1..(i - 1) : \E k \in DOMAIN ss[r] : x[l] = ss[r][k]
        BY <2>6, <4>1
      <4>3. r \in 1..i
        OBVIOUS
      <4> QED BY <4>1, <4>2, <4>3
    <3>2. CASE ~(l <= a)
      <4>1. l - a \in 1..b
        BY <3>2
      <4>2. l - a \in DOMAIN ss[i]
        BY <2>2, <2>3, <4>1
      <4>3. all[l] = part[l - a]
        BY <2>5, <3>2
      <4>4. all[l] = ss[i][l - a] /\ i \in 1..i
        BY <2>2, <4>3
      <4> QED BY <4>2, <4>4
    <3> QED BY <3>1, <3>2
  <2>8. In(all, i)
    BY <2>5, <2>7
  <2> HIDE DEF In
  <2> QED BY <1>3, <1>4, <2>1, <2>2, <2>4, <2>8
<1>7. 0..n \subseteq good
  <2>1. \A i \in 1..n : i - 1 \in good => i \in good
    BY <1>6
  <2> QED BY ONLY <1>5, <2>1, n \in Nat, UptoInduction
<1>8. In(d[n], n)
  BY <1>4, <1>7
<1> QED BY <1>1, <1>2, <1>8

\* The chunks of a section.
LEMMA OfSectionCovers ==
    ASSUME NEW es \in Seq(ElementSet), \A i \in DOMAIN es : Marked(es[i]), NEW g \in GroupSet(es),
           NEW j \in DOMAIN g.elements, ~HeaderOnly(g.elements[j])
    PROVE  Covers(OfSection(g), {g.elements[j].position})
<1>1. PICK path, gs : path = g.path /\ gs = g.elements /\ path \in Seq(Nat)
        /\ gs \in Seq(Under(path, es))
  BY DEF GroupSet, Groups
<1>2. PICK E : E = Under(path, es)
  OBVIOUS
<1>3. E \in SUBSET ElementSet /\ \A e \in E : Marked(e)
  <2>1. \A i \in DOMAIN es : es[i] \in ElementSet
    OBVIOUS
  <2> QED BY <1>2, <2>1 DEF Under
<1>4. PICK runs : runs = Runs(gs)
  OBVIOUS
<1>5. runs \in Seq(RunSet(E)) /\ FlattenSeq(runs) = gs
  BY <1>1, <1>2, <1>4, RunsType, RunsKeep
<1>6. PICK n \in Nat : n = Len(runs) /\ DOMAIN runs = 1..n /\ \A r \in 1..n : runs[r] \in RunSet(E)
  BY <1>5, LenProperties
<1>7. PICK pss : pss = [r \in DOMAIN runs |-> OfRun(path, runs[r])]
  OBVIOUS
<1>8. pss \in Seq(Seq(ChunkSet(es))) /\ Len(pss) = n /\ \A r \in 1..n : pss[r] = OfRun(path, runs[r])
  <2>1. \A r \in 1..n : OfRun(path, runs[r]) \in Seq(ChunkSet(es))
    BY <1>1, <1>2, <1>6, OfRunType
  <2> QED BY <1>6, <1>7, <2>1
<1>9. PICK r \in 1..n : \E k \in DOMAIN runs[r] : gs[j] = runs[r][k]
  <2>1. runs \in Seq(Seq(E))
    <3>1. RunSet(E) \subseteq Seq(E)
      BY DEF RunSet
    <3> QED BY <1>5, <3>1, SeqMonotonic
  <2>2. j \in DOMAIN FlattenSeq(runs)
    BY <1>1, <1>5
  <2> QED BY <1>5, <1>6, <2>1, <2>2, FlattenHas
<1>10. PICK k \in DOMAIN runs[r] : gs[j] = runs[r][k]
  BY <1>9
<1>11. Covers(pss[r], {gs[j].position})
  <2>1. PICK run \in RunSet(E) : run = runs[r]
    BY <1>6
  <2>2. k \in DOMAIN run /\ gs[j] = run[k] /\ ~HeaderOnly(run[k])
    BY <1>1, <1>10, <2>1
  <2>3. Covers(OfRun(path, run), {run[k].position})
    BY <1>3, <2>2, OfRunCovers
  <2> QED BY <1>8, <2>1, <2>2, <2>3
<1>12. Covers(FlattenSeq(pss), {gs[j].position})
  BY <1>8, <1>11, CoversFlatten
<1>13. OfSection(g) = FlattenSeq(pss)
  BY <1>1, <1>4, <1>7 DEF OfSection
<1> QED BY <1>1, <1>12, <1>13

\* HybridDocumentChunker.chunk
LEMMA ChunksCover ==
    ASSUME NEW es \in Seq(ElementSet), Ascends(es), \A i \in DOMAIN es : Marked(es[i]),
           NEW j \in DOMAIN es, ~HeaderOnly(es[j])
    PROVE  Covers(Chunks(es), {es[j].position})
<1>1. PICK gs : gs = Sections(es)
  OBVIOUS
<1>2. gs \in Seq(GroupSet(es)) /\ FlattenSeq(ElementsOf(gs)) = es
  BY <1>1, SectionsGood, SectionsKeep
<1>3. PICK n \in Nat : n = Len(gs) /\ DOMAIN gs = 1..n /\ \A s \in 1..n : gs[s] \in GroupSet(es)
  BY <1>2, LenProperties
<1>4. PICK ess : ess = ElementsOf(gs)
  OBVIOUS
<1>5. ess \in Seq(Seq(ElementSet)) /\ Len(ess) = n /\ \A s \in 1..n : ess[s] = gs[s].elements
  <2>1. GroupSet(es) \subseteq Groups
    BY DEF GroupSet
  <2>2. gs \in Seq(Groups)
    BY <1>2, <2>1, SeqMonotonic
  <2> QED BY <1>3, <1>4, <2>2, ElementsOfType
<1>6. PICK pss : pss = [s \in DOMAIN gs |-> OfSection(gs[s])]
  OBVIOUS
<1>7. pss \in Seq(Seq(ChunkSet(es))) /\ Len(pss) = n /\ \A s \in 1..n : pss[s] = OfSection(gs[s])
  <2>1. \A s \in 1..n : OfSection(gs[s]) \in Seq(ChunkSet(es))
    BY <1>3, OfSectionType
  <2> QED BY <1>3, <1>6, <2>1
<1>8. PICK s \in 1..n : \E k \in DOMAIN ess[s] : es[j] = ess[s][k]
  <2>1. j \in DOMAIN FlattenSeq(ess)
    BY <1>2, <1>4
  <2> QED BY <1>2, <1>4, <1>5, <2>1, FlattenHas
<1>9. PICK k \in DOMAIN ess[s] : es[j] = ess[s][k]
  BY <1>8
<1>10. Covers(pss[s], {es[j].position})
  <2>1. PICK g \in GroupSet(es) : g = gs[s]
    BY <1>3
  <2>2. k \in DOMAIN g.elements /\ es[j] = g.elements[k] /\ ~HeaderOnly(g.elements[k])
    BY <1>5, <1>9, <2>1
  <2>3. Covers(OfSection(g), {g.elements[k].position})
    BY <2>2, OfSectionCovers
  <2> QED BY <1>7, <2>1, <2>2, <2>3
<1>11. Covers(FlattenSeq(pss), {es[j].position})
  BY <1>7, <1>10, CoversFlatten
<1> QED BY <1>1, <1>6, <1>11, ChunksAre

-----------------------------------------------------------------------------
(* What is extracted.                                                      *)

\* A level is a natural number.
LEMMA LevelType ==
    ASSUME NEW its \in Seq(Item), NEW i \in DOMAIN its
    PROVE  Level(its, i) \in Nat
<1>1. its[i] \in Item
  OBVIOUS
<1> QED BY <1>1 DEF Level, Item

\* What of an item is kept.
LEMMA BodyOfType ==
    ASSUME NEW item \in Item
    PROVE  BodyOf(item) \in Seq(Seq(Nat \ {0}))
          /\ (Kind(item) = "table" => BodyOf(item) = item.body)
<1>1. item.body \in Seq(Seq(Nat \ {0})) /\ item.kept \in Nat /\ item.kept <= Len(item.body)
  BY DEF Item
<1>2. CASE Kind(item) # "table" /\ item.kept > 0
  <2>1. item.kept \in 1..Len(item.body)
    BY <1>1, <1>2, LenProperties
  <2>2. item.body[item.kept] \in Seq(Nat \ {0})
    BY <1>1, <2>1, ElementOfSeq
  <2>3. <<item.body[item.kept]>> \in Seq(Seq(Nat \ {0}))
    BY <2>2
  <2> QED BY <1>2, <2>3 DEF BodyOf
<1>3. CASE ~(Kind(item) # "table" /\ item.kept > 0)
  BY <1>1, <1>3 DEF BodyOf
<1> QED BY <1>2, <1>3

\* An extracted element: its words know their places, and its rows are those of its item.
LEMMA ElementType ==
    ASSUME NEW its \in Seq(Item), NEW i \in DOMAIN its,
           Kind(its[i]) = "visual" \/ (Kind(its[i]) \in {"text", "table"} /\ ~IsEmpty(its[i]))
    PROVE  /\ Element(its, i) \in ElementSet /\ Marked(Element(its, i))
           /\ Element(its, i).position = i /\ Element(its, i).kind = Kind(its[i])
           /\ DOMAIN Element(its, i).body = DOMAIN BodyOf(its[i])
           /\ \A s \in DOMAIN Element(its, i).body : Len(Element(its, i).body[s])
                 = Len(BodyOf(its[i])[s])
<1>1. PICK item \in Item : item = its[i]
  OBVIOUS
<1>2. PICK body \in Seq(Seq(Nat \ {0})) : body = BodyOf(item)
  BY BodyOfType
<1>3. PICK n \in Nat : n = Len(body) /\ DOMAIN body = 1..n /\ \A s \in 1..n : body[s] \in Seq(Nat \ {0})
  BY LenProperties
<1>4. i \in Nat
  BY LenProperties
<1> DEFINE Row(s) == [w \in DOMAIN body[s] |-> [at |-> <<i, s, w>>, tokens |-> body[s][w]]]
<1>5. ASSUME NEW s \in 1..n
      PROVE  Row(s) \in Seq(Words) /\ Len(Row(s)) = Len(body[s]) /\ DOMAIN Row(s) = DOMAIN body[s]
  <2>1. PICK row \in Seq(Nat \ {0}) : row = body[s]
    BY <1>3
  <2>2. PICK l \in Nat : l = Len(row) /\ DOMAIN row = 1..l /\ \A w \in 1..l : row[w] \in Nat
    BY LenProperties
  <2>3. \A w \in 1..l : [at |-> <<i, s, w>>, tokens |-> row[w]] \in Words
    <3> TAKE w \in 1..l
    <3>1. s \in Nat /\ w \in Nat /\ row[w] \in Nat
      BY <2>2
    <3> QED BY <1>4, <3>1 DEF Words
  <2>4. Row(s) = [w \in 1..l |-> [at |-> <<i, s, w>>, tokens |-> row[w]]]
    BY <2>1, <2>2
  <2> HIDE DEF Row
  <2>5. Row(s) \in Seq(Words) /\ Len(Row(s)) = l /\ DOMAIN Row(s) = 1..l
    BY <2>3, <2>4
  <2> QED BY <2>1, <2>2, <2>5
<1>6. \A s \in 1..n : \A w \in DOMAIN body[s] : Row(s)[w].at = <<i, s, w>>
  OBVIOUS
<1>7. PICK rows : rows = [s \in 1..n |-> Row(s)]
  OBVIOUS
<1>8. PICK e : e = Element(its, i)
  OBVIOUS
<1>9. e = [position |-> i, kind |-> Kind(item), level |-> Level(its, i),
           structural |-> Structural(its, i), body |-> rows]
  BY <1>1, <1>2, <1>3, <1>7, <1>8 DEF Element
<1> HIDE DEF Row
<1>10. rows \in Seq(Seq(Words)) /\ Len(rows) = n /\ DOMAIN rows = 1..n
        /\ \A s \in 1..n : rows[s] = Row(s)
  BY <1>5, <1>7
<1>11. Kind(item) \in {"text", "table", "visual"}
  BY <1>1
<1>12. Kind(item) = "table" => rows # <<>>
  <2> SUFFICES ASSUME Kind(item) = "table" PROVE rows # <<>>
    OBVIOUS
  <2>1. ~IsEmpty(item)
    BY <1>1
  <2>2. PICK s : s \in DOMAIN BodyOf(item)
    BY <2>1 DEF IsEmpty
  <2>3. s \in 1..n
    BY <1>2, <1>3, <2>2
  <2> QED BY <1>10, <2>3, EmptySeq
<1>13. e \in ElementSet
  <2>1. Level(its, i) \in Nat /\ Structural(its, i) \in BOOLEAN
    BY LevelType DEF Structural
  <2>2. e \in [position : Nat, kind : {"text", "table", "visual"}, level : Nat, structural : BOOLEAN,
               body : Seq(Seq(Words))]
    BY <1>4, <1>9, <1>10, <1>11, <2>1
  <2>3. e.kind = "table" => e.body # <<>>
    BY <1>9, <1>12
  <2> QED BY <2>2, <2>3 DEF ElementSet
<1>14. e.body = rows /\ e.position = i /\ e.kind = Kind(item)
  BY <1>9
<1>15. Marked(e)
  <2>1. ASSUME NEW s \in 1..n, NEW w \in DOMAIN rows[s] PROVE rows[s][w].at = <<i, s, w>>
    <3>1. rows[s] = Row(s) /\ w \in DOMAIN body[s]
      BY <1>5, <1>10, <2>1
    <3> QED BY <1>6, <3>1
  <2> QED BY <1>10, <1>14, <2>1 DEF Marked
<1>16. \A s \in 1..n : Len(rows[s]) = Len(body[s])
  BY <1>5, <1>10
<1> QED BY <1>1, <1>2, <1>3, <1>8, <1>10, <1>13, <1>14, <1>15, <1>16

-----------------------------------------------------------------------------
(* The inductive invariant.                                                *)

\* These are elements of the first n items.
FromItems(es, its, n) ==
    /\ es \in Seq(ElementSet) /\ Ascends(es)
    /\ \A k \in DOMAIN es :
        /\ es[k].position \in 1..n /\ es[k] = Element(its, es[k].position) /\ Marked(es[k])
        /\ DOMAIN es[k].body = DOMAIN BodyOf(its[es[k].position])
        /\ \A s \in DOMAIN es[k].body :
              Len(es[k].body[s]) = Len(BodyOf(its[es[k].position])[s])

\* Before the chunks are made, there are no chunks, requests or vectors.
Early == {"download", "convert", "extract", "vision"}

\* What is extracted is of the items that were read; the vision model is asked about the next.
Extracted ==
    /\ items \in Seq(Item) /\ read \in 0..Len(items) /\ FromItems(elements, items, read)
    /\ step = "vision" => read < Len(items) /\ Kind(items[read + 1]) = "visual"

\* The chunks fit, have the path of their elements, and tables have whole rows.
Chunked ==
    /\ chunks \in Seq(ChunkSet(elements)) /\ \A i \in DOMAIN chunks : chunks[i].elements # {}
    /\ step \in Early => chunks = <<>>

\* The requests are within the limits; those not sent yet continue where the vectors end.
Sending ==
    /\ batches \in Seq(Positions) /\ AllWithin(chunks, batches)
    /\ step \in Early => batches = <<>>
    /\ step = "embed" => batches # <<>> /\ Consecutive(batches, Len(vectors), Len(chunks))

\* The vectors are those of the first chunks in their order, at the end those of all.
Embedded ==
    /\ vectors \in Seq(Nat) /\ \A i \in DOMAIN vectors : vectors[i] = i
    /\ step \in Early => vectors = <<>>
    /\ step \in {"sparse", "upsert"} => Len(vectors) = Len(chunks)

\* A point has the vector of its chunk.
Stored == \A i \in DOMAIN points : points[i].chunk = i /\ points[i].dense = i

IInv == Extracted /\ Chunked /\ Sending /\ Embedded /\ Stored

\* An element of the next item.
LEMMA FromNext ==
    ASSUME NEW es, NEW its \in Seq(Item), NEW n \in Nat, n + 1 \in DOMAIN its, FromItems(es, its, n),
           Kind(its[n + 1]) = "visual" \/ (Kind(its[n + 1]) \in {"text", "table"}
                 /\ ~IsEmpty(its[n + 1]))
    PROVE  FromItems(Append(es, Element(its, n + 1)), its, n + 1)
<1>1. PICK m \in Nat : m = Len(es) /\ DOMAIN es = 1..m
  BY LenProperties DEF FromItems
<1>2. PICK e : e = Element(its, n + 1)
  OBVIOUS
<1>3. /\ e \in ElementSet /\ Marked(e) /\ e.position = n + 1
      /\ DOMAIN e.body = DOMAIN BodyOf(its[n + 1])
      /\ \A s \in DOMAIN e.body : Len(e.body[s]) = Len(BodyOf(its[n + 1])[s])
  BY <1>2, ElementType
<1>4. PICK new : new = Append(es, e)
  OBVIOUS
<1>5. /\ new \in Seq(ElementSet) /\ DOMAIN new = 1..(m + 1) /\ new[m + 1] = e
      /\ \A k \in 1..m : new[k] = es[k]
  BY <1>1, <1>3, <1>4, AppendProperties DEF FromItems
<1>6. \A k \in 1..m : es[k].position \in 1..n
  BY <1>1 DEF FromItems
<1>7. Ascends(new)
  <2>1. ASSUME NEW j \in 1..(m + 1), NEW k \in 1..(m + 1), j < k
        PROVE  new[j].position < new[k].position
    <3>1. j \in 1..m /\ new[j] = es[j]
      BY <1>5, <2>1
    <3>2. CASE k = m + 1
      <4>1. es[j].position \in 1..n
        BY <1>6, <3>1
      <4> QED BY <1>3, <1>5, <3>1, <3>2, <4>1
    <3>3. CASE k # m + 1
      <4>1. k \in 1..m /\ new[k] = es[k]
        BY <1>5, <3>3
      <4> QED BY <1>1, <2>1, <3>1, <4>1 DEF FromItems, Ascends
    <3> QED BY <3>2, <3>3
  <2> QED BY <1>5, <2>1 DEF Ascends
<1>8. ASSUME NEW k \in 1..(m + 1)
      PROVE  /\ new[k].position \in 1..(n + 1) /\ new[k] = Element(its, new[k].position)
            /\ Marked(new[k])
             /\ DOMAIN new[k].body = DOMAIN BodyOf(its[new[k].position])
             /\ \A s \in DOMAIN new[k].body :
                  Len(new[k].body[s]) = Len(BodyOf(its[new[k].position])[s])
  <2>1. CASE k = m + 1
    BY <1>2, <1>3, <1>5, <2>1
  <2>2. CASE k # m + 1
    <3>1. k \in 1..m /\ new[k] = es[k]
      BY <1>5, <2>2
    <3>2. es[k].position \in 1..n
      BY <1>6, <3>1
    <3>3. es[k].position \in 1..(n + 1)
      BY <3>2
    <3> QED BY <1>1, <3>1, <3>3 DEF FromItems
  <2> QED BY <2>1, <2>2
<1>9. FromItems(new, its, n + 1)
  BY <1>5, <1>7, <1>8 DEF FromItems
<1> QED BY <1>2, <1>4, <1>9

\* No element of a skipped item.
LEMMA FromSkipped ==
    ASSUME NEW es, NEW its, NEW n \in Nat, FromItems(es, its, n)
    PROVE  FromItems(es, its, n + 1)
<1>1. 1..n \subseteq 1..(n + 1)
  OBVIOUS
<1> QED BY <1>1 DEF FromItems

\* It holds before the download.

LEMMA InitIInv == Init => IInv
<1> SUFFICES ASSUME Init PROVE IInv
  OBVIOUS
<1>1. items \in Seq(Item) /\ read = 0 /\ elements = <<>> /\ chunks = <<>> /\ batches = <<>>
      /\ vectors = <<>> /\ points = <<>> /\ step = "download"
  BY DocumentsAssumption DEF Init
<1>2. DOMAIN elements = {} /\ DOMAIN chunks = {} /\ DOMAIN batches = {} /\ DOMAIN vectors = {}
        /\ DOMAIN points = {}
  BY <1>1
<1>3. FromItems(elements, items, read)
  <2>1. elements \in Seq(ElementSet)
    BY <1>1
  <2> QED BY <1>2, <2>1 DEF FromItems, Ascends
<1>4. Extracted
  <2>1. read \in 0..Len(items)
    BY <1>1, LenProperties
  <2> QED BY <1>1, <1>3, <2>1 DEF Extracted
<1>5. Chunked
  BY <1>1, <1>2 DEF Chunked
<1>6. Sending
  BY <1>1, <1>2 DEF Sending, AllWithin
<1>7. Embedded
  BY <1>1, <1>2 DEF Embedded
<1> QED BY <1>2, <1>4, <1>5, <1>6, <1>7 DEF IInv, Stored
-----------------------------------------------------------------------------
(* Every step keeps the invariant.                                         *)

\* A step that changes only which call is next.
LEMMA OnlyStep ==
    ASSUME IInv, UNCHANGED <<content, batches, vectors, points>>,
           \/ step \in Early /\ step' \in {"convert", "extract"}
           \/ step' \in {"raised", "done"}
           \/ step = "sparse" /\ step' = "upsert"
    PROVE  IInv'
<1>1. UNCHANGED <<items, read, elements, chunks, batches, vectors, points>>
  BY DEF content
<1>2. Extracted'
  BY <1>1 DEF IInv, Extracted
<1>3. step' \in Early => step \in Early
  BY DEF Early
<1>4. Chunked'
  BY <1>1, <1>3 DEF IInv, Chunked
<1>5. Sending'
  BY <1>1, <1>3 DEF IInv, Sending
<1>6. Embedded'
  <2>1. step' \in {"sparse", "upsert"} => step = "sparse"
    BY DEF Early
  <2> QED BY <1>1, <1>3, <2>1 DEF IInv, Embedded
<1>7. Stored'
  BY <1>1 DEF IInv, Stored
<1> QED BY <1>2, <1>4, <1>5, <1>6, <1>7 DEF IInv

\* A step of the extraction: nothing is chunked yet.
LEMMA ExtractionStep ==
    ASSUME IInv, step \in Early, UNCHANGED <<chunks, batches, vectors, points>>, Extracted',
           step' \in Early
    PROVE  IInv'
<1>1. chunks = <<>> /\ batches = <<>> /\ vectors = <<>>
  BY DEF IInv, Chunked, Sending, Embedded
<1>2. chunks' = <<>> /\ batches' = <<>> /\ vectors' = <<>> /\ points' = points
  BY <1>1
<1>3. DOMAIN <<>> = {} /\ \A S : <<>> \in Seq(S)
  OBVIOUS
<1>4. Chunked'
  BY <1>2, <1>3 DEF Chunked
<1>5. step' \notin {"embed", "sparse", "upsert"}
  BY DEF Early
<1>6. Sending'
  BY <1>2, <1>3, <1>5 DEF Sending, AllWithin
<1>7. Embedded'
  BY <1>2, <1>3, <1>5 DEF Embedded
<1>8. Stored'
  BY <1>2 DEF IInv, Stored
<1> QED BY <1>4, <1>6, <1>7, <1>8 DEF IInv

\* An item is read; an element may be extracted from it.
LEMMA ExtractKeeps == IInv /\ Extract => IInv'
<1> SUFFICES ASSUME IInv, Extract PROVE IInv'
  OBVIOUS
<1>1. /\ items \in Seq(Item) /\ read \in Nat /\ read < Len(items) /\ read \in 0..Len(items)
      /\ FromItems(elements, items, read) /\ Len(items) \in Nat
  BY LenProperties DEF IInv, Extracted, Extract
<1>2. read + 1 \in DOMAIN items /\ read + 1 \in 0..Len(items) /\ step = "extract" /\ step \in Early
  BY <1>1 DEF Extract, Early
<1>3. UNCHANGED <<items, chunks, batches, vectors, points>>
  BY DEF Extract
<1>4. CASE Kind(items[read + 1]) = "visual" /\ step' = "vision" /\ UNCHANGED <<read, elements>>
  <2>1. Extracted'
    BY <1>1, <1>3, <1>4 DEF Extracted
  <2> QED BY <1>2, <1>3, <1>4, <2>1, ExtractionStep DEF Early
<1>5. CASE read' = read + 1 /\ step' = step /\ UNCHANGED elements
  <2>1. FromItems(elements, items, read + 1)
    BY <1>1, FromSkipped
  <2>2. Extracted'
    BY <1>1, <1>2, <1>3, <1>5, <2>1 DEF Extracted
  <2> QED BY <1>2, <1>3, <1>5, <2>2, ExtractionStep
<1>6. CASE /\ read' = read + 1 /\ step' = step /\ elements' = Append(elements, Element(items, read + 1))
           /\ Kind(items[read + 1]) \in {"text", "table"} /\ ~IsEmpty(items[read + 1])
  <2>1. FromItems(Append(elements, Element(items, read + 1)), items, read + 1)
    BY <1>1, <1>2, <1>6, FromNext
  <2>2. FromItems(elements', items', read')
    BY <1>3, <1>6, <2>1
  <2>3. Extracted'
    BY <1>1, <1>2, <1>3, <1>6, <2>2 DEF Extracted
  <2> QED BY <1>2, <1>3, <1>6, <2>3, ExtractionStep
<1> QED BY <1>4, <1>5, <1>6 DEF Extract, Goto

\* The response of the vision model becomes an element.
LEMMA DescribeKeeps == IInv /\ Describe => IInv'
<1> SUFFICES ASSUME IInv, Describe PROVE IInv'
  OBVIOUS
<1>1. /\ items \in Seq(Item) /\ read \in Nat /\ read < Len(items) /\ Len(items) \in Nat
      /\ FromItems(elements, items, read) /\ Kind(items[read + 1]) = "visual"
  BY LenProperties DEF IInv, Extracted, Describe
<1>2. read + 1 \in DOMAIN items /\ read + 1 \in 0..Len(items) /\ step \in Early
  BY <1>1 DEF Describe, Early
<1>3. /\ UNCHANGED <<items, chunks, batches, vectors, points>> /\ read' = read + 1 /\ step' = "extract"
      /\ elements' = Append(elements, Element(items, read + 1))
  BY DEF Describe, Goto
<1>4. FromItems(Append(elements, Element(items, read + 1)), items, read + 1)
  BY <1>1, <1>2, FromNext
<1>5. FromItems(elements', items', read')
  BY <1>3, <1>4
<1>6. Extracted'
  BY <1>1, <1>2, <1>3, <1>5 DEF Extracted
<1> QED BY <1>2, <1>3, <1>6, ExtractionStep DEF Early

\* The chunks and the batches are made.
LEMMA ChunkElementsKeeps == IInv /\ ChunkElements => IInv'
<1> SUFFICES ASSUME IInv, ChunkElements PROVE IInv'
  OBVIOUS
<1>1. PICK cs : cs = Chunks(elements)
  OBVIOUS
<1>2. elements \in Seq(ElementSet) /\ Ascends(elements)
        /\ \A k \in DOMAIN elements : Marked(elements[k])
  BY DEF IInv, Extracted, FromItems
<1>3. cs \in Seq(ChunkSet(elements))
  BY <1>1, <1>2, ChunksType
<1>4. step = "extract" /\ UNCHANGED <<items, read, elements, vectors, points>> /\ step \in Early
  BY DEF ChunkElements, Early
<1>5. chunks = <<>> /\ batches = <<>> /\ vectors = <<>>
  BY <1>4 DEF IInv, Chunked, Sending, Embedded
<1>6. CASE \E i \in DOMAIN cs : cs[i].elements = {}
  <2>1. step' = "raised" /\ UNCHANGED <<chunks, batches>>
    BY <1>1, <1>6 DEF ChunkElements, Raise
  <2> QED BY <1>4, <2>1, OnlyStep DEF content
<1>7. CASE ~\E i \in DOMAIN cs : cs[i].elements = {}
  <2>1. /\ chunks' = cs
        /\ CASE cs = <<>> -> Goto("done") /\ UNCHANGED batches
             [] cs # <<>> /\ \E i \in DOMAIN cs : ~ValidInput(cs[i]) -> Raise("input")
                   /\ UNCHANGED batches
             [] OTHER -> Goto("embed") /\ batches' = Batches(cs)
    BY <1>1, <1>7 DEF ChunkElements
  <2>2. step' \in {"done", "raised", "embed"}
    BY <2>1 DEF Goto, Raise
  <2>3. step' \notin Early
    BY <2>2 DEF Early
  <2>4. Extracted'
    BY <1>4, <2>2 DEF IInv, Extracted
  <2>5. Chunked'
    BY <1>3, <1>4, <1>7, <2>1, <2>3 DEF Chunked
  <2>6. Embedded' /\ Stored'
    <3>1. DOMAIN <<>> = {} /\ <<>> \in Seq(Nat)
      OBVIOUS
    <3> QED BY <1>4, <1>5, <2>2, <3>1 DEF IInv, Embedded, Stored
  <2>7. CASE UNCHANGED batches /\ step' # "embed"
    <3>1. DOMAIN <<>> = {} /\ <<>> \in Seq(Positions)
      OBVIOUS
    <3>2. Sending'
      BY <1>5, <2>3, <2>7, <3>1 DEF Sending, AllWithin
    <3> QED BY <2>4, <2>5, <2>6, <3>2 DEF IInv
  <2>8. CASE cs # <<>> /\ (\A i \in DOMAIN cs : ValidInput(cs[i])) /\ batches' = Batches(cs)
    <3>1. Valid(cs)
      <4>1. ASSUME NEW j \in DOMAIN cs PROVE Tokens(cs[j]) \in Nat /\ Tokens(cs[j]) <= MaxInputTokens
        <5>1. PICK c : c = cs[j]
          OBVIOUS
        <5>2. c \in ChunkSet(elements)
          BY <1>3, <5>1
        <5>3. c.words \in Seq(Words)
          BY <5>2 DEF ChunkSet
        <5>4. Tokens(c) \in Nat
          BY <5>3, TokensType
        <5>5. Tokens(c) <= MaxInputTokens
          BY <2>8, <5>1 DEF ValidInput
        <5> QED BY <5>1, <5>4, <5>5
      <4> QED BY <4>1 DEF Valid
    <3>2. PICK bs : bs = Batches(cs)
      OBVIOUS
    <3>3. bs \in Seq(Positions) /\ bs # <<>> /\ Consecutive(bs, 0, Len(cs)) /\ AllWithin(cs, bs)
      BY <1>3, <2>8, <3>1, <3>2, BatchesGood
    <3>4. Len(<<>>) = 0
      OBVIOUS
    <3>5. Sending'
      BY <1>4, <1>5, <2>1, <2>3, <2>8, <3>2, <3>3, <3>4 DEF Sending
    <3> QED BY <2>4, <2>5, <2>6, <3>5 DEF IInv
  <2> QED BY <2>1, <2>7, <2>8 DEF Goto, Raise
<1> QED BY <1>6, <1>7

\* The numbers from k + 1.
CountsFrom(k, s) == \A i \in DOMAIN s : s[i] = k + i

\* Vectors that are counted on are those of the first chunks.
LEMMA CountingOn ==
    ASSUME NEW k \in Nat, NEW old \in Seq(Nat), Len(old) = k, CountsFrom(0, old),
           NEW m \in Nat, NEW new \in Seq(Nat), Len(new) = m, CountsFrom(k, new)
    PROVE  old \o new \in Seq(Nat) /\ Len(old \o new) = k + m /\ CountsFrom(0, old \o new)
<1>1. PICK more : more = old \o new
  OBVIOUS
<1>2. /\ more \in Seq(Nat) /\ Len(more) = k + m /\ DOMAIN more = 1..(k + m)
      /\ \A i \in 1..(k + m) : more[i] = IF i <= k THEN old[i] ELSE new[i - k]
  <2>1. /\ more \in Seq(Nat) /\ Len(more) = Len(old) + Len(new)
        /\ \A i \in 1..(Len(old) + Len(new)) : more[i]
              = IF i <= Len(old) THEN old[i] ELSE new[i - Len(old)]
    BY <1>1, ConcatProperties
  <2>2. Len(more) = k + m
    BY <2>1
  <2> QED BY <2>1, <2>2, LenProperties
<1>0. (\A i \in 1..k : old[i] = i) /\ \A j \in 1..m : new[j] = k + j
  <2>1. DOMAIN old = 1..k /\ DOMAIN new = 1..m
    BY LenProperties
  <2>2. \A i \in 1..k : 0 + i = i
    OBVIOUS
  <2> QED BY <2>1, <2>2 DEF CountsFrom
<1>3. ASSUME NEW i \in 1..(k + m) PROVE more[i] = 0 + i
  <2>1. CASE i <= k
    <3>1. i \in 1..k
      BY <2>1
    <3> QED BY <1>0, <1>2, <2>1, <3>1
  <2>2. CASE ~(i <= k)
    <3>1. i - k \in 1..m /\ k + (i - k) = i
      BY <2>2
    <3> QED BY <1>0, <1>2, <2>2, <3>1
  <2> QED BY <2>1, <2>2
<1> QED BY <1>1, <1>2, <1>3 DEF CountsFrom

\* The embeddings of one request.
LEMMA EmbedKeeps == IInv /\ Embed => IInv'
<1> SUFFICES ASSUME IInv, Embed PROVE IInv'
  OBVIOUS
<1>1. /\ step = "embed" /\ batches' = Tail(batches)
      /\ step' = IF batches' = <<>> THEN "sparse" ELSE "embed"
      /\ UNCHANGED <<items, read, elements, chunks, points>>
  BY DEF Embed, Goto, Unsent, content
<1>2. /\ batches \in Seq(Positions) /\ batches # <<>> /\ AllWithin(chunks, batches)
      /\ Consecutive(batches, Len(vectors), Len(chunks))
  BY <1>1 DEF IInv, Sending
<1>3. vectors \in Seq(Nat) /\ \A i \in DOMAIN vectors : vectors[i] = i
  BY DEF IInv, Embedded
<1>4. PICK k \in Nat, n \in Nat : k = Len(vectors) /\ n = Len(chunks) /\ DOMAIN vectors = 1..k
  <2>1. chunks \in Seq(ChunkSet(elements))
    BY DEF IInv, Chunked
  <2> QED BY <1>3, <2>1, LenProperties
<1>5. PICK batch : batch = Head(batches)
  OBVIOUS
<1>6. PICK rest : rest = Tail(batches)
  OBVIOUS
<1>7. /\ batch \in Positions /\ batch # <<>> /\ \A j \in DOMAIN batch : batch[j] = k + j
      /\ rest \in Seq(Positions) /\ Consecutive(rest, k + Len(batch), n)
  BY <1>2, <1>4, <1>5, <1>6, ConsecutiveTail
<1>8. PICK m \in Nat : m = Len(batch) /\ DOMAIN batch = 1..m
  BY <1>7, LenProperties DEF Positions
<1>9. PICK order \in Bijection(1..m, 1..m) :
        LET data == Ordered(Response(batch, order, m))
        IN  vectors' = vectors \o [j \in DOMAIN data |-> data[j].embedding]
  BY <1>5, <1>8 DEF Embed, Response
<1>10. PICK sent : sent = Response(batch, order, m)
  OBVIOUS
<1>11. PICK data : data = Ordered(sent)
  OBVIOUS
<1>12. DOMAIN data = 1..m /\ \A j \in 1..m : data[j].embedding = batch[j]
  <2>1. DOMAIN Ordered(sent) = 1..m /\ \A j \in 1..m : Ordered(sent)[j].embedding = batch[j]
    BY <1>8, <1>10, OrderedData
  <2> QED BY <1>11, <2>1
<1>13. PICK new : new = [j \in DOMAIN data |-> data[j].embedding]
  OBVIOUS
<1>14. vectors' = vectors \o new
  BY <1>9, <1>10, <1>11, <1>13
<1>15. new \in Seq(Nat) /\ Len(new) = m /\ \A j \in 1..m : new[j] = k + j
  <2>1. \A j \in 1..m : data[j].embedding = k + j /\ k + j \in Nat
    BY <1>7, <1>8, <1>12
  <2>2. new = [j \in 1..m |-> data[j].embedding]
    BY <1>12, <1>13
  <2> QED BY <2>1, <2>2
<1>16. PICK old : old = vectors
  OBVIOUS
<1>17. vectors' \in Seq(Nat) /\ Len(vectors') = k + m /\ \A i \in DOMAIN vectors' : vectors'[i] = i
  <2>1. CountsFrom(0, old) /\ CountsFrom(k, new)
    <3>1. DOMAIN new = 1..m
      BY <1>15, LenProperties
    <3> QED BY <1>3, <1>4, <1>15, <1>16, <3>1 DEF CountsFrom
  <2>2. PICK more : more = old \o new
    OBVIOUS
  <2>3. more \in Seq(Nat) /\ Len(more) = k + m /\ CountsFrom(0, more)
    BY <1>3, <1>4, <1>15, <1>16, <2>1, <2>2, CountingOn
  <2>4. DOMAIN more = 1..(k + m)
    BY <2>3, LenProperties
  <2>5. \A i \in DOMAIN more : more[i] = i
    BY <2>3, <2>4 DEF CountsFrom
  <2> QED BY <1>14, <1>16, <2>2, <2>3, <2>5
<1>18. Extracted' /\ Stored'
  BY <1>1 DEF IInv, Extracted, Stored
<1>19. step' \in {"sparse", "embed"} /\ step' \notin Early
  BY <1>1 DEF Early
<1>20. Chunked'
  BY <1>1, <1>19 DEF IInv, Chunked
<1>21. AllWithin(chunks, rest)
  <2>1. PICK l \in Nat : l = Len(batches) /\ l > 0
    BY <1>2, LenProperties, EmptySeq
  <2>2. Len(rest) = l - 1 /\ \A b \in 1..Len(rest) : rest[b] = batches[b + 1]
    BY <1>2, <1>6, <2>1, HeadTailProperties
  <2>3. DOMAIN rest = 1..(l - 1) /\ DOMAIN batches = 1..l
    BY <1>2, <1>7, <2>1, <2>2, LenProperties
  <2>4. \A b \in 1..(l - 1) : b + 1 \in 1..l
    BY <2>1
  <2> QED BY <1>2, <2>2, <2>3, <2>4 DEF AllWithin
<1>22. Sending'
  BY <1>1, <1>4, <1>6, <1>7, <1>8, <1>17, <1>19, <1>21 DEF Sending
<1>23. step' = "sparse" => k + m = n
  <2> SUFFICES ASSUME step' = "sparse" PROVE k + m = n
    OBVIOUS
  <2>1. rest = <<>>
    BY <1>1, <1>6
  <2> QED BY <1>7, <1>8, <2>1 DEF Consecutive
<1>24. Embedded'
  BY <1>1, <1>4, <1>17, <1>19, <1>23 DEF Embedded
<1> QED BY <1>18, <1>20, <1>22, <1>24 DEF IInv

\* Every vector is stored with its chunk.
LEMMA UpsertKeeps == IInv /\ Upsert => IInv'
<1> SUFFICES ASSUME IInv, Upsert PROVE IInv'
  OBVIOUS
<1>1. /\ step = "upsert" /\ step' \in {"done", "raised"}
      /\ UNCHANGED <<items, read, elements, chunks, batches, vectors>>
      /\ points' = [i \in DOMAIN chunks |-> [chunk |-> i, dense |-> vectors[i]]]
  BY DEF Upsert, Goto, Raise, content
<1>2. chunks \in Seq(ChunkSet(elements)) /\ vectors \in Seq(Nat) /\ Len(vectors) = Len(chunks)
      /\ \A i \in DOMAIN vectors : vectors[i] = i
  BY <1>1 DEF IInv, Chunked, Embedded
<1>3. DOMAIN chunks = DOMAIN vectors
  BY <1>2, LenProperties
<1>4. Stored'
  BY <1>1, <1>2, <1>3 DEF Stored
<1>5. step' \notin Early
  BY <1>1 DEF Early
<1>6. Extracted' /\ Chunked' /\ Sending' /\ Embedded'
  <2>1. Extracted'
    BY <1>1 DEF IInv, Extracted
  <2>2. Chunked'
    BY <1>1, <1>5 DEF IInv, Chunked
  <2>3. Sending'
    BY <1>1, <1>5 DEF IInv, Sending
  <2>4. Embedded'
    BY <1>1, <1>5 DEF IInv, Embedded
  <2> QED BY <2>1, <2>2, <2>3, <2>4
<1> QED BY <1>4, <1>6 DEF IInv

\* No step breaks the invariant.
LEMMA NextIInv == IInv /\ [Next]_vars => IInv'
<1> SUFFICES ASSUME IInv, [Next]_vars PROVE IInv'
  OBVIOUS
<1>1. CASE CallRaises
  BY <1>1, OnlyStep DEF CallRaises, Raise
<1>2. CASE Download
  BY <1>2, OnlyStep DEF Download, Goto, Early
<1>3. CASE Parse
  BY <1>3, OnlyStep DEF Parse, Goto, Early
<1>4. CASE Extract
  BY <1>4, ExtractKeeps
<1>5. CASE Describe
  BY <1>5, DescribeKeeps
<1>6. CASE ChunkElements
  BY <1>6, ChunkElementsKeeps
<1>7. CASE Embed
  BY <1>7, EmbedKeeps
<1>8. CASE EmbedMismatch
  BY <1>8, OnlyStep DEF EmbedMismatch, Raise
<1>9. CASE Sparse
  BY <1>9, OnlyStep DEF Sparse, Goto
<1>10. CASE Upsert
  BY <1>10, UpsertKeeps
<1>11. CASE UNCHANGED vars
  <2>1. UNCHANGED <<items, read, elements, chunks, batches, vectors, points, step>>
    BY <1>11 DEF vars, content
  <2>2. Extracted'
    BY <2>1 DEF IInv, Extracted
  <2>3. Chunked'
    BY <2>1 DEF IInv, Chunked
  <2>4. Sending'
    BY <2>1 DEF IInv, Sending
  <2>5. Embedded'
    BY <2>1 DEF IInv, Embedded
  <2>6. Stored'
    BY <2>1 DEF IInv, Stored
  <2> QED BY <2>2, <2>3, <2>4, <2>5, <2>6 DEF IInv
<1> QED BY <1>1, <1>2, <1>3, <1>4, <1>5, <1>6, <1>7, <1>8, <1>9, <1>10, <1>11 DEF Next

\* The inductive invariant: what is extracted, chunked, sent, embedded and stored fits

\* together at every step of aingest.
THEOREM IngestionInvariant == Spec => []IInv
<1>1. Init => IInv
  BY InitIInv
<1>2. IInv /\ [Next]_vars => IInv'
  BY NextIInv
<1> QED BY <1>1, <1>2, PTL DEF Spec
-----------------------------------------------------------------------------
(* The properties.                                                         *)

\* Every stored chunk has the vector of its own content, whatever order the responses to
\* agenerate_batch list their embeddings in.
THEOREM VectorsAlwaysMatch == Spec => []VectorsMatch
<1>1. IInv => VectorsMatch
  BY DEF IInv, Stored, VectorsMatch
<1> QED BY <1>1, IngestionInvariant, PTL

\* _build_safe_batches sends no empty request and none above the limits of inputs and tokens.
THEOREM RequestsAlwaysWithinLimits == Spec => []RequestsWithinLimits
<1>1. IInv => RequestsWithinLimits
  BY DEF IInv, Sending, AllWithin, Within, RequestsWithinLimits
<1> QED BY <1>1, IngestionInvariant, PTL

\* No chunk is above chunk_max_tokens, unless it is a single word, whatever was packed and
\* split to make it.
THEOREM ChunksAlwaysFit == Spec => []ChunksFit
<1>1. IInv => ChunksFit
  <2> SUFFICES ASSUME IInv, NEW i \in DOMAIN chunks
               PROVE  Tokens(chunks[i]) <= MaxTokens \/ Len(chunks[i].words) = 1
    BY DEF ChunksFit
  <2>1. chunks[i] \in ChunkSet(elements) /\ chunks[i].elements # {}
    BY DEF IInv, Chunked
  <2> QED BY <2>1 DEF ChunkSet, Sized, Fits
<1> QED BY <1>1, IngestionInvariant, PTL

\* The chunks of a table.
LEMMA RowsOfTable == IInv => RowsKeepHeader
<1> SUFFICES ASSUME IInv, NEW i \in DOMAIN chunks, chunks[i].kind = "table",
        NEW n \in chunks[i].elements
             PROVE  LET words == chunks[i].words
                        table == BodyOf(items[n])
                        inRow(r) == {k \in DOMAIN words : words[k].at[2] = r}
                    IN  \A r \in {1} \cup {words[k].at[2] : k \in DOMAIN words} :
                            Cardinality(inRow(r)) = Len(table[r])
  BY DEF RowsKeepHeader
<1>1. chunks[i] \in ChunkSet(elements)
  BY DEF IInv, Chunked
<1>2. PICK m \in DOMAIN elements : chunks[i].elements = {elements[m].position}
                                   /\ RowsWhole(chunks[i].words, elements[m])
  BY <1>1 DEF ChunkSet, WholeRows
<1>3. PICK e : e = elements[m]
  OBVIOUS
<1>4. PICK ws : ws = chunks[i].words
  OBVIOUS
<1>5. PICK table : table = BodyOf(items[n])
  OBVIOUS
<1>6. e.position = n /\ RowsWhole(ws, e)
  BY <1>2, <1>3, <1>4
<1>7. DOMAIN e.body = DOMAIN table /\ \A s \in DOMAIN e.body : Len(e.body[s]) = Len(table[s])
  BY <1>3, <1>5, <1>6 DEF IInv, Extracted, FromItems
<1>8. e \in ElementSet /\ Marked(e)
  BY <1>3 DEF IInv, Extracted, FromItems
<1>9. ASSUME NEW r \in {1} \cup {ws[k].at[2] : k \in DOMAIN ws}
      PROVE  Cardinality({k \in DOMAIN ws : ws[k].at[2] = r}) = Len(table[r])
  <2>1. r \in DOMAIN e.body /\ Cardinality(InRow(ws, r)) = Len(e.body[r])
    BY <1>6 DEF RowsWhole
  <2>2. Len(e.body[r]) = Len(table[r])
    BY <1>7, <2>1
  <2> QED BY <2>1, <2>2 DEF InRow
<1> QED BY <1>4, <1>5, <1>9

\* Of a table that _chunk_table divides every chunk has the names of the columns once, and
\* every row it has a word of is there whole.
THEOREM RowsAlwaysKeepHeader == Spec => []RowsKeepHeader
BY RowsOfTable, IngestionInvariant, PTL

\* The headings with no other one of the same or a higher rank after them.
Open(heads, es) == {h \in heads : \A g \in heads : g > h => es[g].level > es[h].level}

\* The headings above an element are those of its path.
LEMMA AncestryOf ==
    ASSUME NEW es \in Seq(ElementSet), Ascends(es), NEW m \in DOMAIN es, NEW n, n = es[m].position,
           NEW heads, heads = {h \in DOMAIN es : es[h].structural /\ es[h].position <= n}
    PROVE  Open(heads, es) = Above(es, m)
<1>1. PICK l \in Nat : l = Len(es) /\ DOMAIN es = 1..l
  BY LenProperties
<1>2. \A h \in 1..l : es[h].position \in Nat
  <2>1. \A h \in 1..l : es[h] \in ElementSet
    BY <1>1
  <2> QED BY <2>1 DEF ElementSet
<1>3. ASSUME NEW h \in 1..l PROVE es[h].position <= n <=> h <= m
  <2>1. CASE h < m
    BY <1>1, <1>2, <2>1 DEF Ascends
  <2>2. CASE h = m
    BY <1>1, <1>2, <2>2
  <2>3. CASE h > m
    <3>1. es[m].position < es[h].position
      BY <1>1, <2>3 DEF Ascends
    <3> QED BY <1>1, <1>2, <2>3, <3>1
  <2> QED BY <1>1, <2>1, <2>2, <2>3
<1>4. heads = {h \in 1..m : es[h].structural}
  <2>1. m \in 1..l
    BY <1>1
  <2>2. heads = {h \in 1..l : es[h].structural /\ h <= m}
    BY <1>1, <1>3
  <2> QED BY <2>1, <2>2
<1>5. ASSUME NEW h \in 1..m
      PROVE  (\A g \in heads : g > h => es[g].level > es[h].level)
               <=> (\A g \in (h + 1)..m : es[g].structural => es[g].level > es[h].level)
  <2>1. m \in Nat /\ \A g \in 1..m : g > h <=> g \in (h + 1)..m
    BY <1>1
  <2>2. (h + 1)..m \subseteq 1..m
    BY <2>1
  <2> QED BY <1>4, <2>1, <2>2
<1> QED BY <1>4, <1>5 DEF Above, Open

\* The path of a chunk has the headings above each of its elements.
LEMMA PathOfChunk == IInv => PathIsAncestry
<1> SUFFICES ASSUME IInv, NEW i \in DOMAIN chunks, NEW n \in chunks[i].elements
             PROVE  LET heads == {h \in DOMAIN elements : elements[h].structural
                   /\ elements[h].position <= n}
                        above == {h \in heads : \A g \in heads : g > h
                              => elements[g].level > elements[h].level}
                        path  == chunks[i].path
                    IN  /\ ToSet(path) = {elements[h].position : h \in above}
                        /\ \A j, k \in DOMAIN path : j < k => path[j] < path[k]
  BY DEF PathIsAncestry
<1>1. chunks[i] \in ChunkSet(elements)
  BY DEF IInv, Chunked
<1>2. PICK path : path = chunks[i].path
  OBVIOUS
<1>3. PICK m \in DOMAIN elements : n = elements[m].position /\ HasPath(path, elements, m)
  BY <1>1, <1>2 DEF ChunkSet, OnPath
<1>4. elements \in Seq(ElementSet) /\ Ascends(elements)
  BY DEF IInv, Extracted, FromItems
<1>5. PICK heads : heads = {h \in DOMAIN elements : elements[h].structural /\ elements[h].position <= n}
  OBVIOUS
<1>6. {h \in heads : \A g \in heads : g > h => elements[g].level > elements[h].level}
        = Above(elements, m)
  <2>1. PICK es : es = elements
    OBVIOUS
  <2>2. heads = {h \in DOMAIN es : es[h].structural /\ es[h].position <= n}
    BY <1>5, <2>1
  <2>3. Open(heads, es) = Above(es, m)
    BY <1>3, <1>4, <2>1, <2>2, AncestryOf
  <2> QED BY <2>1, <2>3 DEF Open
<1>7. ToSet(path) = {elements[h].position : h \in Above(elements, m)}
  BY <1>3 DEF HasPath, ToSet
<1>8. \A j, k \in DOMAIN path : j < k => path[j] < path[k]
  BY <1>3 DEF HasPath
<1> QED BY <1>2, <1>5, <1>6, <1>7, <1>8

\* The hierarchy path that _group_by_hierarchy gives a chunk is, for each of its elements,
\* the headings that no heading of the same or a higher rank separates it from.
THEOREM PathsAlwaysAncestry == Spec => []PathIsAncestry
BY PathOfChunk, IngestionInvariant, PTL
-----------------------------------------------------------------------------
(* Nothing is lost.                                                        *)

\* The names of columns: the words of the first row of tables.
Names(its) == {w \in Words : Kind(its[w.at[1]]) = "table" /\ w.at[2] = 1}

\* Each of these elements is in one of these chunks, but a table of HeaderOnly.
AllIn(cs, es) ==
    \A k \in DOMAIN es : (\E i \in DOMAIN cs : es[k].position \in cs[i].elements) \/ HeaderOnly(es[k])

\* The chunks have the words of the elements, and the elements; once it has chunks, the
\* ingestion goes on with them.
Lossless ==
    /\ AreChunked => /\ Kept(chunks, Names(items)) = Keep(Text(elements), Names(items))
                     /\ AllIn(chunks, elements)
    /\ step \in {"embed", "sparse", "upsert"} => chunks # <<>>

\* What NothingLost compares are the words that are not names.
LEMMA BodyIsKeep ==
    ASSUME NEW ws \in Seq(Words)
    PROVE  Body(ws) = Keep(ws, Names(items))
<1>1. \A k \in DOMAIN ws : ws[k] \in Words
  OBVIOUS
<1>2. \A k \in DOMAIN ws : (IF IsName(ws[k]) THEN <<>> ELSE <<ws[k]>>) = Unless(ws[k], Names(items))
  BY <1>1 DEF IsName, Names, Unless
<1>3. [k \in DOMAIN ws |-> IF IsName(ws[k]) THEN <<>> ELSE <<ws[k]>>]
        = [k \in DOMAIN ws |-> Unless(ws[k], Names(items))]
  BY <1>2
<1> QED BY <1>3 DEF Body, Keep, Singles

\* It is what NothingLost states.
LEMMA LosslessIs == IInv /\ Lossless => NothingLost
<1> SUFFICES ASSUME IInv, Lossless, AreChunked
             PROVE  /\ Body(FlattenSeq([i \in DOMAIN chunks |-> chunks[i].words]))
                         = Body(FlattenSeq([i \in DOMAIN elements |-> Whole(elements[i]).words]))
                    /\ \A k \in DOMAIN elements : InChunks(elements[k]) \/ HeaderOnly(elements[k])
  BY DEF NothingLost
<1>1. chunks \in Seq(ChunkSet(elements)) /\ elements \in Seq(ElementSet)
  BY DEF IInv, Chunked, Extracted, FromItems
<1>2. FlattenSeq(WordsOf(chunks)) \in Seq(Words) /\ Text(elements) \in Seq(Words)
  BY <1>1, WordedChunks, WordsOfType, TextType
<1>3. Body(FlattenSeq(WordsOf(chunks))) = Keep(FlattenSeq(WordsOf(chunks)), Names(items))
  BY <1>2, BodyIsKeep
<1>4. Body(Text(elements)) = Keep(Text(elements), Names(items))
  BY <1>2, BodyIsKeep
<1>5. Body(FlattenSeq(WordsOf(chunks))) = Body(Text(elements))
  BY <1>3, <1>4 DEF Lossless, Kept
<1>6. \A k \in DOMAIN elements : InChunks(elements[k]) \/ HeaderOnly(elements[k])
  BY DEF Lossless, AllIn, InChunks
<1> QED BY <1>5, <1>6 DEF WordsOf, Text

\* The names of a table that was extracted.
LEMMA NamesOfElements ==
    ASSUME IInv
    PROVE  \A k \in DOMAIN elements : Marked(elements[k]) /\ NamesIn(elements[k], Names(items))
<1> SUFFICES ASSUME NEW k \in DOMAIN elements
             PROVE  Marked(elements[k]) /\ NamesIn(elements[k], Names(items))
  OBVIOUS
<1>1. PICK e : e = elements[k]
  OBVIOUS
<1>2. PICK i : i = e.position
  OBVIOUS
<1>3. e \in ElementSet /\ Marked(e) /\ e = Element(items, i)
  BY <1>1, <1>2 DEF IInv, Extracted, FromItems
<1>4. e.kind = Kind(items[i])
  BY <1>3 DEF Element
<1>5. ASSUME e.kind = "table", NEW w \in DOMAIN e.body[1] PROVE e.body[1][w] \in Names(items)
  <2>1. 1 \in DOMAIN e.body
    BY <1>3, <1>5, TableRows
  <2>2. e.body[1][w].at = <<i, 1, w>>
    BY <1>2, <1>3, <2>1 DEF Marked
  <2>3. PICK row \in Seq(Words) : row = e.body[1]
    BY <1>3, <2>1 DEF ElementSet
  <2>4. PICK word \in Words : word = e.body[1][w]
    BY <2>3
  <2>5. word.at[1] = i /\ word.at[2] = 1
    <3>1. word.at = <<i, 1, w>>
      BY <2>2, <2>4
    <3> QED BY <3>1
  <2>6. Kind(items[word.at[1]]) = "table"
    BY <1>4, <1>5, <2>5
  <2> QED BY <2>4, <2>5, <2>6 DEF Names
<1> QED BY <1>1, <1>3, <1>5 DEF NamesIn

\* The chunks of the elements have their words, and have them all.
LEMMA MadeLossless ==
    ASSUME IInv, NEW cs, cs = Chunks(elements), ~HasHole(cs)
    PROVE  /\ Kept(cs, Names(items)) = Keep(Text(elements), Names(items))
           /\ AllIn(cs, elements)
<1>1. PICK N : N = Names(items)
  OBVIOUS
<1>2. PICK es : es = elements
  OBVIOUS
<1>3. es \in Seq(ElementSet) /\ Ascends(es) /\ \A k \in DOMAIN es : Marked(es[k])
        /\ NamesIn(es[k], N)
  BY <1>1, <1>2, NamesOfElements DEF IInv, Extracted, FromItems
<1>4. Same(Chunks(es), Text(es), N)
  BY <1>3, ChunksKeep
<1>5. Kept(cs, N) = Keep(Text(es), N)
  BY <1>2, <1>4 DEF Same
<1>6. ASSUME NEW k \in DOMAIN es, ~HeaderOnly(es[k])
      PROVE  \E i \in DOMAIN cs : es[k].position \in cs[i].elements
  <2>1. \A i \in DOMAIN es : Marked(es[i])
    BY <1>3
  <2>2. Covers(Chunks(es), {es[k].position})
    BY <1>3, <1>6, <2>1, ChunksCover
  <2>3. es[k].position \in ElementsIn(cs)
    BY <1>2, <2>2 DEF Covers
  <2> QED BY <2>3 DEF ElementsIn
<1>7. AllIn(cs, es)
  BY <1>6 DEF AllIn
<1> QED BY <1>1, <1>2, <1>5, <1>7

\* The chunks are made once, of all the elements.
LEMMA LosslessNext == IInv /\ Lossless /\ [Next]_vars => Lossless'
<1> SUFFICES ASSUME IInv, Lossless, [Next]_vars PROVE Lossless'
  OBVIOUS
<1>1. CASE UNCHANGED <<items, elements, chunks, step>>
  BY <1>1 DEF Lossless, AllIn, AreChunked
<1>2. CASE /\ UNCHANGED <<items, elements, chunks>>
           /\ step' = "raised" \/ step \in {"embed", "sparse", "upsert"}
  <2>1. AreChunked' => AreChunked
    BY <1>2 DEF Lossless, AreChunked
  <2>2. step' \in {"embed", "sparse", "upsert"} => chunks # <<>>
    BY <1>2 DEF Lossless
  <2> QED BY <1>2, <2>1, <2>2 DEF Lossless, AllIn
<1>3. CASE chunks = <<>> /\ chunks' = chunks /\ step' \in Early
  BY <1>3 DEF Lossless, AreChunked, Early
<1>4. CASE ChunkElements
  <2>1. PICK cs : cs = Chunks(elements)
    OBVIOUS
  <2>2. items' = items /\ elements' = elements
    BY <1>4 DEF ChunkElements
  <2>3. CASE \E i \in DOMAIN cs : cs[i].elements = {}
    <3>1. chunks' = chunks /\ step' = "raised"
      BY <1>4, <2>1, <2>3 DEF ChunkElements, Raise
    <3> QED BY <1>2, <2>2, <3>1
  <2>4. CASE ~\E i \in DOMAIN cs : cs[i].elements = {}
    <3>1. chunks' = cs /\ (cs = <<>> => step' = "done")
      BY <1>4, <2>1, <2>4 DEF ChunkElements, Goto
    <3>2. ~HasHole(cs)
      BY <2>4 DEF HasHole
    <3>3. Kept(cs, Names(items)) = Keep(Text(elements), Names(items)) /\ AllIn(cs, elements)
      BY <2>1, <3>2, MadeLossless
    <3>4. (Names(items))' = Names(items)
      BY <2>2 DEF Names
    <3>5. Kept(cs, Names(items)) = Kept(chunks, Names(items))'
      BY <3>1, <3>4 DEF Kept, Keep, Singles, Unless, WordsOf
    <3> QED BY <2>2, <3>1, <3>3, <3>4 DEF Lossless, AllIn
  <2> QED BY <2>3, <2>4
<1>5. CASE Download \/ Parse \/ Extract \/ Describe
  <2>1. step \in Early /\ chunks' = chunks /\ step' \in Early
    <3>1. CASE Download \/ Parse \/ Describe
      BY <3>1 DEF Download, Parse, Describe, Goto, content, Early
    <3>2. CASE Extract
      <4>1. step = "extract" /\ chunks' = chunks
        BY <3>2 DEF Extract
      <4>2. step' \in {"vision", "extract"}
        BY <3>2, <4>1 DEF Extract, Goto
      <4> QED BY <4>1, <4>2 DEF Early
    <3> QED BY <1>5, <3>1, <3>2
  <2>2. chunks = <<>>
    BY <2>1 DEF IInv, Chunked
  <2> QED BY <1>3, <2>1, <2>2
<1>6. CASE CallRaises \/ Embed \/ EmbedMismatch \/ Sparse \/ Upsert
  <2>1. UNCHANGED <<items, elements, chunks>>
    BY <1>6 DEF CallRaises, Embed, EmbedMismatch, Sparse, Upsert, content
  <2>2. step' = "raised" \/ step \in {"embed", "sparse", "upsert"}
    BY <1>6 DEF CallRaises, Embed, EmbedMismatch, Sparse, Upsert, Raise
  <2> QED BY <1>2, <2>1, <2>2
<1>7. CASE UNCHANGED vars
  BY <1>1, <1>7 DEF vars, content
<1> QED BY <1>4, <1>5, <1>6, <1>7 DEF Next

\* chunk() neither loses, repeats nor reorders a word of the extracted elements other than the
\* names of columns, however it groups, packs and splits; and every element is in a chunk, but
\* a table that has only a header and is above the limit, of which no chunk is made.
THEOREM NothingEverLost == Spec => []NothingLost
<1>1. Init => Lossless
  <2>1. ASSUME Init PROVE ~AreChunked /\ step \notin {"embed", "sparse", "upsert"}
    BY <2>1 DEF Init, AreChunked
  <2> QED BY <2>1 DEF Lossless
<1>2. IInv /\ Lossless /\ [Next]_vars => Lossless'
  BY LosslessNext
<1>3. IInv /\ Lossless => NothingLost
  BY LosslessIs
<1> QED BY <1>1, <1>2, <1>3, IngestionInvariant, PTL DEF Spec
================================================================================
