--------------------------- MODULE RetrievalMetrics ----------------------------
(***************************************************************************)
(* The metrics of evaluation/retrieval_metrics.py for one trace: how well  *)
(* the ranked chunks it retrieved cover the chunks a reviewer expects.  A  *)
(* ratio is kept as its two terms, and the logarithmic discount of a rank  *)
(* is any decreasing sequence of naturals.                                 *)
(***************************************************************************)
EXTENDS Naturals, Sequences, FiniteSets, SequencesExt

CONSTANTS
    None,
    Ks,     \* DEFAULT_K_VALUES
    Gain    \* Gain[r] stands for 1 / log2(r + 1)

ASSUME MetricsAssumption ==
    /\ Ks \subseteq Nat \ {0} /\ IsFiniteSet(Ks)
    /\ \A k \in Ks : 1..k \subseteq DOMAIN Gain
    /\ DOMAIN Gain \subseteq Nat
    /\ \A r \in DOMAIN Gain : Gain[r] \in Nat \ {0}
    /\ \A r \in DOMAIN Gain : r > 1 => Gain[r] < Gain[r - 1]

\* _normalise_ids: every id once, where it came first, and None left out
Distinct(ids) ==
    FoldLeft(LAMBDA seen, id : IF id = None \/ id \in ToSet(seen) THEN seen ELSE Append(seen, id),
             <<>>, ids)

Least(m, n) == IF m < n THEN m ELSE n

\* The ranks up to k that hold a relevant id.
Hits(expected, ids, k) == {r \in 1..Least(k, Len(ids)) : ids[r] \in expected}

GainOf(ranks) == MapThenSumSet(LAMBDA r : Gain[r], ranks)

Recall(expected, ids, k) ==
    [num |-> Cardinality(expected \cap {ids[r] : r \in 1..Least(k, Len(ids))}),
     den |-> Cardinality(expected)]

Precision(expected, ids, k) ==
    [num |-> Cardinality(Hits(expected, ids, k)), den |-> Least(k, Len(ids))]

\* Faulty variant: as if there were k relevant ids.
IdealRanksUpToK(expected, k) == 1..k

\* _ideal_dcg_at_k: the relevant ids at the first ranks
IdealRanks(expected, k) == 1..Least(Cardinality(expected), k)

Ndcg(expected, ids, k) ==
    [num |-> GainOf(Hits(expected, ids, k)), den |-> GainOf(IdealRanks(expected, k))]

\* _reciprocal_rank: the first relevant rank, 0 for None
FirstRelevant(expected, ids) ==
    LET relevant == Hits(expected, ids, Len(ids))
    IN  IF relevant = {} THEN 0 ELSE Min(relevant)

\* calculate_retrieval_metrics
Metrics(expected, retrieved) ==
    LET ids == Distinct(retrieved)
    IN  [retrieved |-> ids,
         recall    |-> [k \in Ks |-> Recall(expected, ids, k)],
         precision |-> [k \in Ks |-> Precision(expected, ids, k)],
         rank      |-> FirstRelevant(expected, ids),
         ndcg      |-> [k \in Ks |-> Ndcg(expected, ids, k)]]

-----------------------------------------------------------------------------
(* What the numbers of one result mean together, whatever the formulas.    *)

\* For a nonempty set of expected ids: no score exceeds 1, recall does not fall as k
\* grows, the first relevant rank is within k exactly when something was recalled
\* there, and NDCG is 1 exactly when the first ranks hold as many relevant ids as
\* they could.
Coherent(expected, m) ==
    \A k \in Ks :
        /\ m.recall[k].num <= m.recall[k].den
        /\ m.precision[k].num <= m.precision[k].den
        /\ m.ndcg[k].num <= m.ndcg[k].den
        /\ \A l \in Ks : l > k => m.recall[k].num <= m.recall[l].num
        /\ (m.rank \in 1..k) <=> (m.recall[k].num > 0)
        /\ m.ndcg[k].num = m.ndcg[k].den <=>
              /\ Len(m.retrieved) >= Least(k, Cardinality(expected))
              /\ \A r \in 1..Least(k, Cardinality(expected)) : m.retrieved[r] \in expected
================================================================================
