---------------------------- MODULE ContextAssembly ----------------------------
(***************************************************************************)
(* The ContextOps node (rag/workflow/nodes/contextops.py): what of the     *)
(* reranked documents the LLM is shown.  Duplicates are dropped, a diverse *)
(* subset is selected greedily (MMR), each selected document becomes a     *)
(* numbered source block, with its PII redacted, and the blocks are packed *)
(* into the token budget, compressed where they do not fit.                *)
(*                                                                         *)
(* A document is its position in the reranked list.  A content is a name;  *)
(* what the node measures of it (similarity, sentences) is part of the     *)
(* input.  The tokens of a text are those of its parts.                    *)
(***************************************************************************)
EXTENDS Integers, Redaction, FiniteSetsExt

CONSTANTS
    Contents,       \* chunk contents, up to case and whitespace
    None,
    Inputs,         \* what the node may be given, see Input
    MaxDocuments,   \* settings.context_max_documents
    MaxTokens,      \* settings.context_max_tokens
    Lambda,         \* mmr_lambda, in tenths
    Header          \* tokens of the lines of a source block before its content

Sentence == [tokens : Nat \ {0}, overlap : Nat]
Document == [content : Contents, hashed : BOOLEAN, score : Nat]
Input    == [documents  : Seq(Document),
             relevance  : [Contents -> Int],               \* to the retrieval query
             similarity : [Contents -> [Contents -> Int]],
             scans      : [Contents -> Scan],               \* what the analyzer detects
             sentences  : [Contents -> Seq(Sentence)],     \* after redaction
             terms      : BOOLEAN]                         \* the query has terms to score by

ASSUME ContextAssumption ==
    /\ \A i \in Inputs : i \in Input
    /\ MaxDocuments \in Nat \ {0}
    /\ MaxTokens \in Nat \ {0}
    /\ Lambda \in 0 .. 10
    /\ Header \in Nat \ {0}
    /\ None \notin Nat      \* not a position

VARIABLES
    input,       \* the reranked documents and what is measured of them
    step,        \* what the node does next
    remaining,   \* documents not selected yet
    unseen,      \* candidates this round has not looked at yet
    best,        \* the best candidate of this round so far
    selected,    \* the documents selected, in this order
    blocks,      \* the source blocks built so far: their redacted contents
    turn,        \* the source block to be packed next
    parts,       \* the context: the packed blocks
    tokens       \* context_token_count

search == <<remaining, unseen, best, selected>>
output == <<turn, parts, tokens>>
vars   == <<input, step, search, blocks, output>>

-----------------------------------------------------------------------------
(* Deduplication.                                                          *)

Positions == DOMAIN input.documents
Content(i) == input.documents[i].content

\* _build_deduplication_key: documents with a content hash have equal keys with
\* each other, and those without.
Key(i) == <<input.documents[i].hashed, Content(i)>>

Unique == {i \in Positions : \A j \in Positions : j < i => Key(j) # Key(i)}

-----------------------------------------------------------------------------
(* Maximal marginal relevance.                                             *)

\* Redundancy with the documents of s, and the score, in tenths.
Redundancy(i, s) ==
    IF s = <<>> THEN 0
    ELSE Max({input.similarity[Content(i)][Content(j)] : j \in ToSet(s)})
Mmr(i, s) == Lambda * input.relevance[Content(i)] - (10 - Lambda) * Redundancy(i, s)

\* Whether candidate i takes the place of the best one, j: "higher MMR score, lower
\* redundancy, higher normalized reranker score, earlier candidate position".
\* Normalizing the scores keeps their order.
Beats(i, j, s) ==
    \/ Mmr(i, s) > Mmr(j, s)
    \/ /\ Mmr(i, s) = Mmr(j, s)
       /\ \/ Redundancy(i, s) < Redundancy(j, s)
          \/ /\ Redundancy(i, s) = Redundancy(j, s)
             /\ \/ input.documents[i].score > input.documents[j].score
                \/ /\ input.documents[i].score = input.documents[j].score
                   /\ i < j

\* Faulty variant: the first candidate of a tie stays.
FirstOfTie(i) == best = None \/ Mmr(i, selected) > Mmr(best, selected)

ShouldSelect(i) == best = None \/ Beats(i, best, selected)

-----------------------------------------------------------------------------
(* Source blocks and their compression.                                    *)

Sentences(c)  == input.sentences[c]
Tokens(c, S)  == MapThenSumSet(LAMBDA i : Sentences(c)[i].tokens, S)
Everything(c) == DOMAIN Sentences(c)

\* A block holds the header and the sentences kept.  Its source number is its
\* position among the selected documents.
Block(n, kept) == [source |-> n, document |-> selected[n], kept |-> kept]
Size(b) == Header + Tokens(Content(b.document), b.kept)

\* The blocks of a context.
TotalSize(bs) == MapThenSumSet(LAMBDA n : Size(bs[n]), DOMAIN bs)

\* Higher overlap with the query first, then the original order.
RanksBefore(c, i, j) ==
    \/ Sentences(c)[i].overlap > Sentences(c)[j].overlap
    \/ Sentences(c)[i].overlap = Sentences(c)[j].overlap /\ i < j

\* Faulty variant: the sentences are taken in their order.
LastInText(c, S) == Max(S)

\* The sentence of S that comes last in this order.
Worst(c, S) == CHOOSE i \in S : \A j \in S \ {i} : RanksBefore(c, j, i)

\* _compress_content.  Without query terms it is the longest prefix that fits;
\* otherwise every sentence that still fits, best first, those without overlap
\* only as long as there is nothing else.
Prefix(c, room) ==
    {i \in Everything(c) : Tokens(c, {j \in Everything(c) : j <= i}) <= room}
LeftOut(c, room, kept, i) ==
    \/ Sentences(c)[i].overlap = 0 /\ kept # {}
    \/ Tokens(c, kept \cup {i}) > room
BestThatFit(c, room, S) ==
    MapThenFoldSet(LAMBDA i, kept : IF LeftOut(c, room, kept, i) THEN kept ELSE kept \cup {i},
                   {}, LAMBDA i : i, LAMBDA T : Worst(c, T), S)
Compressed(c, room) ==
    IF input.terms THEN BestThatFit(c, room, Everything(c)) ELSE Prefix(c, room)

\* Faulty variant: a block that fits exactly does not.
FitsLoosely(b, room) == Size(b) < room

Fits(b, room) == Size(b) <= room

\* _fit_source_to_budget: when no sentence fits, the header alone is left.
Fitted(n, room) ==
    LET c     == Content(selected[n])
        whole == Block(n, Everything(c))
    IN  IF Fits(whole, room) THEN whole
        ELSE IF Header >= room THEN Block(n, {})
        ELSE Block(n, Compressed(c, room - Header))

\* Faulty variants: every block may use the whole budget; sources are numbered
\* from zero.
WholeBudget == MaxTokens
FromZero(b) == [b EXCEPT !.source = @ - 1]

Available == MaxTokens - tokens
Numbered(b) == b

-----------------------------------------------------------------------------
Init ==
    /\ input \in Inputs
    /\ step = "deduplicate"
    /\ remaining = {}
    /\ unseen = {}
    /\ best = None
    /\ selected = <<>>
    /\ blocks = <<>>
    /\ turn = 1
    /\ parts = <<>>
    /\ tokens = 0

\* Without documents the context says so.
Deduplicate ==
    /\ step = "deduplicate"
    /\ remaining' = Unique
    /\ step' = IF Unique = {} THEN "done" ELSE "embed_query"
    /\ UNCHANGED <<input, unseen, best, selected, blocks, output>>

\* The two calls of the embedding provider, and a response of the wrong length.
Embed ==
    /\ \/ step = "embed_query" /\ step' \in {"embed_documents", "raised"}
       \/ step = "embed_documents" /\ step' \in {"round", "raised"}
    /\ UNCHANGED <<input, search, blocks, output>>

Enough == Len(selected) >= MaxDocuments

Round ==
    /\ step = "round"
    /\ IF remaining = {} \/ Enough
         THEN step' = "build" /\ UNCHANGED unseen
         ELSE step' = "candidates" /\ unseen' = remaining
    /\ UNCHANGED <<input, remaining, best, selected, blocks, output>>

\* The candidates are a Python set: they come in any order.
Consider(i) ==
    /\ step = "candidates" /\ i \in unseen
    /\ unseen' = unseen \ {i}
    /\ best' = IF ShouldSelect(i) THEN i ELSE best
    /\ UNCHANGED <<input, step, remaining, selected, blocks, output>>

Select ==
    /\ step = "candidates" /\ unseen = {}
    /\ selected' = Append(selected, best)
    /\ remaining' = remaining \ {best}
    /\ best' = None
    /\ step' = "round"
    /\ UNCHANGED <<input, unseen, blocks, output>>

\* _build_source_block: the PII analyzer may raise, and the node with it.
Build ==
    /\ step = "build"
    /\ \/ step' = "raised" /\ UNCHANGED blocks
       \/ /\ blocks' = Append(blocks, Redacted(input.scans[Content(selected[Len(blocks) + 1])]))
          /\ step' = IF Len(blocks') = Len(selected) THEN "pack" ELSE "build"
    /\ UNCHANGED <<input, search, output>>

\* One block: it ends the context, is left out, or is packed.
Pack ==
    /\ step = "pack"
    /\ IF turn > Len(blocks) \/ Available <= 0
         THEN step' = "done" /\ UNCHANGED output
         ELSE LET b == Fitted(turn, Available)
              IN  /\ turn' = turn + 1
                  /\ IF Size(b) > Available
                       THEN UNCHANGED <<parts, tokens>>
                       ELSE /\ parts' = Append(parts, Numbered(b))
                            /\ tokens' = tokens + Size(b)
                  /\ UNCHANGED step
    /\ UNCHANGED <<input, search, blocks>>

Next ==
    \/ Deduplicate \/ Embed \/ Round \/ Select \/ Build \/ Pack
    \/ \E i \in Positions : Consider(i)

Spec == Init /\ [][Next]_vars

-----------------------------------------------------------------------------
(* Properties.                                                             *)

\* Every selected document is, of those that were left, the best with respect to
\* the ones selected before it, in whatever order the set of candidates was run
\* through ("Deterministic selection", contextops.py).
SelectionIsGreedy ==
    \A n \in DOMAIN selected :
        LET before == SubSeq(selected, 1, n - 1)
        IN  \A i \in Unique \ ToSet(before) :
                i # selected[n] => Beats(selected[n], i, before)

\* The packed blocks are counted as they are after compression and stay within
\* the budget, however many were compressed or left out on the way.
BudgetKept ==
    /\ tokens = TotalSize(parts)
    /\ tokens <= MaxTokens

\* Of a compressed source the best sentences are kept: one that shares a term with
\* the query is only left out if there was no room for it next to the better
\* ones that are kept ("Higher relevance sentences are retained").
BestSentencesKept ==
    input.terms =>
        \A n \in DOMAIN parts :
            LET p    == parts[n]
                c    == Content(p.document)
                room == MaxTokens - Header - TotalSize(SubSeq(parts, 1, n - 1))
            IN  \A i \in Everything(c) \ p.kept :
                    \/ Sentences(c)[i].overlap = 0
                    \/ Tokens(c, {j \in p.kept : RanksBefore(c, j, i)} \cup {i}) > room

\* The n in [SOURCE n] is at the same time the citation's, in the order of the
\* blocks, and one the grounding validator accepts, which counts the reranked
\* documents (baseline_grounding_validator.py).
SourcesResolve ==
    /\ \A n \in DOMAIN parts :
          /\ parts[n].source \in Positions
          /\ parts[n].document = selected[parts[n].source]
    /\ \A m, n \in DOMAIN parts : m < n => parts[m].source < parts[n].source

\* The text of every block is the retrieved one without exactly what was detected in it:
\* "Redaction is performed from the end of the string toward the beginning so original
\* entity offsets remain valid" (contextops.py).  They do, unless an email address
\* overlaps another entity, or one entity goes on after another one within it.
RedactionExact ==
    \A n \in DOMAIN blocks :
        LET scan == input.scans[Content(selected[n])]
        IN  EndTogether(Entities(scan)) => CutExactly(scan, blocks[n])

\* When everything selected fits, all of it is shown, whole.
NothingCutWithoutNeed ==
    LET whole == [n \in DOMAIN selected |-> Block(n, Everything(Content(selected[n])))]
    IN  step = "done" /\ TotalSize(whole) <= MaxTokens => parts = whole
================================================================================
