------------------------------- MODULE Ingestion -------------------------------
(***************************************************************************)
(* DocumentIngestionService.aingest for one version of a document: the     *)
(* blob is downloaded, parsed and extracted, item by item, chunked,        *)
(* embedded in several requests, and its points are stored in one.  Every  *)
(* call may raise, which ends the ingestion; DocumentLifecycle has what    *)
(* its caller does then.                                                   *)
(***************************************************************************)
EXTENDS Chunking

CONSTANTS
    Documents   \* the sequences of items a document may parse to

ASSUME DocumentsAssumption == \A d \in Documents : d \in Seq(Item)

VARIABLES
    items,      \* result.document.iterate_items()
    read,       \* how many of them have been extracted
    elements,
    chunks,
    batches,    \* embedding requests not sent yet, of positions in chunks
    vectors,    \* all_vectors: the chunks the dense vectors are of
    points,     \* what aupsert has stored
    step,       \* the call that is awaited next
    cause       \* of what was raised

content == <<items, read, elements, chunks>>
vars    == <<content, batches, vectors, points, step, cause>>

Init ==
    /\ items \in Documents
    /\ read = 0
    /\ elements = <<>> /\ chunks = <<>>
    /\ batches = <<>> /\ vectors = <<>> /\ points = <<>>
    /\ step = "download"
    /\ cause = "none"

Goto(s)  == step' = s /\ UNCHANGED cause
Raise(c) == step' = "raised" /\ cause' = c

Calls == {"download", "convert", "vision", "embed", "sparse", "upsert"}

\* The awaited call raises without effect.
CallRaises ==
    /\ step \in Calls
    /\ Raise("service")
    /\ UNCHANGED <<content, batches, vectors, points>>

Download ==
    /\ step = "download" /\ Goto("convert")
    /\ UNCHANGED <<content, batches, vectors, points>>

Parse ==
    /\ step = "convert" /\ Goto("extract")
    /\ UNCHANGED <<content, batches, vectors, points>>

\* The next item.  A picture without an image is skipped, another one is described
\* by the vision model first.
Extract ==
    /\ step = "extract" /\ read < Len(items)
    /\ LET i == read + 1
       IN  \/ /\ Kind(items[i]) = "visual"
              /\ Goto("vision") /\ UNCHANGED <<read, elements>>
           \/ /\ read' = i
              /\ UNCHANGED <<step, cause>>
              /\ IF Kind(items[i]) \in {"text", "table"} /\ ~IsEmpty(items[i])
                   THEN elements' = Append(elements, Element(items, i))
                   ELSE UNCHANGED elements
    /\ UNCHANGED <<items, chunks, batches, vectors, points>>

Describe ==
    /\ step = "vision"
    /\ read' = read + 1
    /\ elements' = Append(elements, Element(items, read'))
    /\ Goto("extract")
    /\ UNCHANGED <<items, chunks, batches, vectors, points>>

\* Everything from the extraction to the first request: chunks, metadata, and the
\* batches, each input of which is validated before any is sent.
ChunkElements ==
    /\ step = "extract" /\ read = Len(items)
    /\ LET cs == Chunks(elements)
       IN  IF \E i \in DOMAIN cs : cs[i].elements = {}
             THEN Raise("chunker") /\ UNCHANGED <<chunks, batches>>
             ELSE /\ chunks' = cs
                  /\ CASE cs = <<>> -> Goto("done") /\ UNCHANGED batches
                       [] cs # <<>> /\ \E i \in DOMAIN cs : ~ValidInput(cs[i]) ->
                            Raise("input") /\ UNCHANGED batches
                       [] OTHER -> Goto("embed") /\ batches' = Batches(cs)
    /\ UNCHANGED <<items, read, elements, vectors, points>>

\* Faulty variant: the data is taken as received.
AsReceived(data) == data

\* sorted by the index, which no two of them share
Ordered(data) ==
    CHOOSE d \in [DOMAIN data -> ToSet(data)] :
        \A i, j \in DOMAIN d : i < j => d[i].index < d[j].index

Unsent == Tail(batches)

\* One request.  The response lists the embeddings in any order.
Embed ==
    /\ step = "embed"
    /\ LET batch == Head(batches)
       IN  \E order \in Bijection(DOMAIN batch, DOMAIN batch) :
             LET data == Ordered([k \in DOMAIN batch |->
                                    [index |-> order[k], embedding |-> batch[order[k]]]])
             IN  vectors' = vectors \o [k \in DOMAIN data |-> data[k].embedding]
    /\ batches' = Unsent
    /\ Goto(IF batches' = <<>> THEN "sparse" ELSE "embed")
    /\ UNCHANGED <<content, points>>

\* A response of another length than the request.
EmbedMismatch ==
    /\ step = "embed" /\ Raise("mismatch")
    /\ UNCHANGED <<content, batches, vectors, points>>

Sparse ==
    /\ step = "sparse" /\ Goto("upsert")
    /\ UNCHANGED <<content, batches, vectors, points>>

\* The chunks, each with its vector, in one request, whose reply may be lost.
Upsert ==
    /\ step = "upsert"
    /\ points' = [i \in DOMAIN chunks |-> [chunk |-> i, dense |-> vectors[i]]]
    /\ Goto("done") \/ Raise("service")
    /\ UNCHANGED <<content, batches, vectors>>

Next ==
    \/ CallRaises \/ Download \/ Parse \/ Extract \/ Describe \/ ChunkElements
    \/ Embed \/ EmbedMismatch \/ Sparse \/ Upsert

Spec == Init /\ [][Next]_vars

-----------------------------------------------------------------------------
(* Properties.                                                             *)

\* The columns' names, which a table may repeat.
IsName(w) == Kind(items[w.at[1]]) = "table" /\ w.at[2] = 1
Body(words) == FlattenSeq([k \in DOMAIN words |-> IF IsName(words[k]) THEN <<>> ELSE <<words[k]>>])

\* The element is in a chunk.
InChunks(e) == \E i \in DOMAIN chunks : e.position \in chunks[i].elements

\* chunk() has returned.
AreChunked == chunks # <<>> \/ step = "done"

\* A table that has only a header, and one above the limit: the loop over its rows makes
\* no chunk of it.
HeaderOnly(e) == e.kind = "table" /\ Len(e.body) = 1 /\ ~Fits(Whole(e))

\* What was extracted is in the chunks once and in its order, however it was grouped,
\* packed and split ("preserving their original order", document_chunker.py): all words
\* but the names of columns, and every element, even one without words, so that with
\* RowsKeepHeader the names are there too.  The elements of HeaderOnly are lost.
NothingLost ==
    AreChunked =>
        /\ Body(FlattenSeq([i \in DOMAIN chunks |-> chunks[i].words]))
             = Body(FlattenSeq([i \in DOMAIN elements |-> Whole(elements[i]).words]))
        /\ \A k \in DOMAIN elements : InChunks(elements[k]) \/ HeaderOnly(elements[k])

\* Every chunk is within the limit, unless a single word is above it ("does not exceed
\* max_tokens unless a single token itself is larger", document_chunker.py), and
\* that word then is alone.
ChunksFit ==
    \A i \in DOMAIN chunks :
        \/ Tokens(chunks[i]) <= MaxTokens
        \/ Len(chunks[i].words) = 1

\* A table that is divided keeps its rows whole and repeats the names of the columns
\* in each chunk ("Preserve column names and row relationships").
RowsKeepHeader ==
    \A i \in DOMAIN chunks : chunks[i].kind = "table" => \A n \in chunks[i].elements :
        LET words  == chunks[i].words
            table  == BodyOf(items[n])
            inRow(r) == {k \in DOMAIN words : words[k].at[2] = r}
        IN  \A r \in {1} \cup {words[k].at[2] : k \in DOMAIN words} :
                Cardinality(inRow(r)) = Len(table[r])

\* The hierarchy path of a chunk is, for each of its elements, the headings above it:
\* those with no heading of the same or a higher rank between them and it.
PathIsAncestry ==
    \A i \in DOMAIN chunks : \A n \in chunks[i].elements :
        LET heads == {h \in DOMAIN elements : elements[h].structural /\ elements[h].position <= n}
            above == {h \in heads : \A g \in heads : g > h => elements[g].level > elements[h].level}
            path  == chunks[i].path
        IN  /\ ToSet(path) = {elements[h].position : h \in above}
            /\ \A j, k \in DOMAIN path : j < k => path[j] < path[k]

\* Every stored chunk has the vector of its own content, although the embeddings come
\* in several responses, each in any order.
VectorsMatch == \A i \in DOMAIN points : points[i].dense = points[i].chunk

\* No request is empty or above a limit of the provider ("Split inputs according to
\* provider constraints", microsoft_foundry.py).
RequestsWithinLimits ==
    \A b \in DOMAIN batches :
        /\ Len(batches[b]) \in 1 .. MaxInputs
        /\ BatchTokens(chunks, batches[b]) <= MaxBatchTokens
================================================================================
