------------------------------- MODULE Chunking --------------------------------
(***************************************************************************)
(* What the text of a document becomes before it is embedded: the elements *)
(* that DoclingDocumentExtractor takes from the items of the parsed        *)
(* document, the chunks that HybridDocumentChunker makes of them, and the  *)
(* requests that MicrosoftFoundryEmbeddingProvider sends for those.        *)
(*                                                                         *)
(* A word is its place in the document and its tokens; the tokens of a     *)
(* text are those of its words.  A body is a sequence of sentences of      *)
(* words, for a table one of rows of cells, the first of them the header,  *)
(* and for a picture the lines of the vision model's response.             *)
(***************************************************************************)
EXTENDS Integers, Sequences, FiniteSets, SequencesExt

CONSTANTS
    MaxTokens,       \* settings.chunk_max_tokens
    MaxInputs,       \* MAX_INPUTS_PER_REQUEST
    MaxBatchTokens,  \* MAX_TOKENS_PER_REQUEST
    MaxInputTokens   \* MAX_TOKENS_PER_INPUT

ASSUME ChunkingAssumption ==
    /\ {MaxTokens, MaxInputs, MaxBatchTokens, MaxInputTokens} \subseteq Nat \ {0}
    /\ MaxInputTokens <= MaxBatchTokens

-----------------------------------------------------------------------------
(* Extraction.                                                             *)

Headings == {"title", "section_header", "heading", "subsection"}
Texts    == {"text", "paragraph", "title", "section_header"}
Labels   == Headings \cup Texts \cup {"table", "picture", "list_item"}

\* The depth of the heading's section number (0: it has none), the level the parser
\* reports, and the sentence or line that the extractor keeps alone (0: it keeps all).
Item ==
    {item \in [label : Labels, level : Nat, number : Nat, kept : Nat, body : Seq(Seq(Nat \ {0}))] :
        item.kept <= Len(item.body)}

\* _resolve_element_type; the three visual types are chunked alike.
Kind(item) ==
    CASE item.label \in Texts   -> "text"
      [] item.label = "table"   -> "table"
      [] item.label = "picture" -> "visual"
      [] OTHER                  -> "none"

\* _resolve_hierarchy_level, for the item at position i.
Level(items, i) ==
    LET item  == items[i]
        first == \A j \in 1 .. i - 1 : items[j].label \notin Headings
        top   == item.label = "title" \/ (item.label = "section_header" /\ first)
    IN  IF item.label \notin Headings THEN item.level
        ELSE IF item.number > 0 THEN item.number
        ELSE IF top THEN 0 ELSE item.level

\* Of a text that begins with "Scenario:" the numbered heading it was merged with is kept,
\* of a response the rest of the DESCRIPTION line; of another one everything.
BodyOf(item) ==
    IF Kind(item) # "table" /\ item.kept > 0 THEN <<item.body[item.kept]>> ELSE item.body

\* Texts without content and tables without a cell are skipped.
IsEmpty(item) == Kind(item) # "visual" /\ \A s \in DOMAIN BodyOf(item) : BodyOf(item)[s] = <<>>

\* The label in the metadata is that of a heading: a section header without a number
\* is relabelled as text, unless it is the title.
Structural(items, i) ==
    /\ items[i].label \in Headings
    /\ items[i].label = "section_header" => Level(items, i) = 0 \/ items[i].number > 0

Element(items, i) ==
    LET body == BodyOf(items[i])
    IN  [position |-> i, kind |-> Kind(items[i]), level |-> Level(items, i),
         structural |-> Structural(items, i),
         body |-> [s \in DOMAIN body |->
                     [w \in DOMAIN body[s] |-> [at |-> <<i, s, w>>, tokens |-> body[s][w]]]]]

-----------------------------------------------------------------------------
(* Pieces of text, each from one or more elements, and their tokens.       *)

Piece(e, words) == [elements |-> {e.position}, words |-> words]
Pieces(e)  == [s \in DOMAIN e.body |-> Piece(e, e.body[s])]
Whole(e)   == Piece(e, FlattenSeq(e.body))
Join(ps)   == [elements |-> UNION {ps[i].elements : i \in DOMAIN ps},
               words    |-> FlattenSeq([i \in DOMAIN ps |-> ps[i].words])]
Tokens(p)  == FoldLeft(LAMBDA n, w : n + w.tokens, 0, p.words)

\* What the chunker raises instead of a chunk.
Raised == [elements |-> {}, words |-> <<>>]

\* Faulty variants: the limit may be exceeded by one; the piece for which a candidate
\* is finished is forgotten.
FitsLoosely(p) == Tokens(p) <= MaxTokens + 1
Forgotten(p) == <<>>

\* _fits_token_limit.
Fits(p) == Tokens(p) <= MaxTokens

\* The candidate that begins with a piece.
Begin(p) == <<p>>

\* Faulty variant: the column names are not repeated.
RowsOnly(header, ps) == Join(ps)

\* The chunk that pieces make; the rows of a table are preceded by its header.
Chunk(header, ps) == Join(header \o ps)

\* The candidate is finished, if there is one.
Flush(acc, header) ==
    IF acc.open = <<>> THEN acc.done ELSE Append(acc.done, Chunk(header, acc.open))

\* The loop that texts, rows and sentences are packed with: a piece joins the
\* candidate as long as the chunk made of it fits, else it begins a new one; a
\* piece that alone does not fit is split.
Packed(ps, header, split) ==
    LET add(acc, i) ==
          IF Fits(Chunk(header, Append(acc.open, ps[i])))
            THEN [acc EXCEPT !.open = Append(@, ps[i])]
          ELSE IF Fits(Chunk(header, <<ps[i]>>))
            THEN [done |-> Flush(acc, header), open |-> Begin(ps[i])]
          ELSE [done |-> Flush(acc, header) \o split[i], open |-> <<>>]
    IN  Flush(FoldLeftDomain(add, [done |-> <<>>, open |-> <<>>], ps), header)

\* _split_oversized_sentence.  Only the first word is checked by itself: a later one
\* begins a new candidate unchecked.
SplitSentence(p) ==
    LET word(w)   == [p EXCEPT !.words = <<w>>]
        add(acc, w) ==
          IF acc.open = <<>> \/ Fits(Join(Append(acc.open, word(w))))
            THEN [acc EXCEPT !.open = Append(@, word(w))]
            ELSE [done |-> Flush(acc, <<>>), open |-> Begin(word(w))]
    IN  IF ~Fits(word(Head(p.words))) THEN <<Raised>>
        ELSE Flush(FoldLeft(add, [done |-> <<>>, open |-> <<>>], p.words), <<>>)

\* _split_oversized_text
SplitText(e) == Packed(Pieces(e), <<>>, [s \in DOMAIN e.body |-> SplitSentence(Pieces(e)[s])])

\* _chunk_text, and _chunk_visual, which packs one description at a time.
ChunkText(es)   == Packed([i \in DOMAIN es |-> Whole(es[i])], <<>>, [i \in DOMAIN es |-> SplitText(es[i])])
ChunkVisual(es) == FlattenSeq([i \in DOMAIN es |-> ChunkText(<<es[i]>>)])

\* _split_oversized_table_row constructs its element with a document_version_id, which
\* DocumentElement does not have: a TypeError.
SplitRow == <<Raised>>

\* _chunk_table
ChunkTable(es) ==
    LET table(e) ==
          LET rows == Tail(Pieces(e))
          IN  IF Fits(Whole(e)) THEN <<Whole(e)>>
              ELSE Packed(rows, <<Head(Pieces(e))>>, [i \in DOMAIN rows |-> SplitRow])
    IN  FlattenSeq([i \in DOMAIN es |-> table(es[i])])

\* _chunk_by_content_type
ChunksOfKind(kind, es) ==
    CASE kind = "text"   -> ChunkText(es)
      [] kind = "table"  -> ChunkTable(es)
      [] kind = "visual" -> ChunkVisual(es)

-----------------------------------------------------------------------------
(* The structure of the document.                                          *)

\* Faulty variant: a heading is kept above one of its own level.
KeepsSiblings(stack, level) ==
    SubSeq(stack, 1, Max({0} \cup {h \in DOMAIN stack : stack[h].level <= level}))

\* The headings left on the stack when one of this level arrives: they are popped from the
\* end up to the first that is above it.
Popped(stack, level) ==
    SubSeq(stack, 1, Max({0} \cup {h \in DOMAIN stack : stack[h].level < level}))

\* _group_by_hierarchy: a heading opens a group, with the path to it; what precedes
\* every heading has the empty path.
Sections(es) ==
    LET open(acc, e) ==
          LET stack == Append(Popped(acc.stack, e.level), [level |-> e.level, position |-> e.position])
          IN  [stack  |-> stack,
               groups |-> Append(acc.groups, [path     |-> [h \in DOMAIN stack |-> stack[h].position],
                                              elements |-> <<e>>])]
        add(acc, e) ==
          IF e.structural THEN open(acc, e)
          ELSE IF acc.groups = <<>>
            THEN [acc EXCEPT !.groups = <<[path |-> <<>>, elements |-> <<e>>]>>]
            ELSE [acc EXCEPT !.groups[Len(acc.groups)].elements = Append(@, e)]
    IN  FoldLeft(add, [stack |-> <<>>, groups |-> <<>>], es).groups

\* _group_by_content_type: consecutive elements of one type.
Runs(es) ==
    LET add(runs, e) ==
          IF runs # <<>> /\ Last(runs)[1].kind = e.kind
            THEN [runs EXCEPT ![Len(runs)] = Append(@, e)]
            ELSE Append(runs, <<e>>)
    IN  FoldLeft(add, <<>>, es)

\* HybridDocumentChunker.chunk.  The index of a chunk is its position.
Chunks(es) ==
    LET ofRun(path, run) ==
          LET cs == ChunksOfKind(run[1].kind, run)
          IN  [i \in DOMAIN cs |-> [elements |-> cs[i].elements, words |-> cs[i].words,
                                    kind |-> run[1].kind, path |-> path]]
        ofSection(g) ==
          LET runs == Runs(g.elements)
          IN  FlattenSeq([r \in DOMAIN runs |-> ofRun(g.path, runs[r])])
        sections == Sections(es)
    IN  FlattenSeq([s \in DOMAIN sections |-> ofSection(sections[s])])

-----------------------------------------------------------------------------
(* Requests to the embedding provider.                                     *)

\* _validate_single_input
ValidInput(c) == c.words # <<>> /\ Tokens(c) <= MaxInputTokens

BatchTokens(cs, batch) == FoldLeft(LAMBDA n, i : n + Tokens(cs[i]), 0, batch)

\* Faulty variant: only the number of inputs is limited.
ExceedsInputs(cs, batch, i) == Len(batch) >= MaxInputs

Exceeds(cs, batch, i) ==
    \/ Len(batch) >= MaxInputs
    \/ BatchTokens(cs, batch) + Tokens(cs[i]) > MaxBatchTokens

\* _build_safe_batches, of the positions of one or more chunks.
Batches(cs) ==
    LET add(acc, i) ==
          IF acc.open # <<>> /\ Exceeds(cs, acc.open, i)
            THEN [done |-> Append(acc.done, acc.open), open |-> <<i>>]
            ELSE [acc EXCEPT !.open = Append(@, i)]
        all == FoldLeftDomain(add, [done |-> <<>>, open |-> <<>>], cs)
    IN  Append(all.done, all.open)
================================================================================
