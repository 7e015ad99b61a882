------------------------------ MODULE MCIngestion ------------------------------
(* Instances of Ingestion for TLC. *)
EXTENDS Ingestion

Of(label, level, number, body) ==
    [label |-> label, level |-> level, number |-> number, kept |-> 0, body |-> body]

Sequences(S, n) == UNION {[1 .. k -> S] : k \in 0 .. n}

\* Documents that differ in their structure; one heading was merged with a scenario.
Short == <<<<1>>>>
Outline ==
    {Of("title", 1, 0, Short), Of("section_header", 1, 0, Short), Of("section_header", 0, 0, Short),
     Of("section_header", 1, 1, Short), Of("section_header", 1, 3, Short),
     [Of("section_header", 1, 2, <<<<2, 1>>, <<1>>>>) EXCEPT !.kept = 2],
     Of("heading", 1, 0, Short), Of("text", 2, 0, Short)}

\* Documents that differ in their contents: texts, tables and descriptions that fit, that
\* are packed together, and that are split by sentences, rows and words.
Contents ==
    {Of("text", 1, 0, b) : b \in {<<<<1>>>>, <<<<2>>, <<1>>>>, <<<<2, 1>>, <<1>>, <<3>>>>,
                                  <<<<1>>, <<2, 5, 1, 1>>>>, <<<<5>>>>, <<<<3>>, <<2, 7>>>>}}
    \cup {Of("table", 1, 0, b) : b \in {<<<<1, 1>>>>, <<<<1, 1>>, <<1, 1>>>>, <<<<1>>, <<1>>, <<2>>, <<1>>>>,
                                        <<<<3, 2>>>>}}
    \cup {[Of("picture", 1, 0, b) EXCEPT !.kept = 1] : b \in {<<<<3>>, <<1>>>>, <<<<2, 3>>>>, <<<<>>, <<2>>>>}}
    \cup {Of("picture", 1, 0, <<<<3>>, <<2>>>>), Of("list_item", 1, 0, Short), Of("text", 1, 0, <<<<>>>>)}

\* A table with a row that does not fit next to the names of the columns: the chunker raises.
WideRow == Of("table", 1, 0, <<<<1, 1>>, <<1, 1>>, <<2, 2>>>>)

SomeDocuments ==
    Sequences(Outline, 4) \cup Sequences(Contents, 3)
    \cup Sequences({WideRow, Of("text", 1, 0, Short)}, 2)
================================================================================
