-------------------------------- MODULE Redaction --------------------------------
(***************************************************************************)
(* What becomes of the PII in a retrieved text (_redact_pii of             *)
(* contextops.py, RegexPIIAnalyzer of guardrails/pii.py): every detected   *)
(* entity is cut out by its offsets, and a marker takes its place.  A text *)
(* is a sequence of characters, of which only the places matter; what the  *)
(* patterns match is part of the input.                                    *)
(***************************************************************************)
EXTENDS Naturals, Sequences, FiniteSets, SequencesExt

CONSTANT MarkerSize    \* characters of "[REDACTED_...]"

\* The patterns in the order of the analyzer.
Patterns == <<"email", "phone", "aadhaar">>

\* An entity covers the characters start + 1 .. end.  The matches of one pattern come
\* in their order and do not overlap each other; those of two patterns may.
Span == {s \in [start : Nat, end : Nat] : s.start < s.end}
Scan == {s \in [length : Nat, matches : [ToSet(Patterns) -> Seq(Span)]] :
            \A p \in ToSet(Patterns) : \A m \in DOMAIN s.matches[p] : s.matches[p][m].end <= s.length}

ASSUME RedactionAssumption == MarkerSize \in Nat \ {0}

Text(scan)  == [i \in 1 .. scan.length |-> <<"character", i>>]
Marker(e)   == [i \in 1 .. MarkerSize |-> <<e.type, i>>]

\* RegexPIIAnalyzer.analyze: the matches of one pattern after the other
Entities(scan) ==
    FlattenSeq([p \in DOMAIN Patterns |->
        [m \in DOMAIN scan.matches[Patterns[p]] |->
            [type  |-> Patterns[p],
             start |-> scan.matches[Patterns[p]][m].start,
             end   |-> scan.matches[Patterns[p]][m].end]]])

\* sorted by an order of the positions
Sorted(entities, before) ==
    LET places == DOMAIN entities
        order  == CHOOSE o \in Bijection(places, places) :
                      \A i, j \in places : i < j => <<o[i], o[j]>> \in before
    IN  [i \in places |-> entities[order[i]]]

\* Faulty variant: from the beginning of the text toward its end.
FirstStartFirst(entities) ==
    Sorted(entities, {p \in (DOMAIN entities) \X (DOMAIN entities) :
                         \/ entities[p[1]].start < entities[p[2]].start
                         \/ entities[p[1]].start = entities[p[2]].start /\ p[1] < p[2]})

\* From the end toward the beginning; the sort is stable.
Precedes(entities, i, j) ==
    \/ entities[i].start > entities[j].start
    \/ entities[i].start = entities[j].start /\ i < j

LastStartFirst(entities) ==
    Sorted(entities, {p \in (DOMAIN entities) \X (DOMAIN entities) : Precedes(entities, p[1], p[2])})

\* Slices of a text, which end where it ends.
UpTo(text, n)  == SubSeq(text, 1, Min({n, Len(text)}))
After(text, n) == SubSeq(text, n + 1, Len(text))

Replaced(text, e) == UpTo(text, e.start) \o Marker(e) \o After(text, e.end)

Redacted(scan) == FoldLeft(Replaced, Text(scan), LastStartFirst(Entities(scan)))

-----------------------------------------------------------------------------
Covers(e, i)   == i \in (e.start + 1) .. e.end
Overlap(e, f)  == e.start < f.end /\ f.start < e.end
IsCharacter(c) == c[1] = "character"

\* The text without the characters in gone.
Without(text, gone) ==
    FlattenSeq([i \in DOMAIN text |-> IF text[i] \in gone THEN <<>> ELSE <<text[i]>>])

\* Two patterns overlap as those of a telephone number and of a twelve digit number do,
\* in "+91" and ten digits: both end where the digits do.
EndTogether(entities) ==
    \A i, j \in DOMAIN entities :
        i # j /\ Overlap(entities[i], entities[j]) =>
            /\ "email" \notin {entities[i].type, entities[j].type}
            /\ entities[i].end = entities[j].end
            /\ entities[i].end - entities[i].start <= MarkerSize

\* Of the text exactly the characters of the entities are gone, and an entity that is not
\* part of another one has left its marker.
CutExactly(scan, redacted) ==
    LET entities   == Entities(scan)
        InEntity(i) == \E k \in DOMAIN entities : Covers(entities[k], i)
    IN  /\ Without(redacted, {c \in ToSet(redacted) : ~IsCharacter(c)})
             = Without(Text(scan), {c \in ToSet(Text(scan)) : InEntity(c[2])})
        /\ \A k \in DOMAIN entities :
              LET outer == \A j \in DOMAIN entities :
                              j # k => ~Overlap(entities[j], entities[k])
                                       \/ entities[j].start > entities[k].start
              IN  outer => \E i \in 1 .. (Len(redacted) + 1 - MarkerSize) :
                              SubSeq(redacted, i, i + MarkerSize - 1) = Marker(entities[k])
================================================================================
