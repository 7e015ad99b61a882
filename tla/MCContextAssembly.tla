--------------------------- MODULE MCContextAssembly ---------------------------
(* Instances of ContextAssembly for TLC. *)
EXTENDS ContextAssembly

CONSTANTS leave, travel, expense, security

\* Inputs that differ in what is selected: a document may repeat the content of an
\* earlier one, with or without a content hash.
Doc(content, hashed, score) == [content |-> content, hashed |-> hashed, score |-> score]
Symmetric(f) == \A x, y \in Contents : f[x][y] = f[y][x]
Similarities == {f \in [Contents -> [Contents -> {0, 1}]] : Symmetric(f) /\ \A x \in Contents : f[x][x] = 1}
Ranked == {<<Doc(leave, TRUE, s), Doc(travel, TRUE, t), Doc(expense, TRUE, s), Doc(security, TRUE, t)>> :
               s \in {0, 1}, t \in {1}}
            \cup {<<Doc(leave, TRUE, 1), Doc(travel, TRUE, 1), Doc(x, h, 0)>> : h \in BOOLEAN, x \in {leave, travel}}
OneSentence == [x \in Contents |-> <<[tokens |-> 1, overlap |-> 1]>>]
NothingDetected == [length |-> 2, matches |-> [p \in ToSet(Patterns) |-> <<>>]]
NoPII == [x \in Contents |-> NothingDetected]
Searches ==
    {[documents |-> ds, relevance |-> r, similarity |-> f, scans |-> NoPII,
      sentences |-> OneSentence, terms |-> TRUE] :
        ds \in Ranked, r \in [Contents -> {0, 1}], f \in Similarities}

\* Inputs that differ in what is packed.
Sizes == [tokens : {1, 2}, overlap : {0, 1}]
Bodies == UNION {[1 .. n -> Sizes] : n \in 0 .. 2}
Long == [1 .. 3 -> [tokens : {1, 3}, overlap : {0, 1}]]
Packings ==
    {[documents |-> <<Doc(leave, TRUE, 2), Doc(travel, TRUE, 1)>>,
      relevance |-> [x \in Contents |-> 1],
      similarity |-> [x \in Contents |-> [y \in Contents |-> 0]],
      scans |-> NoPII,
      sentences |-> [x \in Contents |-> IF x = leave THEN first ELSE second],
      terms |-> terms] :
        first \in Long, second \in Bodies, terms \in BOOLEAN}

\* Inputs that differ in what is detected: at most two telephone numbers, of which the
\* second may end with a twelve digit number, and an email address, of a text of 6 characters.
Spans == {s \in [start : 0 .. 5, end : 1 .. 6] : s.start < s.end}
Detected(x) == {<<>>} \cup {<<s>> : s \in x}
Numbers == {s \in Spans : s.end - s.start <= MarkerSize}
Phones == Detected(Numbers)
            \cup {<<s, t>> : s \in Numbers, t \in {n \in Numbers : n.start >= 4}}
InTheirOrder(m) == \A i \in DOMAIN m : i > 1 => m[i - 1].end <= m[i].start
Scans == {[length |-> 6, matches |-> [email |-> e, phone |-> p, aadhaar |-> a]] :
            e \in Detected(Spans), p \in {m \in Phones : InTheirOrder(m)}, a \in Detected(Numbers)}
Redactions ==
    {[documents |-> <<Doc(leave, TRUE, 1)>>,
      relevance |-> [x \in Contents |-> 1],
      similarity |-> [x \in Contents |-> [y \in Contents |-> 0]],
      scans |-> [NoPII EXCEPT ![leave] = scan],
      sentences |-> OneSentence, terms |-> TRUE] :
        scan \in Scans}

AllInputs == Searches \cup Packings \cup Redactions
================================================================================
