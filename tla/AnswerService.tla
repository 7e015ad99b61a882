------------------------------ MODULE AnswerService ------------------------------
(***************************************************************************)
(* What QueryService promises the caller of ask: a question is answered    *)
(* once, by an answer generated for it, by a grounded answer another       *)
(* question with the same retrieval query has been given, or by an         *)
(* abstention, or it is refused with an error.                             *)
(***************************************************************************)
EXTENDS Naturals

CONSTANTS Queries, Texts, None, NoAnswer

VARIABLES
    asked,     \* the question of each query
    text,      \* the retrieval query it was understood as
    outcome,   \* what became of it
    answer     \* the answer it was given

vars == <<asked, text, outcome, answer>>

Outcomes == {"none", "pending", "answered", "abstained", "failed"}

Init ==
    /\ asked = [q \in Queries |-> None]
    /\ text = [q \in Queries |-> None]
    /\ outcome = [q \in Queries |-> "none"]
    /\ answer = [q \in Queries |-> NoAnswer]

Ask(q) ==
    /\ outcome[q] = "none"
    /\ \E question \in Texts : asked' = [asked EXCEPT ![q] = question]
    /\ outcome' = [outcome EXCEPT ![q] = "pending"]
    /\ UNCHANGED <<text, answer>>

\* The conversation decides how a question is understood.
Understand(q) ==
    /\ outcome[q] = "pending"
    /\ \E w \in Texts : text' = [text EXCEPT ![q] = w]
    /\ UNCHANGED <<asked, outcome, answer>>

End(q, how) == outcome' = [outcome EXCEPT ![q] = how] /\ UNCHANGED <<asked, text>>

\* The content of the answer is left open; nobody else's changes.
GivesOnly(q) == answer' = [answer EXCEPT ![q] = answer'[q]]

Generate(q) ==
    /\ outcome[q] = "pending" /\ End(q, "answered")
    /\ GivesOnly(q) /\ answer'[q].question = asked[q]

Reuse(q) ==
    /\ outcome[q] = "pending" /\ End(q, "answered")
    /\ \E p \in Queries : /\ outcome[p] = "answered" /\ answer[p].grounded
                          /\ text[p] = text[q]
                          /\ answer' = [answer EXCEPT ![q] = answer[p]]

Abstain(q) == outcome[q] = "pending" /\ End(q, "abstained") /\ GivesOnly(q)

Refuse(q) == outcome[q] = "pending" /\ End(q, "failed") /\ UNCHANGED answer

Next == \E q \in Queries :
    Ask(q) \/ Understand(q) \/ Generate(q) \/ Reuse(q) \/ Abstain(q) \/ Refuse(q)

Spec == Init /\ [][Next]_vars
================================================================================
