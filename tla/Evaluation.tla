------------------------------ MODULE Evaluation -------------------------------
(***************************************************************************)
(* The evaluation side of the program (app/evaluation): requests to the    *)
(* API generate a dataset of questions from recorded traces, a reviewer    *)
(* fills in what is expected, and scripts compare the traces with it and   *)
(* publish scores.  They are separate processes that meet in files: the    *)
(* golden dataset, its source candidates, the review of traces, and the    *)
(* results of the retrieval and of the judge script.                       *)
(*                                                                         *)
(* A trace is a number, in the order of the ids.  An expected answer is    *)
(* None, Reviewed when the reviewer wrote it, or Observed for the answer   *)
(* that the program itself gave.                                           *)
(***************************************************************************)
EXTENDS RetrievalMetrics

CONSTANTS
    Traces, Questions, Chunks,
    QuestionOf,      \* the question of a trace, stripped and in lower case
    Documents,       \* the chunks its hybrid_retrieval and rerank observations list
    Requests,        \* calls of GoldenDatasetFileService.generate
    Lists,           \* lists of ids, of traces or of none, that requests and scripts are given
    Reviews,         \* sets of chunks the reviewer may expect
    Scores,          \* scores of the judge, 0 to 4
    Reviewed, Observed,
    Unreadable,      \* a file that is missing or half written
    MaxFaults,       \* bound: calls that fail, and crashes
    MaxReviews,      \* bound: edits of the reviewer
    MaxRunning       \* bound: requests and scripts under way at once

ASSUME EvaluationAssumption ==
    /\ Traces \subseteq Nat
    /\ QuestionOf \in [Traces -> Questions]
    /\ Documents \in [Traces -> Seq(Chunks \cup {None})]
    /\ IsFiniteSet(Chunks) /\ None \notin Chunks \cup Nat
    /\ Reviews \subseteq SUBSET Chunks
    /\ Lists \subseteq Seq(Nat) \ {<<>>}
    /\ Cardinality({None, Reviewed, Observed}) = 3
    /\ Unreadable \notin Seq([trace : Traces, sources : SUBSET Chunks,
                              answer : {None, Reviewed, Observed}])
    /\ MaxFaults \in Nat /\ MaxReviews \in Nat

VARIABLES
    golden,          \* contextops_golden.json: a sequence of examples
    candidates,      \* contextops_golden_source_candidates.json: the traces of its examples
    reviews,         \* contextops_trace_source_review.json: the chunks expected of a trace
    retrievalFile,   \* contextops_retrieval_evaluation.json
    judgeFile,       \* contextops_llm_judge_evaluation.json
    scores,          \* what Langfuse has of the traces' scores
    request,         \* of each generate request: its step and its examples
    retrieval, judge, publish,   \* the local state of the scripts
    faults, edits,
    approved,        \* history: what the reviewer has ever expected of a question or a trace
    overlapped       \* history: a request was generating while another one was

files   == <<golden, candidates, reviews, retrievalFile, judgeFile, scores>>
scripts == <<retrieval, judge, publish>>
history == <<approved, overlapped>>
vars    == <<files, request, scripts, faults, edits, history>>

-----------------------------------------------------------------------------
(* Building examples (golden_dataset_builder.py).                          *)

Retrieved(t) == Distinct(Documents[t])

\* Faulty variant: the observed answer and its sources are taken for the truth.
ObservedExample(t) == [trace |-> t, sources |-> ToSet(Retrieved(t)), answer |-> Observed]

\* Ground truth is not copied from what was observed.
Example(t) == [trace |-> t, sources |-> {}, answer |-> None]

\* A trace is left out when it cannot be fetched or lacks an observation, or has one twice.
Examples(ids, fetched) ==
    LET kept == Distinct([i \in DOMAIN ids |-> IF ids[i] \in fetched THEN ids[i] ELSE None])
    IN  [i \in DOMAIN kept |-> Example(kept[i])]

(* Indexing the dataset by question: the last example counts.              *)

Latest(examples, q) ==
    {i \in DOMAIN examples :
        /\ QuestionOf[examples[i].trace] = q
        /\ \A j \in DOMAIN examples : QuestionOf[examples[j].trace] = q => j <= i}

ExpectedSources(examples, q) == UNION {examples[i].sources : i \in Latest(examples, q)}
ExpectedAnswers(examples, q) == {examples[i].answer : i \in Latest(examples, q)} \ {None}

-----------------------------------------------------------------------------
NoScript == [step |-> "idle"]

\* A script that raises before it has any effect may be run again: this one, and one that
\* finds a file unreadable, which is no step.

Init ==
    /\ golden = Unreadable /\ candidates = Unreadable
    /\ reviews = [t \in Traces |-> {}]
    /\ retrievalFile = Unreadable /\ judgeFile = Unreadable
    /\ scores = {}
    /\ request = [g \in Requests |-> [step |-> "idle", examples |-> <<>>, identified |-> <<>>]]
    /\ retrieval = NoScript /\ judge = NoScript /\ publish = NoScript
    /\ faults = 0 /\ edits = 0
    /\ approved = {}
    /\ overlapped = FALSE

Running ==
    Cardinality({g \in Requests : request[g].step \in {"writing", "identifying"}})
    + Cardinality({i \in 1..3 : scripts[i].step \notin {"idle", "done"}})

Room == Running < MaxRunning

Fault == faults < MaxFaults /\ faults' = faults + 1

-----------------------------------------------------------------------------
(* GoldenDatasetFileService.generate, coroutines of one process.           *)

Under(g) == request[g].step \in {"writing", "identifying"}
\* Nothing is awaited while a file is being written.
EventLoopFree == \A g \in Requests : request[g].step # "writing"

RequestStep(g, step) == request' = [request EXCEPT ![g].step = step]

\* When no trace can be used the request is refused, and the files are left as they are.
Generate(g, ids, fetched) ==
    LET examples == Examples(ids, fetched)
    IN  /\ request[g].step = "idle" /\ EventLoopFree /\ Room
        /\ examples # <<>>
        /\ request' = [request EXCEPT ![g] = [step |-> "writing", examples |-> examples,
                                              identified |-> <<>>]]
        /\ golden' = Unreadable
        /\ overlapped' = (overlapped \/ \E h \in Requests : Under(h))
        /\ UNCHANGED <<candidates, reviews, retrievalFile, judgeFile, scores, scripts,
                       faults, edits, approved>>

GoldenWritten(g) ==
    /\ request[g].step = "writing"
    /\ golden' = request[g].examples
    /\ RequestStep(g, "identifying")
    /\ UNCHANGED <<candidates, reviews, retrievalFile, judgeFile, scores, scripts, faults,
                   edits, history>>

\* Faulty variant: one example too few.
UnidentifiedButLast(g) ==
    SubSeq(request[g].examples, Len(request[g].identified) + 1, Len(request[g].examples) - 1)

\* GoldenSourceIdentifier.generate retrieves for one example after the other.
Unidentified(g) ==
    SubSeq(request[g].examples, Len(request[g].identified) + 1, Len(request[g].examples))

Identify(g) ==
    /\ request[g].step = "identifying" /\ EventLoopFree
    /\ Unidentified(g) # <<>>
    /\ request' = [request EXCEPT ![g].identified = Append(@, Head(Unidentified(g)).trace)]
    /\ UNCHANGED <<files, scripts, faults, edits, history>>

IdentifyFails(g) ==
    /\ request[g].step = "identifying" /\ EventLoopFree
    /\ Unidentified(g) # <<>>
    /\ Fault
    /\ RequestStep(g, "failed")
    /\ UNCHANGED <<files, scripts, edits, history>>

CandidatesWritten(g) ==
    /\ request[g].step = "identifying" /\ EventLoopFree
    /\ Unidentified(g) = <<>>
    /\ candidates' = request[g].identified
    /\ RequestStep(g, "done")
    /\ UNCHANGED <<golden, reviews, retrievalFile, judgeFile, scores, scripts, faults, edits,
                   history>>

\* The process of the API stops: its requests are lost, a half written file stays.
Crash ==
    /\ \E g \in Requests : Under(g)
    /\ Fault
    /\ request' = [g \in Requests |-> IF Under(g) THEN [request[g] EXCEPT !.step = "lost"]
                                                  ELSE request[g]]
    /\ UNCHANGED <<files, scripts, edits, history>>

-----------------------------------------------------------------------------
(* The reviewer edits the files by hand.                                   *)

Approve(i, sources) ==
    /\ edits < MaxReviews /\ edits' = edits + 1
    /\ golden # Unreadable /\ i \in DOMAIN golden
    /\ golden' = [golden EXCEPT ![i] = [trace |-> @.trace, sources |-> sources,
                                        answer |-> Reviewed]]
    /\ approved' = approved \cup {<<"question", QuestionOf[golden[i].trace], sources>>}
    /\ UNCHANGED <<candidates, reviews, retrievalFile, judgeFile, scores, request, scripts,
                   faults, overlapped>>

ReviewTrace(t, sources) ==
    /\ edits < MaxReviews /\ edits' = edits + 1
    /\ reviews' = [reviews EXCEPT ![t] = sources]
    /\ approved' = approved \cup {<<"trace", t, sources>>}
    /\ UNCHANGED <<golden, candidates, retrievalFile, judgeFile, scores, request, scripts,
                   faults, overlapped>>

-----------------------------------------------------------------------------
(* ExistingTraceRetrievalEvaluator.evaluate_traces.                        *)

RetrievalLoad(ids) ==
    /\ retrieval.step = "idle" /\ Room
    /\ golden # Unreadable
    /\ retrieval' = [step |-> "evaluating", todo |-> Distinct(ids),
                     golden |-> [q \in Questions |-> ExpectedSources(golden, q)],
                     reviews |-> reviews, processed |-> <<>>, skipped |-> <<>>]
    /\ UNCHANGED <<files, request, judge, publish, faults, edits, history>>

\* _resolve_expected_source_ids: the review of the trace comes first.
Resolved(t) ==
    IF retrieval.reviews[t] # {} THEN retrieval.reviews[t] ELSE retrieval.golden[QuestionOf[t]]

RetrievalResult(t) ==
    [trace |-> t, expected |-> Resolved(t), metrics |-> Metrics(Resolved(t), Retrieved(t))]

Evaluate ==
    /\ retrieval.step = "evaluating" /\ retrieval.todo # <<>>
    /\ LET t == Head(retrieval.todo)
       IN  /\ t \in Traces /\ Resolved(t) # {}
           /\ retrieval' = [retrieval EXCEPT !.todo = Tail(@),
                                             !.processed = Append(@, RetrievalResult(t))]
    /\ UNCHANGED <<files, request, judge, publish, faults, edits, history>>

\* There is no such trace, nothing is expected of it, or it cannot be fetched.
Skip ==
    /\ retrieval.step = "evaluating" /\ retrieval.todo # <<>>
    /\ LET t == Head(retrieval.todo)
       IN  IF t \notin Traces \/ Resolved(t) = {} THEN UNCHANGED faults ELSE Fault
    /\ retrieval' = [retrieval EXCEPT !.todo = Tail(@),
                                      !.skipped = Append(@, Head(retrieval.todo))]
    /\ UNCHANGED <<files, request, judge, publish, edits, history>>

RetrievalSave ==
    /\ retrieval.step = "evaluating" /\ retrieval.todo = <<>>
    /\ retrievalFile' = [processed |-> retrieval.processed, skipped |-> retrieval.skipped]
    /\ retrieval' = [step |-> "done"]
    /\ UNCHANGED <<golden, candidates, reviews, judgeFile, scores, request, judge, publish,
                   faults, edits, history>>

-----------------------------------------------------------------------------
(* ExistingTraceLLMJudgeEvaluator.evaluate_traces: the reviews of traces   *)
(* are not read, ids are not deduplicated, and any error ends the script.  *)

JudgeLoad(ids) ==
    /\ judge.step = "idle" /\ Room
    /\ golden # Unreadable
    /\ judge' = [step |-> "judging", todo |-> ids,
                 answers |-> [q \in Questions |-> ExpectedAnswers(golden, q)],
                 results |-> <<>>]
    /\ UNCHANGED <<files, request, retrieval, publish, faults, edits, history>>

\* _resolve_expected_answer: at most one
AnswersFor(t) == judge.answers[QuestionOf[t]]

JudgeTrace(score, answer) ==
    /\ judge.step = "judging" /\ judge.todo # <<>>
    /\ Head(judge.todo) \in Traces
    /\ answer \in AnswersFor(Head(judge.todo))
    /\ judge' = [judge EXCEPT !.todo = Tail(@),
                              !.results = Append(@, [trace    |-> Head(judge.todo),
                                                     expected |-> answer,
                                                     score    |-> score])]
    /\ UNCHANGED <<files, request, retrieval, publish, faults, edits, history>>

\* No such trace or no expected answer, or the trace cannot be fetched, or the judge
\* raises or does not answer with scores within 0 to 4.
JudgeRaises ==
    /\ judge.step = "judging" /\ judge.todo # <<>>
    /\ LET t == Head(judge.todo)
       IN  IF t \notin Traces \/ AnswersFor(t) = {} THEN UNCHANGED faults ELSE Fault
    /\ judge' = NoScript
    /\ UNCHANGED <<files, request, retrieval, publish, edits, history>>

JudgeSave ==
    /\ judge.step = "judging" /\ judge.todo = <<>>
    /\ judgeFile' = judge.results
    /\ judge' = [step |-> "done"]
    /\ UNCHANGED <<golden, candidates, reviews, retrievalFile, scores, request, retrieval,
                   publish, faults, edits, history>>

-----------------------------------------------------------------------------
(* run_existing_trace_langfuse_publisher.py and its publisher.             *)

\* _index_results: the last result of a trace counts.
ResultOf(results, t) == results[Max({i \in DOMAIN results : results[i].trace = t})]
TracesOf(results) == {results[i].trace : i \in DOMAIN results}

Score(t, name, k, num, den) == [trace |-> t, name |-> <<name, k>>, num |-> num, den |-> den]

\* RECALL_SCORES and the like, with the cut-offs from the smallest to the largest
Ascending ==
    CHOOSE ks \in [1..Cardinality(Ks) -> Ks] : \A i, j \in DOMAIN ks : i < j => ks[i] < ks[j]

AtKs(t, name, values) ==
    [i \in DOMAIN Ascending |->
        LET k == Ascending[i] IN Score(t, name, k, values[k].num, values[k].den)]

\* publish_retrieval_result and publish_llm_judge_result: the scores in their order
RetrievalScores(r) ==
    LET m == r.metrics
    IN  AtKs(r.trace, "recall", m.recall) \o AtKs(r.trace, "precision", m.precision)
        \o <<Score(r.trace, "mrr", 0, Least(1, m.rank), m.rank)>>
        \o AtKs(r.trace, "ndcg", m.ndcg)

JudgeScores(r) == <<Score(r.trace, "judge", 0, r.score, 1)>>

Matching ==
    IF Unreadable \in {retrievalFile, judgeFile} THEN {}
    ELSE TracesOf(retrievalFile.processed) \cap TracesOf(judgeFile)

PublishLoad ==
    /\ publish.step = "idle" /\ Room
    /\ Matching # {}
    /\ publish' = [step |-> "retrieval", todo |-> Matching,
                   retrieval |-> retrievalFile.processed, judge |-> judgeFile,
                   created |-> 0, reported |-> 0, failed |-> FALSE]
    /\ UNCHANGED <<files, request, retrieval, judge, faults, edits, history>>

\* Faulty variant: a score is counted before it is created.
PublishCountedFirst(all, n, next) ==
    /\ n \in 0..Len(all)
    /\ IF n = Len(all) THEN UNCHANGED faults ELSE Fault
    /\ scores' = scores \cup {all[i] : i \in 1..n}
    /\ publish' = [next EXCEPT !.created = @ + n,
                               !.reported = @ + Least(n + 1, Len(all)),
                               !.failed = @ \/ n < Len(all)]
    /\ UNCHANGED <<golden, candidates, reviews, retrievalFile, judgeFile, request, retrieval,
                   judge, edits, history>>

\* One half of a trace's scores.  The n first calls of create_score succeed; when the
\* next one raises, the half counts as nothing published.
PublishHalf(all, n, next) ==
    /\ n \in 0..Len(all)
    /\ IF n = Len(all) THEN UNCHANGED faults ELSE Fault
    /\ scores' = scores \cup {all[i] : i \in 1..n}
    /\ publish' = [next EXCEPT !.created = @ + n,
                               !.reported = @ + (IF n = Len(all) THEN n ELSE 0),
                               !.failed = @ \/ n < Len(all)]
    /\ UNCHANGED <<golden, candidates, reviews, retrievalFile, judgeFile, request, retrieval,
                   judge, edits, history>>

PublishRetrieval(n) ==
    /\ publish.step = "retrieval" /\ publish.todo # {}
    /\ PublishHalf(RetrievalScores(ResultOf(publish.retrieval, Min(publish.todo))), n,
                   [publish EXCEPT !.step = "judge"])

PublishJudge(n) ==
    /\ publish.step = "judge"
    /\ PublishHalf(JudgeScores(ResultOf(publish.judge, Min(publish.todo))), n,
                   [publish EXCEPT !.step = "retrieval", !.todo = @ \ {Min(@)}])

PublishEnd ==
    /\ publish.step = "retrieval" /\ publish.todo = {}
    /\ publish' = [publish EXCEPT !.step = "done"]
    /\ UNCHANGED <<files, request, retrieval, judge, faults, edits, history>>

-----------------------------------------------------------------------------
RequestStepOf(g) ==
    \/ GoldenWritten(g) \/ Identify(g) \/ IdentifyFails(g) \/ CandidatesWritten(g)

RetrievalStep == Evaluate \/ Skip \/ RetrievalSave

JudgeStep ==
    \/ \E score \in Scores, answer \in {Reviewed, Observed} : JudgeTrace(score, answer)
    \/ JudgeRaises
    \/ JudgeSave

PublishStep ==
    \/ \E n \in 0..(3 * Cardinality(Ks) + 1) : PublishRetrieval(n) \/ PublishJudge(n)
    \/ PublishEnd

Next ==
    \/ \E g \in Requests :
          \/ \E ids \in Lists, fetched \in SUBSET Traces : Generate(g, ids, fetched)
          \/ RequestStepOf(g)
    \/ Crash
    \/ \E i \in 1..Cardinality(Traces), sources \in Reviews : Approve(i, sources)
    \/ \E t \in Traces, sources \in Reviews : ReviewTrace(t, sources)
    \/ \E ids \in Lists : RetrievalLoad(ids) \/ JudgeLoad(ids)
    \/ RetrievalStep \/ JudgeStep
    \/ PublishLoad \/ PublishStep

Spec == Init /\ [][Next]_vars

-----------------------------------------------------------------------------
\* Whatever requests and reviewers do to the dataset meanwhile, no result, saved or
\* about to be, was computed against anything but what a reviewer expects of that trace
\* or of its question: a generated example has no ground truth of its own
\* ("Ground truth must NOT be copied from the observed answer automatically.").
ReviewedSources(r) ==
    /\ r.expected # {}
    /\ \/ <<"trace", r.trace, r.expected>> \in approved
       \/ <<"question", QuestionOf[r.trace], r.expected>> \in approved

OnlyReviewedTruth ==
    /\ retrievalFile # Unreadable =>
          \A i \in DOMAIN retrievalFile.processed : ReviewedSources(retrievalFile.processed[i])
    /\ retrieval.step = "evaluating" =>
          \A i \in DOMAIN retrieval.processed : ReviewedSources(retrieval.processed[i])
    /\ judgeFile # Unreadable => \A i \in DOMAIN judgeFile : judgeFile[i].expected = Reviewed

\* A saved retrieval evaluation accounts for every trace it was asked for once, and the
\* metrics of each trace fit together and are of its retrieval order, where a chunk
\* counts once, at the place of its first retrieval.
MetricsCoherent ==
    retrievalFile # Unreadable =>
        /\ TracesOf(retrievalFile.processed) \cap ToSet(retrievalFile.skipped) = {}
        /\ Len(retrievalFile.processed) = Cardinality(TracesOf(retrievalFile.processed))
        /\ \A i \in DOMAIN retrievalFile.processed :
              LET r == retrievalFile.processed[i]
                  docs == Documents[r.trace]
                  FirstAt(c) == Min({j \in DOMAIN docs : docs[j] = c})
              IN  /\ Coherent(r.expected, r.metrics)
                  /\ ToSet(r.metrics.retrieved) = ToSet(docs) \ {None}
                  /\ \A j, k \in DOMAIN r.metrics.retrieved :
                        j < k => FirstAt(r.metrics.retrieved[j]) < FirstAt(r.metrics.retrieved[k])

\* A score in Langfuse is one of the two saved results of that very trace; without a
\* failed call every trace that has both results gets all its scores; and no more
\* scores are reported than were created, exactly as many when no call failed.
ScoresOfTrace ==
    LET Of(t) == ToSet(RetrievalScores(ResultOf(retrievalFile.processed, t)))
                 \cup ToSet(JudgeScores(ResultOf(judgeFile, t)))
    IN  /\ scores # {} => scores \subseteq UNION {Of(t) : t \in Matching}
        /\ publish.step = "done" =>
              /\ publish.reported <= publish.created
              /\ publish.created = Cardinality(scores)
              /\ ~publish.failed => /\ scores = UNION {Of(t) : t \in Matching}
                                    /\ publish.reported = publish.created

\* When no request failed on the way or overlapped with another one, the candidates for
\* the reviewer are those of the examples in the dataset.
CandidatesFollowGolden ==
    /\ \A g \in Requests : request[g].step \in {"idle", "done"}
    /\ ~overlapped
    /\ golden # Unreadable
    => candidates = [i \in DOMAIN golden |-> golden[i].trace]
================================================================================
