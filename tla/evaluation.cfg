SPECIFICATION Spec
CONSTANTS
    Traces = {1, 2}
    Questions = {"q1"}
    Chunks = {"c1", "c2"}
    QuestionOf <- MCQuestionOf
    Documents <- MCDocuments
    Lists <- MCLists
    Gain <- MCGain
    Ks = {1, 2, 3}
    Requests = {g1, g2}
    Scores = {4}
    None = None
    Reviewed = Reviewed
    Observed = Observed
    Unreadable = Unreadable
    MaxFaults = 1
    MaxReviews = 2
    MaxRunning = 2
    Reviews <- MCReviews
SYMMETRY Symmetry
INVARIANTS
    OnlyReviewedTruth
    MetricsCoherent
    ScoresOfTrace
    CandidatesFollowGolden
CHECK_DEADLOCK FALSE
