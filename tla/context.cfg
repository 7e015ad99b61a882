SPECIFICATION Spec
CONSTANTS
    leave = leave
    travel = travel
    expense = expense
    security = security
    Contents = {leave, travel, expense, security}
    None = None
    Inputs <- AllInputs
    MaxDocuments = 3
    MaxTokens = 9
    Lambda = 5
    Header = 2
    MarkerSize = 3
INVARIANTS
    SelectionIsGreedy
    BudgetKept
    BestSentencesKept
    SourcesResolve
    NothingCutWithoutNeed
    RedactionExact
CHECK_DEADLOCK FALSE
