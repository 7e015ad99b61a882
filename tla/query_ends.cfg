SPECIFICATION FairSpec
CONSTANTS
    Queries = {q1}
    Texts = {t1}
    Updates = {n1, n2}
    None = None
    Unreliable <- Dependencies
    MaxRetries = 1
INVARIANTS
    NamespaceFloor
PROPERTIES
    QueryEnds
CHECK_DEADLOCK FALSE
