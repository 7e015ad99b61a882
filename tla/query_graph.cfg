SPECIFICATION Spec
CONSTANTS
    Queries = {q1, q2}
    Texts = {t1, t2}
    Updates = {n1}
    None = None
    Unreliable <- Dependencies
    MaxRetries = 1
SYMMETRY Symmetry
INVARIANTS
    TypeOK
    EvidenceReachesLLM
    CachedAnswersGrounded
PROPERTIES
    ImplementsAnswerService
CHECK_DEADLOCK FALSE
