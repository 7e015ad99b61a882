SPECIFICATION Spec
CONSTANTS
    Queries = {q1, q2}
    Texts = {t1, t2}
    Updates = {}
    None = None
    Unreliable = {}
    MaxRetries = 1
SYMMETRY Symmetry
INVARIANTS
    HitAnswersQuestion
CHECK_DEADLOCK FALSE
