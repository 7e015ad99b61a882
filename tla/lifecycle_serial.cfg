SPECIFICATION Spec
CONSTANTS
    Docs = {d1, d2}
    Versions = {u1, u2, u3}
    Contents = {c1, c2, c3}
    Files = {f1}
    Kinds = {"document", "unlabelled", "version"}
    Modes = {"background", "inline", "sync"}
    None = None
    FailingCalls <- BeforeFirstPromotion
    LostReplies <- BeforePromotion
    MaxFaults = 1
    MaxCrashes = 0
    SerialUploads = TRUE
SYMMETRY Symmetry
INVARIANTS
    OnlyActiveVersionServed
    ActiveDocumentNotFailed
PROPERTIES
    ImplementsCatalog
CHECK_DEADLOCK FALSE
