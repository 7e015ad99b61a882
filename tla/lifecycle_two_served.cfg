SPECIFICATION Spec
CONSTANTS
    Docs = {d1}
    Versions = {u1, u2, u3}
    Contents = {c1, c2, c3}
    Files = {f1}
    Kinds = {"document", "version"}
    Modes = {"background"}
    None = None
    FailingCalls = {}
    LostReplies = {}
    MaxFaults = 0
    MaxCrashes = 0
    SerialUploads = FALSE
SYMMETRY Symmetry
INVARIANTS
    OnlyActiveVersionServed
CHECK_DEADLOCK FALSE
