SPECIFICATION Spec
CONSTANTS
    Docs = {d1}
    Versions = {u1, u2, u3}
    Contents = {c1, c2}
    Files = {f1, f2}
    Kinds = {"document", "version"}
    Modes = {"background", "sync"}
    None = None
    FailingCalls <- AllSteps
    LostReplies <- AllButActivate
    MaxFaults = 1
    MaxCrashes = 1
    SerialUploads = FALSE
SYMMETRY Symmetry
INVARIANTS
    TypeOK
    VersionNumbersFollowOn
    ActiveRowIsActive
    CorpusStaysQueryable
    IndexedIsServed
    ServedVersionHasBlob
PROPERTIES
    LifecycleOrder
CHECK_DEADLOCK FALSE
