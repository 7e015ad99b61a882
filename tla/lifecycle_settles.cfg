SPECIFICATION FairSpec
CONSTANTS
    Docs = {d1}
    Versions = {u1, u2}
    Contents = {c1, c2}
    Files = {f1}
    Kinds = {"document", "unlabelled", "version"}
    Modes = {"background", "sync"}
    None = None
    FailingCalls <- IngestionCalls
    LostReplies <- IngestionCalls
    MaxFaults = 2
    MaxCrashes = 0
    SerialUploads = FALSE
PROPERTIES
    VersionSettles
CHECK_DEADLOCK FALSE
