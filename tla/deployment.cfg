SPECIFICATION DeploymentSpec
CONSTANTS
    Servers = {s1, s2}
    Default = default
    None = None
    Resources <- MCResources
    Datasets <- MCDatasets
    MaxStarts = 3
    MaxFaults = 1
    MaxFailures = 1
INVARIANTS
    ServingIsProvisioned
    OnlyFirstStartsConflict
    IndexesComplete
PROPERTIES
    EveryCloseIsCalled
CHECK_DEADLOCK FALSE
