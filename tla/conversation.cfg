SPECIFICATION Spec
CONSTANTS
    Asks = {a1, a2, a3}
    Conversations = {c1}
    Tenants = {t1, t2}
    None = None
    RecentLimit = 4
    MaxRunning = 2
    MaxFaults = 1
SYMMETRY Symmetry
INVARIANTS
    TenantsApart
    HistoryIsWhole
    NothingForgotten
CHECK_DEADLOCK FALSE
