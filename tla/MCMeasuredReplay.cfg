SPECIFICATION ComparedSpec
CONSTANTS
    r1 = r1
    r2 = r2
    r3 = r3
    r4 = r4
    r5 = r5
    None = None
    Rows = {r1, r2, r3, r4, r5}
    OptionsSet <- MCOptions
    Verdict <- MCVerdict
    Cluster <- MCCluster
    Gold <- MCGold
    RowLabel <- MCRowLabel
    TopK = 2
    BatchSize = 1
    MaxAttempts = 1
    MaxVersion = 2
    CheckEvery = 1
    Window = 2
    Patience = 2
    Rates = {1, 2}
    FprLimit = 1
INVARIANTS
    AuditAgrees
    FrozenMeansConverged
    DiagnosticsAgree
    AttributionByHistory
    LifecycleAgrees
    ReplayEndsAtHit
PROPERTIES
    CosineSessionIsActive
CHECK_DEADLOCK FALSE
