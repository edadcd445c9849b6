SPECIFICATION Spec
CONSTANTS
    Config <- MCConfig
    Alpha = 5
    Requests = {r1, r2}
    Cold = Cold
    NoThreshold = NoThreshold
    NoThread = NoThread
    HasProvider = TRUE
    UserFits = TRUE
    Given = Given
    GivenBy = {"preset", "provider", "caller"}
    StoredPairs <- SomePairs
    Feedbacks <- MCFeedbacks
    SyncMaxH0 = 1
    MonitorWindowMin = 1
SYMMETRY RequestSymmetry
CHECK_DEADLOCK FALSE
INVARIANTS
    MonitorWithinCounts
    PairsFromOneFit
    RejectedNeverServes
