SPECIFICATION Spec
CONSTANTS
    Config <- MCConfig
    Alpha = 5
    Requests = {r1, r2, r3}
    Cold = Cold
    NoThreshold = NoThreshold
    NoThread = NoThread
    HasProvider = TRUE
    UserFits = FALSE
    Given = Given
    GivenBy = {}
    StoredPairs <- NoPairs
    Feedbacks <- MCFeedbacks
    SyncMaxH0 = 1
    MonitorWindowMin = 1
SYMMETRY RequestSymmetry
CHECK_DEADLOCK FALSE
INVARIANT
    LivePairSameGeneration
