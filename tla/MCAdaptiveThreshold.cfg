SPECIFICATION AdaptiveSpec
CONSTANTS
    Scores = {1, 2, 3}
    Infinity = 9
    Configs <- MCConfigs
    Unit = 25
    Target = 10
    AlphaMin = 2
    AlphaMax = 13
    Up = 2
    Down = 3
    BufferSize = 3
    WilsonZ = 1
    WilsonWindow = 3
    WilsonMargin = 8
    MinSelected = 2
    AcceptMargin = 1
    RejectMargin = 1
    AuditedZones = {"borderline_accept", "borderline_reject"}
    MaxCalibration = 2
    MaxEvents = 4
INVARIANTS
    ThresholdsAgree
    FalseHitsPaidFor
    ControlSliceAgrees
CHECK_DEADLOCK FALSE
