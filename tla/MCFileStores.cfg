SPECIFICATION Spec
CONSTANTS
    k1 = k1
    k2 = k2
    k3 = k3
    e1 = e1
    e2 = e2
    None = None
    KeyOrder <- MCKeyOrder
    Embeddings = {e1, e2}
    Similarity <- MCSimilarity
    Namespaces = {n1, n2}
    Thresholds = {1}
    RecordLimits = {1, 2}
    MaxChanges = 4
    MaxCrashes = 1
INVARIANTS
    ReturnedSurvives
    IndexedHasResponse
    SearchIsNearest
    RecordsAreLatest
CHECK_DEADLOCK FALSE
