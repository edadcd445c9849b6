SPECIFICATION AuditSpec
CONSTANTS
    session_1 = session_1
    session_2 = session_2
    Queries <- MCQueries
    Sessions <- MCSessions
    MaxRank = 1
    MaxCalls = 3
INVARIANTS
    CandidatesAreTheQuerys
    CurrentIsNotReplaced
CHECK_DEADLOCK FALSE
