SPECIFICATION Spec
CONSTANTS
    thread_1 = thread_1
    thread_2 = thread_2
    Keys <- MCKeys
    Threads <- MCThreads
    Configs <- MCConfigs
    TopK = 2
    Scores = {0, 1}
    Threshold = 1
    MaxRecords = 2
    MaxEntries = 1
    MaxCalls = 3
    MaxFaults = 1
INVARIANTS
    ServedUnderItsKey
    PolicyHasLastWord
    InvalidatedIsNotServed
CHECK_DEADLOCK FALSE
