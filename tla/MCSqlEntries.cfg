SPECIFICATION Spec
CONSTANTS
    key_1 = key_1
    key_2 = key_2
    session_1 = session_1
    session_2 = session_2
    Nobody = Nobody
    Old = key_1
    Keys <- MCKeys
    Sessions <- MCSessions
    Numbers <- MCNumbers
    MaxCalls = 3
    MaxFaults = 1
INVARIANTS
    LastEventTellsRow
PROPERTIES
    ImplementsEntryTable
CHECK_DEADLOCK FALSE
