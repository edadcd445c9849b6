SPECIFICATION FairSpec
CONSTANTS
    uuid_key = uuid_key
    digest_key = digest_key
    client_1 = client_1
    Keys <- MCKeys
    UuidKeys <- MCUuidKeys
    Clients <- MCClients
    Limit = 2
    MaxWrites = 3
    MaxFaults = 1
INVARIANTS
    PendingRowHasEvent
    TombstonedVectorHasEvent
    StaleVectorHasEvent
PROPERTIES
    PendingEventuallyIndexed
CHECK_DEADLOCK FALSE
