CONSTANTS
    alice = alice
    bob = bob
    t1 = t1
    t2 = t2
    NoToken = NoToken
    Users <- OneUser
    Tokens <- OneToken
    Persistence = "leveldb"
    kMaxPendingWrites = 1
    WireFaults <- BothWireFaults
    MaxWrites = 2
    MaxFaults = 2
SPECIFICATION FairSpec
PROPERTIES
    WritesEventuallySettle
