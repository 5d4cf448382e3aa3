CONSTANTS
    alice = alice
    bob = bob
    t1 = t1
    t2 = t2
    NoToken = NoToken
    Users <- TwoUsers
    Tokens <- OneToken
    Persistence = "leveldb"
    kMaxPendingWrites = 2
    WireFaults <- BothWireFaults
    MaxWrites = 3
    MaxFaults = 2
SPECIFICATION Spec
INVARIANTS
    TypeOK
    NoHardAssertFails
    PipelineIsQueuePrefix
    ResponsesMatchPipeline
PROPERTIES
    WaitersAnsweredInTime
    ImplementsWriteQueue
