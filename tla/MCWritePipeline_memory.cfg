CONSTANTS
    alice = alice
    bob = bob
    t1 = t1
    t2 = t2
    NoToken = NoToken
    Users <- TwoUsers
    Tokens <- TwoTokens
    Persistence = "memory"
    kMaxPendingWrites = 2
    WireFaults <- NoWireFaults
    MaxWrites = 3
    MaxFaults = 2
SPECIFICATION Spec
INVARIANTS
    CallbacksMatchQueue
    WaitersCanBeAnswered
    FailureMeansRefused
    StreamTokenIsPersisted
PROPERTIES
    ImplementsWriteQueue
