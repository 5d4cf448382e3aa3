CONSTANTS
    Events <- FastAndWifi
    Targets <- TwoTargets
    MaxFires = 1
    MaxFaults = 2
SPECIFICATION FairSpec
INVARIANTS
    TransportTypeOK
    NoEventLost
    BatchesHaveOwners
PROPERTIES
    UploaderUnlocks
CHECK_DEADLOCK FALSE
