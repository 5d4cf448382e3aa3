CONSTANTS
    Events <- FastAndWifi
    Targets <- TwoTargets
    MaxFires = 1
    MaxFaults = 0
SPECIFICATION Spec
INVARIANTS
    SingleUpload
CHECK_DEADLOCK FALSE
