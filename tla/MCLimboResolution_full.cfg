CONSTANTS
    NumKeys = 3
    NumViews = 2
    kMaxConcurrentLimboResolutions = 2
    MaxIds = 6
    MaxQueue = 3
SPECIFICATION Spec
INVARIANTS
    LimboTargetsMatchListens
    NoLimboDocumentForgotten
    QueueMeansFull
