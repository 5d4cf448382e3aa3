CONSTANTS
    NumTargets = 1
    NumDocs = 2
    kResumeTokenMaxAge = 2
    Misfortunes <- AllMisfortunes
    MaxListens = 2
    MaxVersions = 2
    MaxFaults = 2
SPECIFICATION Spec
INVARIANTS
    NoWatchAssertFails
    OnlineStateMatchesStream
    ListensMatchViews
