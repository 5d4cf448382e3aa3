CONSTANTS
    NumTargets = 2
    NumDocs = 1
    kResumeTokenMaxAge = 2
    Misfortunes <- Resets
    MaxListens = 2
    MaxVersions = 2
    MaxFaults = 1
SPECIFICATION Spec
INVARIANTS
    OutstandingResponsesAreExact
    CacheMatchesResumeToken
    CurrentViewIsExact
