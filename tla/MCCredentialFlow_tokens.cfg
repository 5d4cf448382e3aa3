CONSTANTS
    alice = alice
    bob = bob
    Nobody = Nobody
    Failure = Failure
    Users <- OneUser
    CreatedOnMain = TRUE
    MaxEvents = 2
SPECIFICATION FairSpec
INVARIANTS
    TokenHasItsUser
    StreamActsForEngineUser
    StartingStreamHasRequest
CHECK_DEADLOCK FALSE
PROPERTIES
    EngineFollowsAuth
    StreamsGetTokens
