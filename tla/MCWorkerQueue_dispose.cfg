CONSTANTS
    a1 = a1
    a2 = a2
    Worker = Worker
    None = None
    Threads <- TwoThreads
    Calls <- AllCalls
    MaxTasks = 2
    MaxCallbacks = 1
SPECIFICATION FairSpec
INVARIANTS
    TasksAreOwned
    NothingRunsAfterDispose
    NoWorkAfterTermination
    AcceptedWorkIsNotDropped
PROPERTIES
    DisposeReturns
    AcceptedWorkRuns
CHECK_DEADLOCK FALSE
