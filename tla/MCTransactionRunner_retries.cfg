CONSTANTS
    t1 = t1
    doc1 = doc1
    doc2 = doc2
    Transactions <- OneTransaction
    Keys <- TwoKeys
    kRetryCount = 1
    MaxOps = 3
    MaxVersions = 2
SPECIFICATION FairSpec
INVARIANTS
    ResultMatchesBackend
PROPERTIES
    CommittedReadsAreCurrent
    TransactionsEnd
CHECK_DEADLOCK FALSE
