SPECIFICATION Spec
CONSTANTS
    Versions = {v1}
    Workers = {w1, w2}
    Publishers = {p1, p2}
    Nil = Nil
    MaxAttempts = 2
    MaxUserRetries = 1
    MaxTries = 1
    MaxFaults = 2
SYMMETRY Symmetry
INVARIANTS
    TypeOK
    ReadyIsIndexed
    AttemptsAreOwned
    WaitingHasCarrier
    ActiveHasWorker
    DocumentFollowsVersion
PROPERTIES
    OvertakenOnlyAfterExpiry
    OnlyStaleSessionsUndoReady
    UndisturbedFinishIsClean
    PublishesWholeAttempts
CHECK_DEADLOCK FALSE
