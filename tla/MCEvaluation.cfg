SPECIFICATION Spec
CONSTANTS
    Runs = {r1, r2}
    Workers = {w1, w2}
    RunnerConfigured = {TRUE}
    Nil = Nil
    MaxCases = 1
    MaxDuplicates = 1
    MaxFaults = 1
    MaxRetries = 1
    MaxExpired = 1
SYMMETRY Symmetry
INVARIANTS
    TypeOK
    SucceededRunsAreComplete
    RetriesStartAfresh
    BaselinesStayComparable
PROPERTIES
    OutcomesStay
CHECK_DEADLOCK FALSE
