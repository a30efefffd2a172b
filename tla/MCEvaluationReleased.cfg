SPECIFICATION Spec
CONSTANTS
    Runs = {r1}
    Workers = {w1}
    RunnerConfigured = {TRUE}
    Nil = Nil
    MaxCases = 2
    MaxDuplicates = 0
    MaxFaults = 0
    MaxRetries = 1
    MaxExpired = 1
PROPERTIES
    ReleasedDatasetsAreFixed
CHECK_DEADLOCK FALSE
