SPECIFICATION Spec
CONSTANTS
    Runs = {r1}
    Workers = {w1, w2}
    RunnerConfigured = {TRUE, FALSE}
    Nil = Nil
    MaxCases = 2
    MaxDuplicates = 1
    MaxFaults = 1
    MaxRetries = 1
    MaxExpired = 1
PROPERTIES
    RunsEnd
CHECK_DEADLOCK FALSE
