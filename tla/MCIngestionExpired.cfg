SPECIFICATION Spec
CONSTANTS
    Versions = {v1}
    Workers = {w1, w2}
    Publishers = {p1}
    Nil = Nil
    MaxAttempts = 2
    MaxUserRetries = 0
    MaxTries = 0
    MaxFaults = 1
INVARIANTS
    ExpiredAttemptDidNotComplete
CHECK_DEADLOCK FALSE
