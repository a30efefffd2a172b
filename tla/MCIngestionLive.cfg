SPECIFICATION FairSpec
CONSTANTS
    Versions = {v1}
    Workers = {w1, w2}
    Publishers = {p1}
    Nil = Nil
    MaxAttempts = 4
    MaxUserRetries = 1
    MaxTries = 0
    MaxFaults = 1
PROPERTIES
    EveryRequestSettles
    EveryEventIsPublished
CHECK_DEADLOCK FALSE
