SPECIFICATION FairSpec
CONSTANTS
    W1 = W1
    W2 = W2
    Nobody = Nobody
    Workers = {W1}
    NBuffers = 2
    Faults = {}
    MaxFaults = 0
    MaxRuns = 1
    MaxData = 0
PROPERTY EndAnswered
CHECK_DEADLOCK FALSE
