SPECIFICATION FairSpec
CONSTANTS
    W1 = W1
    W2 = W2
    Nobody = Nobody
    Loops = {W1}
    DwellCount = 2
    Faults = {}
    MaxFaults = 0
    MaxStarts = 1
    MaxEvents = 0
    MaxScalers = 0
PROPERTY EndEnds
CHECK_DEADLOCK FALSE
