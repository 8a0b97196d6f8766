SPECIFICATION FairSpec
CONSTANTS
    W1 = W1
    W2 = W2
    Nobody = Nobody
    Workers <- Two
    NBuffers = 2
    Faults = {"start", "read", "restart", "write", "write again"}
    MaxFaults = 2
    MaxRuns = 2
    MaxData = 1
INVARIANTS ReadoutInv RequestsFit ControllerGranted StoppedMeansOff RunStateTrue
PROPERTIES StreamInTurn RequestsAnswered
CHECK_DEADLOCK FALSE
