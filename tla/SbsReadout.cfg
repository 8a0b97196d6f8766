SPECIFICATION FairSpec
CONSTANTS
    W1 = W1
    W2 = W2
    Nobody = Nobody
    Loops <- Two
    DwellCount = 2
    Faults = {"loop", "begin"}
    MaxFaults = 2
    MaxStarts = 3
    MaxEvents = 2
    MaxScalers = 1
INVARIANTS SbsInv RingSerialized EventsCounted StateTrue
PROPERTIES OperationsReturn StopHalts
CHECK_DEADLOCK FALSE
