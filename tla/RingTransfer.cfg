SPECIFICATION Spec
CONSTANTS
    P1 = P1
    P2 = P2
    C1 = C1
    C2 = C2
    NoClient = NoClient
    Joining = Joining
    Word = 1000
    Producers = {P1}
    Consumers = {C1}
    MaxConsumers = 1
    Size = 3
    MaxBytes = 7
    PutSizes = {1, 2, 3}
    GetSizes <- GetAll
    Patience = {"none", "some"}
    Mortal = {}
INVARIANTS StreamInv DataIntact GetIsExact
CHECK_DEADLOCK FALSE
