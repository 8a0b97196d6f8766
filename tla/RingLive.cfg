SPECIFICATION FairSpec
CONSTANTS
    P1 = P1
    P2 = P2
    C1 = C1
    C2 = C2
    NoClient = NoClient
    Joining = Joining
    Word = 1000
    Producers = {P1}
    Consumers = {C1, C2}
    MaxConsumers = 2
    Size = 2
    MaxBytes = 3
    PutSizes = {1}
    GetSizes <- Get12
    Patience = {"forever"}
    Mortal = {}
CONSTRAINT NoWindowHit
PROPERTIES GetCompletes PutCompletes
CHECK_DEADLOCK FALSE
