SPECIFICATION Spec
CONSTANTS
    P1 = P1
    P2 = P2
    C1 = C1
    C2 = C2
    NoClient = NoClient
    Joining = Joining
    Word = 1000
    Producers = {P1, P2}
    Consumers = {C1, C2}
    MaxConsumers = 2
    Size = 2
    MaxBytes = 2
    PutSizes = {1}
    GetSizes <- Get12
    Patience = {"some"}
    Mortal = {P1, C1}
INVARIANTS RecordsExclusive NoOverrun
PROPERTY IsStream
CHECK_DEADLOCK FALSE
