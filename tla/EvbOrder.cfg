SPECIFICATION Spec
CONSTANTS
    NSources = 2
    Stamps = {1, 2}
    Window = 1
    QXon = 1
    QXoff = 2
    Loads = {"low"}
    Commands = {"flush", "abort", "stall"}
    MaxFragments = 2
CONSTRAINT FewTroubles
INVARIANTS HandlerInv SourceOrder InOrder BarriersApart LateNoticed
CHECK_DEADLOCK FALSE
