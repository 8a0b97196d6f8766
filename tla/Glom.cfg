SPECIFICATION FairSpec
CONSTANTS
    Fragments <- MCFragments
    Options <- MCOptions
    Junk = {"ABEND", "OTHER"}
    Window = 1
    MaxFragments = 1
    Word = 6
    Unsigned = 16
    NBuffers = 2
    Capacity = 2
    MaxInput = 4
INVARIANTS GlomInv EventsBuilt BarriersBetween CountsTrue StampsTrue
PROPERTIES EndSeen
CHECK_DEADLOCK FALSE
