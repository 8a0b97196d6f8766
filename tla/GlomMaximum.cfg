SPECIFICATION FairSpec
CONSTANTS
    Fragments <- MCFragments
    Options <- MCOptions
    Junk = {"ABEND", "OTHER"}
    Window = 1
    MaxFragments = 2
    Word = 6
    Unsigned = 16
    NBuffers = 2
    Capacity = 2
    MaxInput = 3
INVARIANT WithinMaximum
CHECK_DEADLOCK FALSE
