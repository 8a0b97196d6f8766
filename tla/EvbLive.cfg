SPECIFICATION FairSpec
CONSTANTS
    NSources = 2
    Stamps = {1}
    Window = 1
    QXon = 1
    QXoff = 1
    Loads = {"low", "high"}
    Commands = {"reset", "disconnect"}
    MaxFragments = 1
PROPERTIES EverythingLeaves ReadAgain
CHECK_DEADLOCK FALSE
