SPECIFICATION Spec
CONSTANTS
    Plan <- BackOnly
    ConfirmCount = 1
    JumpTarget = 1
    BackConfirm = 2
    WhiteFrames = 2
    BumpLength = 1
    Segments = 2
    ControlBits = {FALSE, TRUE}
    UpCapacity = 1
    DownCapacity = 1
PROPERTIES
    LockIsKept
