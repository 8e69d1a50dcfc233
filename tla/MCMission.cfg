SPECIFICATION FairSpec
CONSTANTS
    Plan <- JumpFirst
    ConfirmCount = 1
    JumpTarget = 2
    BackConfirm = 2
    WhiteFrames = 2
    BumpLength = 1
    Segments = 4
    ControlBits = {TRUE}
    UpCapacity = 2
    DownCapacity = 1
INVARIANTS
    TypeOK
    CompleteIsClean
    DoneIsCurrent
PROPERTIES
    AnswerAfterDistance
    ImplementsCourse
    BumpsEnd
    ExitIsReported
    LockSettles
