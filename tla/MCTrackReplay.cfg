SPECIFICATION FairSpec
CONSTANTS
    Paths <- MCPaths
    MaxPoints = 9
    MaxSegments = 3
    SearchNum = 2
    TurnCheck = 2
    Wide = 64
    MaxLoads = 2
INVARIANTS
    TypeOK
    EveryPauseIsMade
    NoTurnLeftOver
PROPERTIES
    ReplayEnds
CHECK_DEADLOCK FALSE
