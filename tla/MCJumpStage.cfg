SPECIFICATION FairSpec
CONSTANTS
    DotTypes <- WhiteBlackWhite
    MultiFrame = 1
    Cooldown = 0
    StepEnds <- SixTicks
    LegPeriod = 2
    Border = 2
    FrameTime = 2
    LoopTime = 3
    Spacing = 14
INVARIANTS
    TypeOK
    OneJumpPerEdge
    EveryJumpIsALeap
PROPERTIES
    LeapIsWhole
    LeapEnds
