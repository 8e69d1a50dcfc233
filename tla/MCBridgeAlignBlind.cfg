SPECIFICATION Spec
CONSTANTS
    Headings <- MCHeadings
    Offsets <- MCOffsets
    BoxHeading = 29
    NearEnter = 8
    NearExit = 12
    FullAngle = 40
    TriggerAngle = 45
    ForceAngle = 45
    ReleaseAngle = 15
    ReleaseReset = 30
    Slew = 3
    NearSlew = 2
    Gain = 10
    NearGain = 5
    ControlLimit = 2
    StableDelta = 1
    ConfirmFrames = 2
    LostReset = 1
    ReverseFrames = 2
    FallbackTime = 2
    Grace = 1
    ReliableFrames = 2
    EstimatedFrames = 2
    Percent = 90
    BlindTime = 1
    FreshFrames = 2
    ReleaseFrames = 1
    ReleaseTime = 2
    SingleHold = 1
    LostHold = 1
PROPERTIES
    LostBendTurnsBlind
