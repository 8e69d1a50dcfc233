SPECIFICATION Spec
CONSTANTS
    Words <- MCWords
    ConfirmCount = 1
    BlindTimeout = 2
    RecoveryMin = 1
    RecoveryMax = 2
    Cooldown = 1
PROPERTY
    TurnFollowsCore1
