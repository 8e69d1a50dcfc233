SPECIFICATION FairSpec
CONSTANTS
    Words <- MCFewWords
    ConfirmCount = 1
    BlindTimeout = 2
    RecoveryMin = 1
    RecoveryMax = 2
    Cooldown = 1
INVARIANTS
    TypeOK
PROPERTIES
    FaultNeverDrives
    OneTurnPerRequest
    ImplementsTurn
    ImplementsTurnProgress
    FaultStops
    ReverseEnds
