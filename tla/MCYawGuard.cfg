SPECIFICATION Spec
CONSTANTS
    TargetLimit = 3
    AbsoluteLimit = 5
    TurnStep = 2
    RecoveryAngle = 2
    RecoveryStep = 1
    BackLimit = 2
    ExitHeading <- MCExitHeading
    Headings <- MCHeadings
    Corrections <- MCCorrections
    Slew = 2
CONSTRAINT CommandBound
INVARIANTS
    TypeOK
    CommandInRange
PROPERTIES
    NoJump
