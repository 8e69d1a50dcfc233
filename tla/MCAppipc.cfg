SPECIFICATION FairSpec
CONSTANTS
    w1 = w1
    w2 = w2
    w3 = w3
    Words <- MCWords
    Nothing = Nothing
INVARIANTS
    TypeOK
PROPERTIES
    ImplementsLink
    OkWordIsHandedOver
    MailboxDrains
