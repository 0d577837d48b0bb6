SPECIFICATION FairSpec
CONSTANTS
    Keys = {k1, k2}
    None = None
    MaxData = 1
INVARIANTS
    TypeOK
    VerdictIsRight
    StreamInStep
PROPERTIES
    OutcomeIsPosted
    NoOneSidedChannel
    VerdictIsMutual
