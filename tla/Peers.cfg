SPECIFICATION FairSpec
CONSTANTS
    Phrases = {p1, p2}
    Agreed = p1
    MaxTrouble = 2
INVARIANTS
    TypeOK
PROPERTIES
    ChannelComesUp
    NoChannelToThePast
CHECK_DEADLOCK FALSE
