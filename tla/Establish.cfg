SPECIFICATION FairSpec
CONSTANTS
    Inbound = {i1, i2}
    Targets = {"nobody", "remote", "own"}
    Out = out
    OwnEnd = own_end
    None = None
INVARIANTS
    TypeOK
    ReturnedSocketIsTheWinner
    CancelWhileWaitingIsHonoured
PROPERTIES
    CallEnds
    LosersAreClosed
