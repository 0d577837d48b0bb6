SPECIFICATION Spec
CONSTANTS
    Inbound = {i1}
    Targets = {"nobody", "remote"}
    Out = out
    OwnEnd = own_end
    None = None
INVARIANTS
    CancelIsHonoured
