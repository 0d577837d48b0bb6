SPECIFICATION Spec
CONSTANTS
    Inbound = {i1}
    Targets = {"own"}
    Out = out
    OwnEnd = own_end
    None = None
INVARIANTS
    OwnListenerIsRefused
