SPECIFICATION Spec
CONSTANTS
    Phrases = {p1}
    NoPhrase = NoPhrase
    Packets = {q1}
    None = None
    MaxEpoch = 1
    MaxSends = 1
INVARIANTS
    SendOnlyWhenReady
