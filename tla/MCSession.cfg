SPECIFICATION Spec
CONSTANTS
    Phrases = {p1, p2}
    NoPhrase = NoPhrase
    Packets = {q1, q2}
    None = None
    MaxEpoch = 1
    MaxSends = 1
SYMMETRY Symmetry
INVARIANTS
    TypeOK
    OneRole
    ChannelIsOfThisSession
    ArchiveKeyIsSessionKey
    OneAttemptPerEpoch
    PendingHasOutcome
    WindowsInOrder
    VerifiedHasReader
