SPECIFICATION FairSpec
CONSTANTS
    Phrases = {p1, p2}
    NoPhrase = NoPhrase
    Packets = {q1}
    None = None
    MaxEpoch = 1
    MaxSends = 0
PROPERTIES
    ImplementsFairChannel
    SocketsAreClosed
