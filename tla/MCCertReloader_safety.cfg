SPECIFICATION Spec
CONSTANTS
    h1 = h1
    h2 = h2
    Main = Main
    Handshake = {h1, h2}
    NoFailure = NoFailure
    MaxIssue = 2
    MaxStamp = 3
    MaxExpired = 1
SYMMETRY Handshakes
INVARIANTS
    KeepsServing
    CacheCoherent
    Current
PROPERTIES
    NeverRegress
CHECK_DEADLOCK FALSE
