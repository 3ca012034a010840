SPECIFICATION System
CONSTANTS
    c1 = c1
    c2 = c2
    user = user
    alice = alice
    bob = bob
    secret = secret
    v1 = v1
    Call = {c1, c2}
    Header <- MCHeader
    Value = {alice, bob, secret, v1, Token, Empty}
    Empty = Empty
    Identity = Identity
    Flags = Flags
    NoMap = NoMap
    Offered <- MCOffered
    Inbound <- MCInbound
    Command <- MCCommand
    Auth = Auth
    Token = Token
    Origin = Origin
    ProtocolVersion = ProtocolVersion
    Supported = {v1}
SYMMETRY Slots
INVARIANTS
    Attributed
    OperatorWins
    KeptOut
PROPERTIES
    ImplementsToolCalls
CHECK_DEADLOCK FALSE
