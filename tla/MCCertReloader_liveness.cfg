SPECIFICATION FairSpec
CONSTANTS
    h1 = h1
    h2 = h2
    Main = Main
    Handshake = {h1, h2}
    NoFailure = NoFailure
    MaxIssue = 2
    MaxStamp = 2
    MaxExpired = 0
PROPERTIES
    Answered
    RotationTakesEffect
CHECK_DEADLOCK FALSE
