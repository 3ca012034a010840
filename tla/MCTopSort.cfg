SPECIFICATION FairSpec
CONSTANTS
    f1 = f1
    f2 = f2
    f3 = f3
    File = {f1, f2, f3}
INVARIANTS
    ImportsFirst
    EachFileOnce
    FailsForMissing
PROPERTIES
    Ends
CHECK_DEADLOCK FALSE
