SPECIFICATION Spec
CONSTANTS
    Word <- Words
    Universe <- Plain
    Chosen <- SomeChosen
    OptFieldNum = 3
    OptValues = {1, 7}
INVARIANTS
    NamesUnique
    UnexposedHasNoSay
    QualifiedForAReason
    MarkedAlone
    CallsReachWhatTheyMeant
CHECK_DEADLOCK FALSE
