SPECIFICATION Spec
CONSTANTS
    Word <- Words
    Universe <- Underscored
    Chosen = {}
    OptFieldNum = 0
    OptValues = {}
INVARIANTS
    NamesUnique
CHECK_DEADLOCK FALSE
