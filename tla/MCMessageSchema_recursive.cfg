SPECIFICATION Spec
CONSTANTS
    Tree = Tree
    Leaf = Leaf
    Stamp = Stamp
    Number = Number
    Message = {Tree, Leaf, Stamp}
    WellKnown = {Stamp}
    Scalar = Number
    StackLimit = 4
    Declarations <- MCDeclarations
INVARIANTS
    NeverCrashes
CHECK_DEADLOCK FALSE
