SPECIFICATION FairSpec
CONSTANTS
    Tree = Tree
    Leaf = Leaf
    Stamp = Stamp
    Number = Number
    Message = {Tree, Leaf, Stamp}
    WellKnown = {Stamp}
    Scalar = Number
    StackLimit = 4
    Declarations <- MCDeclarations
INVARIANTS
    ListsEveryName
    DemandsCanBeMet
    DepthBounded
PROPERTIES
    GenerateEnds
CHECK_DEADLOCK FALSE
