SPECIFICATION FieldSpec
CONSTANTS
    SafeLimit = 8
    NarrowHalf = 2
    WideHalf = 16
    Listed <- MCListed
    Int32 <- MCInt32
    FloatMax = 2
    DoubleMax = 3
    Modulus = 32
    ScalarField <- MCField
    Text <- MCText
    Sizes = {0, 1, 2, 3, 4, 5, 6, 7, 8, 9, 10, 11, 12}
INVARIANTS
    IntegersExact
    ListedExact
    FloatsExact
    TextsFit
    DefaultFits
CHECK_DEADLOCK FALSE
