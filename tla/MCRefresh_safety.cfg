SPECIFICATION Spec
CONSTANTS
    r1 = r1
    r2 = r2
    Replica = {r1, r2}
    Version <- Shapes
    Service <- MCService
    File <- MCFile
    Name <- MCName
    Method <- MCMethod
    Serves <- MCServes
    Files <- MCFiles
    Deps <- MCDeps
    Build <- MCBuild
    Bounded = TRUE
    NoStream = NoStream
    Broken = Broken
    MaxDeploys = 2
    MaxFaults = 1
SYMMETRY Replicas
INVARIANTS
    TypeOK
    CountAgrees
    OneVersion
PROPERTIES
    ToolsNeverVanish
    ImplementsCatalog
CHECK_DEADLOCK FALSE
