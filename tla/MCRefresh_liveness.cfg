SPECIFICATION FairSpec
CONSTANTS
    r1 = r1
    r2 = r2
    Replica = {r1, r2}
    Version <- Steady
    Service <- MCService
    File <- MCFile
    Name <- MCName
    Method <- MCMethod
    Serves <- MCServes
    Files <- MCFiles
    Deps <- MCDeps
    Build <- MCBuild
    Bounded = TRUE
    NoStream = NoStream
    Broken = Broken
    MaxDeploys = 2
    MaxFaults = 1
CHECK_DEADLOCK FALSE
PROPERTIES
    AttemptEnds
    Converges
