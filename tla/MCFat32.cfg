SPECIFICATION Spec
CONSTANTS
    MaxCluster = 5
    K = 2
    file = file
    dirA = dirA
    dirB = dirB
    Names = {file, dirA, dirB}
    Paths <- MCPaths
    SlotsOf <- MCSlotsOf
    Files <- MCFiles
    MaxData = 3
    Handles = {h}
    Faults = {"io", "crash"}
INVARIANTS
    OnDiskConsistent
    DamageConfined
    ReadsBack
PROPERTIES
    LosesOnlyTails
    ReportedIsDone
