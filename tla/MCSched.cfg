SPECIFICATION MCFairSpec
CONSTANTS
    MaxTasks = 4
    MaxSleep = 2
INVARIANTS
    SwitchesToSavedStack
    CpuContextMatchesTask
    DeadNeverResumes
    SchedInv
PROPERTIES
    NeverFreesOwnStack
    NoDoubleOvertake
    ReadyRuns
    SleeperWakes
    DeadReaped
