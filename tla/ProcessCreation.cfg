SPECIFICATION Spec
CONSTANTS
    Systems = {32, 64}
    Images <- Executables
    DllLists <- Lists
    Module = 1
    Above = 3
    Free = {4, 5, 7}
    Reach = 3
INVARIANTS
    LoaderSees
    RunsOnlyPrepared
    FailureLeavesNothing
    RestoreGivesOriginal
    TableInReach
\* A call ends, and so may what follows it.
CHECK_DEADLOCK FALSE
