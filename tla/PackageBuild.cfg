CONSTANTS
    app = app
    lib = lib
    tool = tool
    Package <- MCPackage
    Order <- MCOrder
    Kinds <- MCKinds
    Deps <- MCDeps
    Override = {lib, tool}
    BadArch = {app}
    Editable = {lib}
    MaxJobs = 2
    MaxRuns = 2
    MaxEdits = 1
    MaxFaults = 1
SPECIFICATION MCSpec
INVARIANTS
    DependenciesQuiet
    TreeIsClosure
    ListsOwnFiles
    AllMeansAll
PROPERTIES
    SerialRebuildIsFresh
    EveryRunEnds
\* The user has run make MaxRuns times.
CHECK_DEADLOCK FALSE
