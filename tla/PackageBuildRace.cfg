CONSTANTS
    app = app
    lib = lib
    tool = tool
    Package <- MCPackage
    Order <- MCOrder
    Kinds <- MCKinds
    Deps <- MCDeps
    Override = {lib, tool}
    BadArch = {}
    Editable = {lib}
    MaxJobs = 2
    MaxRuns = 2
    MaxEdits = 1
    MaxFaults = 1
SPECIFICATION MCSpec
PROPERTY
    RebuildIsFresh
CHECK_DEADLOCK FALSE
