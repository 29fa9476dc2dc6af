SPECIFICATION Spec
CONSTANTS
    Dirs <- MCDirs
    Layouts <- MCLayouts
    Calls <- MCCalls
    Matches <- MCMatches
    MaxFaults = 2
    MaxVersion = 3
INVARIANTS PatchedOnce ExpandedWhenDone
PROPERTIES VersionsGrow ReleaseIsTrue
\* The build numbers are used up.
CHECK_DEADLOCK FALSE
