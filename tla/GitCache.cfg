CONSTANTS
    r1 = r1
    r2 = r2
    None = None
    Junk = Junk
    Rest = Rest
    Mixed = Mixed
    Cset <- MCCset
    Exists <- MCExists
    File <- MCFile
    Files <- MCFiles
    Rev <- MCRev
    Sub <- MCSub
    Damage = {"lock", "broken", "commit"}
    MaxRequests = 3
    MaxDamages = 1
    MaxFaults = 2
SPECIFICATION FairSpec
INVARIANTS
    ArchiveIsExact
    SelfHeals
PROPERTIES
    CacheIsKept
    EveryRequestEnds
\* All the requests have been served.
CHECK_DEADLOCK FALSE
