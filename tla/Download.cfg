CONSTANTS
    host = host
    target = target
    crate = crate
    Content <- MCContent
    Name <- MCName
    HashType <- MCHashType
    KnownType <- MCKnownType
    Skip = "#"
    Digest <- MCDigest
    Hash <- MCHash
    NoHashFile = NoHashFile
    Unchecked = {}
    Request <- MCRequest
    FileOf <- MCFileOf
    HashFileOf <- MCHashFileOf
    OldDl <- MCOldDl
    Cut = "cut"
    NoFile = NoFile
    Uri <- MCUri
    PrimarySite <- MCPrimarySite
    PrimaryOnly = FALSE
    Site <- MCSite
    BackupSite <- MCBackupSite
    Serves <- MCServes
    PostProcess <- MCPostProcess
    Post <- MCPost
    LocalFaults = TRUE
    Free = Free
    MaxKills = 1
    MaxAsks = 1
SPECIFICATION FairSpec
INVARIANTS
    ExtractSound
    DlDirUncluttered
    GoodUriSucceeds
PROPERTIES
    Implements
    EveryRequestEnds
\* Every request has been served and extracted.
CHECK_DEADLOCK FALSE
