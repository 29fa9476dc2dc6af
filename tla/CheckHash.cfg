CONSTANTS
    Content <- MCContent
    Name <- MCName
    HashType <- MCHashType
    KnownType <- MCKnownType
    Skip = "#"
    Digest <- MCDigest
    Hash <- MCHash
    NoHashFile = NoHashFile
    Unchecked <- MCUnchecked
    MaxLines = 3
SPECIFICATION Spec
INVARIANTS
    AnswersExitCode
    SuccessVouched
\* The script ends.
CHECK_DEADLOCK FALSE
