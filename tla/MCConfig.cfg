SPECIFICATION MCSpec
CONSTANTS
    None = None
    yml = yml
    b1 = b1
    b2 = b2
    Requests = {r1, r2}
    Files = {yml}
    Values = {b1, b2, Blank}
    CurrentMap = "prometheus-config"
    VersionsMap = "prometheus-config-versions"
    Blank = Blank
    Names <- MCNames
    Keys <- MCKeys
    Extends <- MCNoExtends
    MaxTime = 2
    MaxBackupFiles = 1
    MaxBackupHours = 1
    Operations = {"get", "versions", "put"}
    MaxInflight = 2
    MayFail = TRUE
    InitialContents <- MCEither
INVARIANTS
    TypeOK
    ContentsAreGenuine
PROPERTIES
    AnswersAreTrue
    EveryRequestEnds
    IsVersionedFileAlone
    NewestVersionUndoes
CHECK_DEADLOCK FALSE
