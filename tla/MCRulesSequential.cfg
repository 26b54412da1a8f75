SPECIFICATION Spec
CONSTANTS
    None = None
    f1 = f1
    f2 = f2
    b1 = b1
    b2 = b2
    Requests = {r1, r2}
    Files = {f1, f2}
    Values = {b1, b2}
    CurrentMap = "alertrules"
    VersionsMap = "alertrules-versions"
    Blank = Blank
    Names <- MCNames
    Keys <- MCKeys
    Extends <- MCNoExtends
    MaxTime = 2
    MaxBackupFiles = 2
    MaxBackupHours = 1
    Operations = {"put", "delete", "get", "versions", "list"}
    MaxInflight = 1
    MayFail = TRUE
    InitialContents <- MCFromAny
SYMMETRY MCSymmetry
PROPERTIES
    AnswersHoldNow
    AreVersionedFiles
    VersionsLeaveOnlyByPolicy
    OnlyOwnFileChanges
CHECK_DEADLOCK FALSE
