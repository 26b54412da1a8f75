SPECIFICATION Spec
CONSTANTS
    None = None
    f1 = f1
    f2 = f2
    b1 = b1
    b2 = b2
    Requests = {r1, r2}
    Files = {f1, f2}
    Values = {b1, b2}
    CurrentMap = "alertrules"
    VersionsMap = "alertrules-versions"
    Blank = Blank
    Names <- MCNames
    Keys <- MCKeys
    Extends <- MCNoExtends
    MaxTime = 1
    MaxBackupFiles = 1
    MaxBackupHours = 1
    Operations = {"put", "delete"}
    MaxInflight = 2
    MayFail = FALSE
    InitialContents <- MCFromOneReplaced
SYMMETRY MCSymmetry
PROPERTY DeletionIsFinal
CHECK_DEADLOCK FALSE
