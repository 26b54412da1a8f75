SPECIFICATION MCSpec
CONSTANTS
    None = None
    yml = yml
    b1 = b1
    b2 = b2
    Requests = {r1}
    Files = {yml}
    Values = {b1, b2, Blank}
    CurrentMap = "prometheus-config"
    VersionsMap = "prometheus-config-versions"
    Blank = Blank
    Names <- MCNames
    Keys <- MCKeys
    Extends <- MCNoExtends
    MaxTime = 1
    MaxBackupFiles = 1
    MaxBackupHours = 1
    Operations = {"put"}
    MaxInflight = 1
    MayFail = FALSE
    InitialContents <- MCEmpty
PROPERTY PutTakesEffect
CHECK_DEADLOCK FALSE
