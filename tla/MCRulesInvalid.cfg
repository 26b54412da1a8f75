SPECIFICATION CheckedSpec
CONSTANTS
    None = None
    Empty = Empty
    Mixed = Mixed
    f1 = f1
    f2 = f2
    good = good
    bad = bad
    Requests = {r1, r2}
    Files = {f1}
    Values = {good, bad}
    Valid = {good}
    Slots = {s1, s2}
    CurrentMap = "alertrules"
    VersionsMap = "alertrules-versions"
    Blank = Blank
    Names <- MCNames
    Keys <- MCKeys
    Extends <- MCNoExtends
    MaxTime = 0
    MaxBackupFiles = 1
    MaxBackupHours = 1
    Operations = {"put"}
    MaxInflight = 2
    MayFail = FALSE
    ChecksMayFail = FALSE
    InitialContents <- MCNoRules
SYMMETRY MCSymmetry
INVARIANT AcceptedIsValid
CHECK_DEADLOCK FALSE
