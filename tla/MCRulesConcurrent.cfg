SPECIFICATION CheckedSpec
CONSTANTS
    None = None
    Empty = Empty
    Mixed = Mixed
    f1 = f1
    f2 = f2
    good = good
    bad = bad
    Requests = {r1, r2}
    Files = {f1, f2}
    Values = {good, bad}
    Valid = {good}
    Slots = {s1, s2}
    CurrentMap = "alertrules"
    VersionsMap = "alertrules-versions"
    Blank = Blank
    Names <- MCNames
    Keys <- MCKeys
    Extends <- MCNoExtends
    MaxTime = 1
    MaxBackupFiles = 1
    MaxBackupHours = 1
    Operations = {"put", "delete", "get", "versions", "list"}
    MaxInflight = 2
    MayFail = TRUE
    ChecksMayFail = TRUE
    InitialContents <- MCEither
SYMMETRY MCSymmetry
INVARIANTS
    TypeOK
    ContentsAreGenuine
    VersionsAreBounded
    InForceIsValid
    UnsharedVerdictsAreRight
    FilesAreAccountedFor
PROPERTY AnswersAreTrue
CHECK_DEADLOCK FALSE
