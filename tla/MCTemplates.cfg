SPECIFICATION AloneSpec
CONSTANTS
    None = None
    t1 = t1
    t2 = t2
    b1 = b1
    Requests = {r1, r2, r3}
    Names = {"templates"}
    Templates = "templates"
    Keys = {t1, t2}
    Values = {b1, b2}
    MaxInflight = 3
    MayFail = TRUE
    InitialContents <- MCInitial
SYMMETRY MCSymmetry
INVARIANTS TypeOK TemplatesAreGenuine
PROPERTY IsTemplateStoreAlone
CHECK_DEADLOCK FALSE
