SPECIFICATION Spec
CONSTANTS
    None = None
    Called = {"RestartPodsByLabel"}
    Steps = 10
    PodNames = {p1, p2, p3}
    Blocks = 20
    Bits = 3
    MaxExponent = 3
    Sizes <- DiskSizes
    Limits <- DiskLimits
    defaultMaxSize = 50
    defaultMinSize = 5
    MaxLength = 300
    JobNames <- MCJobNames
    NoName = NoName
    NoArray = NoArray
    MaxJobs = 4
    MaxArgs = 3
INVARIANT RestartDeletesAll
CHECK_DEADLOCK FALSE
