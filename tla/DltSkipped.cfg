SPECIFICATION Spec
CONSTANTS
    Partitions = {p1}
    NoHeader = NoHeader
    BadHeader = BadHeader
    MinCount = 0
    AppHeaders <- Unmarked
    Skew = 0
    MaxTime = 2
    MaxMessages = 2
    MaxLog = 2
    MaxFaults = 0
    Pods = {a}
    Slots = {s1, s2}
    MaxCycles = 1
    BackOffAttempts = 1
    CronEnabled = FALSE
    None = None
SYMMETRY Interchangeable
INVARIANT NothingSkipped
