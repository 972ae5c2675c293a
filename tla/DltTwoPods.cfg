SPECIFICATION Spec
CONSTANTS
    Partitions = {p1}
    NoHeader = NoHeader
    BadHeader = BadHeader
    MinCount = 0
    AppHeaders <- Unmarked
    Skew = 0
    MaxTime = 2
    MaxMessages = 1
    MaxLog = 2
    MaxFaults = 1
    Pods = {a, b}
    Slots = {s1}
    MaxCycles = 2
    BackOffAttempts = 1
    CronEnabled = FALSE
    None = None
SYMMETRY Interchangeable
INVARIANT DuplicatesPaidByFaults
INVARIANT PassedWithinTrigger
PROPERTY Drains
