SPECIFICATION FairSpec
CONSTANTS
    Partitions = {p1}
    NoHeader = NoHeader
    BadHeader = BadHeader
    MinCount = 0
    AppHeaders <- Unmarked
    Skew = 0
    MaxTime = 2
    MaxMessages = 2
    MaxLog = 2
    MaxFaults = 1
    Pods = {a}
    Slots = {s1}
    MaxCycles = 1
    BackOffAttempts = 1
    CronEnabled = TRUE
    None = None
PROPERTY EveryRecordPassed
PROPERTY EveryRunEnds
PROPERTY ShutdownCompletes
