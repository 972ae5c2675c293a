SPECIFICATION Spec
CONSTANTS
    Partitions = {p1}
    NoHeader = NoHeader
    BadHeader = BadHeader
    MinCount <- MinusOne
    AppHeaders <- Strange
    Skew = 0
    MaxTime = 2
    MaxMessages = 2
    MaxLog = 3
    MaxFaults = 2
    Pods = {a}
    Slots = {s1, s2}
    MaxCycles = 1
    BackOffAttempts = 1
    CronEnabled = FALSE
    None = None
CONSTRAINT DeficitAlone
SYMMETRY Interchangeable
INVARIANT TypeOK
INVARIANT AccountedFor
INVARIANT RoutingLoopBounded
INVARIANT DuplicatesPaidByFaults
INVARIANT PassedWithinTrigger
