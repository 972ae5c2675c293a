SPECIFICATION ConsoleSpec
CONSTANTS
    A = A
    D = D
    None = None
    Topics = {A, D}
    Main = {A}
    DltOf <- OneDlt
    Routed = {A}
    Partitions = {0}
    Limit = 1
    MaxHistory = 2
    Patient = FALSE
    MaxOffset = 1
    MaxRequests = 2
    MaxCalls = 3
    MaxBoth = 4
INVARIANT ConsoleTypeOK
INVARIANT SelectedIsBrowsed
INVARIANT AskedOfKnownPath
INVARIANT MissedConfigShows
INVARIANT HistoryUnique
PROPERTY BusyEnds
PROPERTY LoadingEnds
PROPERTY EveryDrainTold
\* At the bounds, with everything answered, nothing is left to do.
CHECK_DEADLOCK FALSE
