SPECIFICATION FairSpec
CONSTANTS
    Threads = {t1, t2}
    Partitions = {p1}
    None = None
    Reset = "earliest"
    Limits = {0, 3}
    BatchMaxLimit = 2
    BeyondEnd = TRUE
    MaxTime = 1
    MaxLog = 2
    MaxRequests = 2
INVARIANT ExactRecord
INVARIANT BatchInOrder
PROPERTY RequestsEnd
\* The application may be shut down, and then nothing is left to do.
CHECK_DEADLOCK FALSE
