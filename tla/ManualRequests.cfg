SPECIFICATION Spec
CONSTANTS
    Threads = {t1, t2}
    Partitions = {p1, p2}
    None = None
    Reset = "earliest"
    Limits = {3}
    BatchMaxLimit = 2
    BeyondEnd = FALSE
    MaxTime = 2
    MaxLog = 2
    MaxRequests = 2
CONSTRAINT FewRecords
SYMMETRY Interchangeable
INVARIANT TypeOK
INVARIANT MutualExclusion
INVARIANT BatchContiguous
INVARIANT BatchFromTime
PROPERTY ReadsOfLog
\* The application may be shut down, and then nothing is left to do.
CHECK_DEADLOCK FALSE
