SPECIFICATION Spec
CONSTANTS
    Topics = {A, B}
    None = None
    Partitions = {0, 1}
    Limit = 2
    MaxHistory = 2
    Patient = TRUE
    MaxOffset = 2
    MaxRequests = 3
SYMMETRY Interchangeable
INVARIANT TypeOK
INVARIANT RowsUnique
INVARIANT SentToItsTopic
INVARIANT DiffOfEditor
INVARIANT AnswerClosesItsEditor
INVARIANT FlagsTellRequests
INVARIANT HistoryBrowsed
