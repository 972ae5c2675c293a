SPECIFICATION Spec
CONSTANTS
    Topics = {A, B}
    None = None
    Partitions = {0}
    Limit = 1
    MaxHistory = 2
    Patient = FALSE
    MaxOffset = 1
    MaxRequests = 2
SYMMETRY Interchangeable
INVARIANT SentToItsTopic
