SPECIFICATION MCSpec
CONSTANTS
    Objects = {o1, o2}
    Handles = {1, 2, 3}
    Freed = Freed
    NoInfo = NoInfo
    Scalars = {1}
    Subs = {2}
    Lists = {10}
    InfoFields = {8, 9}
    MaxList = 2
    MaxEdits = 5
    Writers = {w1, w2}
    Messages <- MCMessages
    Chunks <- MCChunks
INVARIANTS
    AbsentReadsDefault
    OneOwner
    RoundTrips
    ConcatenationMerges
    LogTellsTheTruth
PROPERTY
    ImplementsValues
CHECK_DEADLOCK FALSE
