SPECIFICATION FairSpec
CONSTANTS
    Writers = {w1, w2}
    NoOne = NoOne
    Sentinel = Sentinel
    Capacity = 1
    FeedbackCapacity = 2
    Batches <- MCBatches
    MaxEntries = 3
INVARIANTS
    QueueAccounting
    PublishedComplete
    RevokedUnpublished
    SoleOwner
PROPERTIES
    WriterEnds
    ImplementsCommit
\* The system stops when both processes have ended.
CHECK_DEADLOCK FALSE
