SPECIFICATION Spec
CONSTANTS
    None = None
    MaxTime = 4
    Wait = 1
    PendingCapacity = 1
    MaxEpisodes = 2
    MaxInbox = 2
    MaxFrames = 2
    OwnerMayGo = FALSE
INVARIANTS
    SharedBoundary
\* Behaviours end when the child has failed.
CHECK_DEADLOCK FALSE
