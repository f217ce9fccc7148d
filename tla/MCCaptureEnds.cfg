SPECIFICATION FairSpec
CONSTANTS
    None = None
    MaxTime = 3
    Wait = 1
    PendingCapacity = 1
    MaxEpisodes = 1
    MaxInbox = 1
    MaxFrames = 2
    OwnerMayGo = TRUE
PROPERTIES
    EpisodeEnds
\* Behaviours end when the child has failed or closed.
CHECK_DEADLOCK FALSE
