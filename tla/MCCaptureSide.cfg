SPECIFICATION SideSpec
CONSTANTS
    None = None
    MaxTime = 4
    Wait = 1
    PendingCapacity = 1
    MaxEpisodes = 2
    MaxInbox = 2
    MaxFrames = 1
    OwnerMayGo = FALSE
    Capacity = 2
    Nothing = Nothing
    RoleOrder <- MCRoles
    RigStale = 0
    RigDeadline = 1
    RigTime = 1
    RigFrames <- MCRigFrames
    Anchor = "wrist"
    ViewOrder <- MCViews
    Skew = 1
    MatchWait = 1
    MatchCapacity = 2
    Quantum = 2
    MatchTime = 2
    MatchFrames <- MCMatchFrames
    Gaps <- MCGaps
    Delays = {0, 1}
    DepthSteps <- MCDepthSteps
    Episodes = 3
    Feedback = TRUE
INVARIANTS
    WindowExact
    ConfirmedBeforeSeal
    FaultsSurface
    ArchiveTruthful
PROPERTIES
    RingsImplementSlots
    DecisionsExact
\* Behaviours end when the child or the rig has failed or closed.
CHECK_DEADLOCK FALSE
