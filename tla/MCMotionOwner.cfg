SPECIFICATION FairSpec
CONSTANTS
    Fresh = 1
    Stable = 1
    None = None
    StopTimeout = 2
    MoveTimeout = 2
    OpenTimeout = 1
    Passes <- MCPasses
    Advances <- MCAdvances
INVARIANTS
    StopEffective
    ToolRevoked
    ReleaseVerified
PROPERTIES
    SdkExclusive
    StopThenHome
    MotionEnds
CHECK_DEADLOCK FALSE
