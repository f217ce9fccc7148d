SPECIFICATION SideSpec
CONSTANTS
    None = None
    Nothing = None
    Fresh = 2
    Stable = 3
    Jumps <- MCJumps
    MaxSamples = 4
    LeaderCapacity = 3
    LeaderFresh = 3
    LeaderWindow = 2
    LeaderSpan = 2
    HealthEvery = 2
    HealthFresh = 4
    LeaderTime = 4
    LeaderBus = 1
    ReplyQueue = 3
    PlayDelay = FALSE
    MaxEpisodes = 2
    Ids <- MCIds
    Source = 57600
    Target = 1000000
    Poses = 2
    Dwell = 2
    Settle = 1
    Lag = 1
    ImageQueue = 2
    TraversalTime = 6
    Roles = {"left"}
    Mounts = {1, 2}
    Writers = {w1, w2}
    Solvers = {s1, s2}
    MaxFaults = 1
    MaxDeaths = 1
    MaxGap = 1
    CommandEvery = 2
    Hande = TRUE
    Stale = 2
    FeedbackQueue = 2
    LogTime = 4
    MaxTaken <- MCTaken
    MaxCommands = 4
    ObserverQueue = 2
    Phases = {1, 2}
    MaxRecords = 3
    Clients = {c1, c2}
    MaxLaunches = 3
    Processes = {"console", "calibrator"}
    Runs <- MCProgram
INVARIANTS
    HoldMeasured
    HoldGranted
    EvidenceWhole
    SessionOrdered
    JournalLocates
    EvidenceOfPose
    EvidenceKept
    LogTruthful
    ConsumersExact
    LeaseCovers
PROPERTIES
    IntentsLive
    ProgramsExclusive
\* Each part ends within its bounds.
CHECK_DEADLOCK FALSE
