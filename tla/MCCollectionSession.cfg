SPECIFICATION Spec
CONSTANTS
    None = None
    MaxEpisodes = 2
    Capacity = 2
    InterruptInCompletion = FALSE
INVARIANTS
    OutcomeTruthful
    ProtocolRespected
    StillWhileSealing
    MotionAuthorized
PROPERTIES
    VerifiedSurvives
\* The session ends when it is closed.
CHECK_DEADLOCK FALSE
