SPECIFICATION Spec
CONSTANTS
    None = None
    MaxEpisodes = 1
    Capacity = 2
    InterruptInCompletion = TRUE
PROPERTY
    VerifiedSurvives
\* The session ends when it is closed.
CHECK_DEADLOCK FALSE
