SPECIFICATION InsistentSpec
CONSTANTS
    None = None
    MaxEpisodes = 1
    Capacity = 1
    InterruptInCompletion = FALSE
PROPERTY
    QuitEnds
\* The session ends when it is closed.
CHECK_DEADLOCK FALSE
