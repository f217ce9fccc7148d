SPECIFICATION Spec
CONSTANTS
    QueueSize = 3
    PlayDelay = TRUE
    MaxEpisodes = 2
INVARIANT OneProgram
CHECK_DEADLOCK FALSE
