SPECIFICATION Spec
CONSTANTS
    Epochs = {e1, e2}
    None = None
    ServoAge = 0
    CommandAge = 0
    Watchdog = 1
    Fresh = 0
    StopTimeout = 0
    SendCapacity = 2
INVARIANTS
    MotionExpires
    StopBounded
    MotionOwned
SYMMETRY MCSymmetry
CONSTRAINT OneFull
