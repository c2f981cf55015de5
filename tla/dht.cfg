SPECIFICATION Spec
CONSTANTS
    Readings <- Corners
    Timings <- Counts
INVARIANTS
    Faithful
    LossDetected
    OneBitPast
CHECK_DEADLOCK FALSE
