SPECIFICATION Spec
CONSTANTS
    Macs = {m1}
    Counts = {1}
    NoData = NoData
    Threads = {main, cb1, cb2}
    Main = main
    Handles = {h1, h2}
    NoHandle = NoHandle
    ErrorLimit = 1
    PipeCapacity = 1
    Overlap = FALSE
    Faults = {"init", "spi", "connect", "peer"}
    MaxReboots = 2
    MaxFrames = 0
    MaxLaunches = 1
INVARIANTS
    HandlesOwned
    TokenInv
SYMMETRY Symmetry
CHECK_DEADLOCK FALSE
