SPECIFICATION Spec
CONSTANTS
    Macs = {m1}
    Counts = {1}
    NoData = NoData
    Threads = {main, cb1, cb2}
    Main = main
    Handles = {h1, h2}
    NoHandle = NoHandle
    ErrorLimit = 0
    PipeCapacity = 1
    Overlap = TRUE
    Faults = {}
    MaxReboots = 3
    MaxLaunches = 0
    MaxFrames = 3
INVARIANTS
    ThrowsMidSaveOnly
    RecordsKnown
SYMMETRY Symmetry
CHECK_DEADLOCK FALSE
