SPECIFICATION EitherFairSpec
CONSTANTS
    Mac1 = m1
    Mac2 = m2
    Macs = {m1, m2}
    Counts = {1, 2}
    NoData = NoData
    Threads = {main, cb1, cb2}
    Main = main
    Handles = {h1}
    NoHandle = NoHandle
    ErrorLimit = 1
    PipeCapacity = 1
    Overlap = FALSE
    Faults = {}
    MaxReboots = 2
    MaxFrames = 0
    MaxLaunches = 0
    HybridTraffic <- Few
    LoraTraffic <- Many
INVARIANTS
    DbConsistent
PROPERTY
    Service
