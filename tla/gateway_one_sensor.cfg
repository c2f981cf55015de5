SPECIFICATION Spec
CONSTANTS
    Macs = {m1}
    Counts = {1, 2}
    NoData = NoData
    Threads = {main, cb1, cb2}
    Main = main
    Handles = {h1, h2}
    NoHandle = NoHandle
    ErrorLimit = 5
    PipeCapacity = 1
    Overlap = FALSE
    Faults = {}
    MaxReboots = 2
    MaxFrames = 0
    MaxLaunches = 0
INVARIANTS
    TypeOK
    OneDriver
    NeverDeaf
    ReplyMatches
    RecordsHonest
    RebootsAddUp
SYMMETRY Symmetry
