SPECIFICATION FairSpec
CONSTANTS
    Macs = {m1}
    Counts = {1}
    NoData = NoData
    Threads = {main, cb1, cb2}
    Main = main
    Handles = {h1}
    NoHandle = NoHandle
    ErrorLimit = 1
    PipeCapacity = 1
    Overlap = FALSE
    Faults = {"connect"}
    MaxReboots = 2
    MaxFrames = 0
    MaxLaunches = 0
PROPERTIES
    Answered
    ListensAgain
