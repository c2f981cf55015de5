SPECIFICATION FairSpec
CONSTANTS
    Mac1 = m1
    Mac2 = m2
    Other = m3
    Macs = {m1, m2, m3}
    Counts = {0, 1, 2, 3, 4, 5, 6, 7, 8, 9, 10, 11, 12, 13}
    NoData = NoData
    Threads = {main, cb1, cb2}
    Main = main
    Handles = {h1}
    NoHandle = NoHandle
    Traffic <- Heardable
    Overlaps = {TRUE, FALSE}
    Faults = {"init", "spi"}
PROPERTIES
    PlaysScript
    
