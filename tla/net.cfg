SPECIFICATION FairSpec
CONSTANTS
    Macs = {m1, m2, m3}
    Mac1 = m1
    Mac2 = m2
    Mac3 = m3
    Script = script
    Counts = {0, 1, 2, 3, 4, 5, 6, 7, 8, 9, 10, 11, 12, 13}
    NoData = NoData
    ErrorLimit = 1
    Sensors <- Devices
    After <- Readings
    Networks <- Kinds
INVARIANTS
    AnswersByHistory
    ShownWasDue
    EachAcknowledged
PROPERTIES
    AcksInOrder
    SensorsServe
    Settles
CHECK_DEADLOCK FALSE
