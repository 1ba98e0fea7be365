\* One SMS of two segments whose reports announce three.
CONSTANTS
    Links = {l1}
    Sms = {m1}
    Segs <- MCTwoSegs
    Total <- MCThreeAnnounced
    Sliders = {1}
    FirstSlider = 1
    HeartLimit = 1
    ResetTicks = 1
    SessionTicks = 2
    MaxFaults = 0
    MaxQueue = 1
    MaxSendTimes = 2
    AuditSwitch = FALSE
    MaxMqFaults = 0
SPECIFICATION PoolFairSpec
PROPERTIES
    SegmentsTimeOut
CHECK_DEADLOCK FALSE
