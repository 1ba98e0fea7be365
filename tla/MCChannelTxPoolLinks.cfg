\* One short SMS and two links, one of which fails.
CONSTANTS
    Links = {l1, l2}
    Sms = {m1}
    Segs <- MCOneSeg
    Total <- MCOneSeg
    Sliders = {1}
    FirstSlider = 1
    HeartLimit = 1
    ResetTicks = 1
    SessionTicks = 2
    MaxFaults = 1
    MaxQueue = 1
    MaxSendTimes = 2
    AuditSwitch = FALSE
    MaxMqFaults = 0
SPECIFICATION PoolSpec
INVARIANTS
    PoolSeesLogin
    SmsInOnePlace
SYMMETRY Symmetry
CHECK_DEADLOCK FALSE
