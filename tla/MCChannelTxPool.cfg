\* Two short SMS on one link with a window of one; the audit switched on, one
\* gateway fault, one consumer fault, the deletion of the channel.
CONSTANTS
    Links = {l1}
    Sms = {m1, m2}
    Segs <- MCOneSeg
    Total <- MCOneSeg
    Sliders = {1}
    FirstSlider = 1
    HeartLimit = 1
    ResetTicks = 1
    SessionTicks = 2
    MaxFaults = 1
    MaxQueue = 1
    MaxSendTimes = 2
    AuditSwitch = TRUE
    MaxMqFaults = 1
SPECIFICATION PoolSpec
INVARIANTS
    PoolTypeOK
    SmsInOnePlace
    SessionsMatch
PROPERTIES
    ImplementsDelivery
SYMMETRY Symmetry
CHECK_DEADLOCK FALSE
