\* Two short SMS compete for a window of one; the gateway may leave any submit
\* unanswered.
CONSTANTS
    Links = {l1}
    Sms = {m1, m2}
    Segs <- MCOneSeg
    Total <- MCOneSeg
    Sliders = {1}
    FirstSlider = 1
    HeartLimit = 1
    ResetTicks = 1
    SessionTicks = 2
    MaxFaults = 0
    MaxQueue = 1
    MaxSendTimes = 2
    AuditSwitch = FALSE
    MaxMqFaults = 0
SPECIFICATION PoolFairSpec
PROPERTIES
    EverySmsAnswered
CHECK_DEADLOCK FALSE
