\* One short SMS; the channel is deleted while the SMS waits.
CONSTANTS
    Links = {l1}
    Sms = {m1}
    Segs <- MCOneSeg
    Total <- MCOneSeg
    Sliders = {1}
    FirstSlider = 1
    HeartLimit = 1
    ResetTicks = 1
    SessionTicks = 2
    MaxFaults = 0
    MaxQueue = 1
    MaxSendTimes = 2
    AuditSwitch = FALSE
    MaxMqFaults = 0
SPECIFICATION PoolSpec
PROPERTIES
    QueuedSmsRebacked
CHECK_DEADLOCK FALSE
