\* One link and two short SMS on a window of one.
CONSTANTS
    Links = {l1}
    Sms = {m1, m2}
    Segs <- MCOneSeg
    Total <- MCOneSeg
    Sliders = {1}
    FirstSlider = 1
    HeartLimit = 1
    ResetTicks = 1
    SessionTicks = 2
    MaxFaults = 1
    MaxQueue = 1
SPECIFICATION LinkFairSpec
PROPERTIES
    WindowRecovers
    SmsAnswered
CHECK_DEADLOCK FALSE
