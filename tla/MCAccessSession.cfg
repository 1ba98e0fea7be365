\* One SMS, prepaid or not, and two channels, among other SMS to the same
\* phone; one reply of redis is lost, one channel is closed.
CONSTANTS
    Sms = {m1}
    Channels = {c1, c2}
    NoChannel = none
    Group <- MCGroup
    Accounts <- MCAccounts
    GlobalLimit = 1
    ChannelLimit = 1
    MaxOverCount = 3
    MaxSelect = 1
    MaxFaults = 1
    MaxOthers = 1
    Closing = {c2}
SPECIFICATION AccessFairSpec
INVARIANTS
    AccessTypeOK
    OneCarrier
    NotForgotten
    GlobalConserved
    TokenOwned
    ChannelDayConserved
    ChargedOnce
    OneVerdict
PROPERTIES
    Settles
    ImplementsCustody
CHECK_DEADLOCK FALSE
