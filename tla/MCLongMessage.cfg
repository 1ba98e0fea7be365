\* Three submits of a message of two or three parts to two c2s processes; one
\* redis command fails.
CONSTANTS
    Submits = {1, 2, 3}
    Nodes = {n1, n2}
    Nobody = none
    Messages <- MCMessages
    MaxFaults = 1
SPECIFICATION LongFairSpec
INVARIANTS
    LongTypeOK
    MergedWhole
    PartVerdict
    PartNotForgotten
    KeyExpiresSometime
PROPERTIES
    PartsEnd
    PollingEnds
CHECK_DEADLOCK FALSE
