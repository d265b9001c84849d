SPECIFICATION FairSpec
CONSTANTS
    eth0 = eth0
    eth1 = eth1
    Interfaces <- TwoInterfaces
    Caps <- TwoDhcp
    Given = {}
    Servers = {s1}
    NoAddr = noaddr
    Own = own
    LoopTimeouts <- Three
    BringupFirst = FALSE
    RetryCap = 1
    ErrorWait = 1
    PollMax = 1
    QueueMax = 2
    Faults = {}
    MaxFaults = 0
PROPERTIES
    GivesUp
CHECK_DEADLOCK FALSE
