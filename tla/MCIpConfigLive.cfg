SPECIFICATION LiveSpec
CONSTANTS
    eth0 = eth0
    eth1 = eth1
    Interfaces <- OneInterface
    Caps <- OneDhcp
    Given = {eth0}
    Servers = {s1}
    NoAddr = noaddr
    Own = own
    LoopTimeouts <- WithAndWithout
    BringupFirst = FALSE
    RetryCap = 2
    ErrorWait = 3
    PollMax = 3
    QueueMax = 2
    Faults = {"noid", "link", "send", "recv", "lose", "duplicate", "nak", "noise"}
    MaxFaults = 2
PROPERTIES
    Configures
    GivesUp
CHECK_DEADLOCK FALSE
