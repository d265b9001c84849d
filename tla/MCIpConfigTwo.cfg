SPECIFICATION Spec
CONSTANTS
    eth0 = eth0
    eth1 = eth1
    Interfaces <- TwoInterfaces
    Caps <- DhcpAndBootp
    Given = {}
    Servers = {s1, s2}
    NoAddr = noaddr
    Own = own
    LoopTimeouts <- Without
    BringupFirst = FALSE
    RetryCap = 1
    ErrorWait = 1
    PollMax = 1
    QueueMax = 1
    Faults = {"setup", "nobroadcast", "link", "send", "recv", "lose", "duplicate", "nak", "noise"}
    MaxFaults = 1
INVARIANTS
    OnlyGrantedAddresses
    ConfiguredOnce
    RequestsOfferedAddress
    WaitsForAll
CHECK_DEADLOCK FALSE
