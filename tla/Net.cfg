\* Two ARP slots for five addresses, two DHCP servers, two attempts, two commands.
SPECIFICATION Spec
CONSTANTS
    ArpSize = 2
    MaxTries = 2
    XidSpace = 8
    DumpMax = 2
    MaxCmds = 2
    Commands = {"ping", "loopback", "dns", "dhcp", "tcpdump"}
    PingArgs = {"far", "n1"}
    LoopArgs = {"toolong"}
    DnsArgs = {"n1", "n2"}
    Servers = {"s1", "s2"}
    Broadcasts = {}
    MaxReplies = 2
    Halts = {"shifted", "offer_as_ack"}
INVARIANTS FramesReachNextHop DnsAnswersTheName LeaseIsConfirmed
PROPERTY CommandsEnd
CHECK_DEADLOCK FALSE
