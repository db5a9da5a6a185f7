SPECIFICATION FairSpec
CONSTANTS
    MAX_CLIENT_COUNT = 2
    Peers = {p1, p2, p3}
    None = None
    ShutOff = 1
    MaxTempo = 2
    MaxUnread = 1
    Faults = TRUE
INVARIANTS TypeOK ListensIffRoom OnePlace TimeoutIsQuiet
PROPERTIES RequestsRead ConnectionsAccepted StopsWhenQuiet
