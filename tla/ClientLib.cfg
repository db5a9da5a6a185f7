SPECIFICATION FairSpec
CONSTANTS
    Settings = {"id", "path", "long"}
    TooBig = {"long"}
    Fds = {1}
    MaxFaults = 1
    MaxFlight = 2
INVARIANTS TypeOK NothingInFlight ActionAppliesAcked
PROPERTIES CallsReturn
