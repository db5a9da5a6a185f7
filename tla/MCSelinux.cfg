SPECIFICATION Spec
CONSTANTS
    Versions = {"v1", "v2"}
    Paths = {"d", "x"}
    PathSet <- MCPathSet
    FaultKinds <- Kinds
    MaxFaults = 2
INVARIANTS SuccessIsVerified InstallRepairs
