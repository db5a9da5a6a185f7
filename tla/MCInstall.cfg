SPECIFICATION Spec
CONSTANTS
    Permissions = {"p", "q"}
    Links = {"l"}
    Paths = {"d", "x"}
    PathProperty <- MCPathProperty
    TemplatePermissions = {}
    Profiles <- MCProfiles
    FaultKinds <- Kinds
    MaxFaults = 2
INVARIANTS TypeOK SuccessIsComplete FailureIsClean GrantedIsProfile  RetrySucceeds
