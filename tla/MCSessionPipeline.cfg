SPECIFICATION FairSpec
CONSTANTS
    MIN_SIZE_ID = 2
    MAX_SIZE_ID = 3
    MaxPipeline = 2
    IdChars = {"a"}
    BadChar = "?"
    NUL = "0"
    TooLong = "toolong"
    Relative = "relative"
    LongestPaths = {"/l"}
    PathTypes = {"default", "data"}
    TypeNames = {"data", "nosuch"}
    ExpDirs = {}
    ImpDirs = {}
    ImpIds = {}
    Permissions = {"x"}
    ShortPermissions = {"x"}
    RawPaths = {"/d", "/l", "rel", "/lll"}
    Ids <- OneId
    FoldCase <- MCFoldCase
    StdPath <- MCStdPath
    ExportPermission <- MCExportPermission
    BigItems <- MCBigItems
INVARIANTS RepliesInOrder
PROPERTIES NothingAfterViolation ViolationDisconnects
