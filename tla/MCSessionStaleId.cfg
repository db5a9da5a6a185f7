SPECIFICATION Spec
CONSTANTS
    MIN_SIZE_ID = 2
    MAX_SIZE_ID = 4
    MaxPipeline = 1
    IdChars = {"a", "b"}
    BadChar = "?"
    NUL = "0"
    TooLong = "toolong"
    Relative = "relative"
    LongestPaths = {}
    PathTypes = {"default", "data"}
    TypeNames = {}
    ExpDirs = {}
    ImpDirs = {}
    ImpIds = {}
    Permissions = {}
    ShortPermissions = {}
    RawPaths = {}
    Ids <- TwoIds
    FoldCase <- MCFoldCase
    StdPath <- MCStdPath
    ExportPermission <- MCExportPermission
    BigItems <- MCBigItems
INVARIANTS IdWasSet
