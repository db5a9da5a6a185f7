SPECIFICATION Spec
CONSTANTS
    MIN_SIZE_ID = 2
    MAX_SIZE_ID = 3
    MaxPipeline = 1
    IdChars = {"a"}
    BadChar = "?"
    NUL = "0"
    TooLong = "toolong"
    Relative = "relative"
    LongestPaths = {}
    PathTypes = {"default", "data"}
    TypeNames = {"default", "data"}
    ExpDirs = {"/d", "/e"}
    ImpDirs = {"/d"}
    ImpIds <- OneId
    Permissions = {"exp", "Exp", "x"}
    ShortPermissions = {"x"}
    RawPaths = {"/d", "//d", "/e"}
    Ids <- OneId
    FoldCase <- MCFoldCase
    StdPath <- MCStdPath
    ExportPermission <- MCExportPermission
    BigItems <- MCBigItems
INVARIANTS TypeOK NeedIdExact SettingsUnique IdlessIsDefaultOnly
PROPERTIES ErrorUntilClear ImplementsAbstract
