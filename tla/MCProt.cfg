SPECIFICATION FairSpec
CONSTANTS
    PROT_MAX_BUFFER_LENGTH = 6
    PROT_MAX_FIELDS = 2
    FS = "s"
    RS = "n"
    ESC = "e"
    Dead = "?"
    Letters = {"x"}
    Records <- MCRecords
    WireSize = 2
    MaxPending = 2
INVARIANTS TypeOK StreamIntact Transparent NeverOversize
PROPERTIES FlushEnds
