SPECIFICATION Spec
CONSTANTS
    Names = {"x", "y"}
    MaxLength = 7
    Size = 5
    NUL = "0"
    Dead = "?"
INVARIANTS TypeOK AbsoluteIsStandard FitsWhenShort
