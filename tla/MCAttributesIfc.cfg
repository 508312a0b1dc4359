CONSTANTS
    Names <- MCNames
    BoolAttrs = {"__Override"}
    StrParams <- MCStrParams
    ClassParams = {"K"}
    NoParam = NoParam
    MaxAttrs = 3
SPECIFICATION Spec
INVARIANTS
    IfcFirstSeenWins
CHECK_DEADLOCK FALSE
