CONSTANTS
    Names <- MCNames
    BoolAttrs = {"__Override"}
    StrParams <- MCStrParams
    ClassParams = {"K"}
    NoParam = NoParam
    MaxAttrs = 3
SPECIFICATION Spec
INVARIANTS
    AttrTypeOK
    SingleValuedFirstInSourceOrder
    IfcResolution
\* to_attributes returns once its loop is done.
CHECK_DEADLOCK FALSE
