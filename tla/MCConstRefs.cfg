CONSTANTS
    ClassNames = {"A"}
    ValueNames = {"X", "Y"}
    None = None
    Missing = Missing
    MaxSteps = 6
SPECIFICATION Spec
INVARIANTS
    ConstRefsTypeOK
    RefsOfOwnInitializer
