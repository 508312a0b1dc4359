CONSTANTS
    NoName = NoName
    NsNames <- MCNsNames
    ClassNames = {"C"}
    TParamNames = {"T"}
    MaxDecls = 3
    MaxMembers = 2
    Malformed = {"nesting"}
    NotInClassish = NotInClassish
    NoFrame = NoFrame
    Missing = Missing
    ImportNames <- MCImportNames
    Aliases = {"D"}
    NoAlias = NoAlias
    GroupUseKinds = {Missing}
SPECIFICATION Spec
INVARIANTS
    NoPanic
