CONSTANTS
    NoName = NoName
    NsNames <- MCNsNames
    ClassNames = {"C"}
    TParamNames = {"T"}
    MaxDecls = 3
    MaxMembers = 2
    Malformed = {"nesting", "alias", "paramhint", "noname"}
    NotInClassish = NotInClassish
    NoFrame = NoFrame
    Missing = Missing
    ImportNames <- MCImportNames
    Aliases = {"D"}
    NoAlias = NoAlias
    GroupUseKinds = {Missing}
SPECIFICATION Spec
INVARIANTS
    TypeOK
    NestingEquivalence
    DeclaredInSourceNamespace
    WellFormedTypeRefs
    WellFormedMembers
PROPERTY
    NamespaceScopeRefined
