\* Class heads only: `C<...>` never names a type parameter.
CONSTANTS
    Names = {"T", "U", "C"}
    TParamNames = {"T", "U"}
    GenericHeads = {"C"}
    Quals = {FALSE, TRUE}
    OuterScopes <- MCOuterScopes
    MaxTParams = 2
    NoHint = NoHint
SPECIFICATION Spec
INVARIANT ResolvedInScope
