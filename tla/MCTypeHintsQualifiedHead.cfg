\* Qualified generic heads whose last segment is an enclosing type
\* parameter: `A\T<C>` inside a method of `class X<T>`.
CONSTANTS
    Names = {"C"}
    TParamNames = {"U"}
    GenericHeads = {"T"}
    Quals = {FALSE, TRUE}
    OuterScopes <- MCOuterScopes
    MaxTParams = 1
    NoHint = NoHint
SPECIFICATION Spec
INVARIANT ResolvedInScope
