CONSTANTS
    ParamNames = {"$f", "$g"}
    VarNames = {"$f", "$g"}
    Hints <- MCHints
    Contexts <- MCContexts
    OwnTParams = {"T"}
    OuterTParams = {"U"}
    MaxContexts = 2
\* rewrite_effect_polymorphism returns once its loop is done.
CHECK_DEADLOCK FALSE
SPECIFICATION Spec
INVARIANTS
    EffectTypeOK
    WellScoped
    RewriteAsSpecified
