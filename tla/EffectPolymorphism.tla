------------------------- MODULE EffectPolymorphism -------------------------
(***************************************************************************)
(* rewrite_effect_polymorphism of direct_decl_smart_constructors.rs: the   *)
(* pass that turns the parameter-dependent contexts of one function        *)
(* signature (`ctx $f`, `$g::C`, `T::C`) into type parameters and where-   *)
(* constraints.  The loop over the contexts is modelled step by step,      *)
(* since each step reads the type parameters and parameter types the       *)
(* earlier steps wrote.                                                    *)
(*                                                                         *)
(* Data: a type is a record [k, name, of] where `of` holds the inner types *)
(* (a function type holds its capability, or nothing for the default      *)
(* capability).  Positions, reasons, variance and the rest of a function   *)
(* type are left out: the pass copies them.  A name that starts with '$'   *)
(* is one of VarNames.                                                     *)
(***************************************************************************)
EXTENDS Naturals, Sequences, SequencesExt

CONSTANTS
    ParamNames,    \* the named parameters of the signature
    VarNames,      \* names that start with '$' (ParamNames and others)
    Hints,         \* parameter type hints
    Contexts,      \* entries of the capability intersection
    OwnTParams,    \* type parameters the function may declare
    OuterTParams,  \* type parameters of the enclosing class
    MaxContexts    \* bound on the length of the capability list

Apply(n) == [k |-> "apply", name |-> n, of |-> <<>>]
Generic(n) == [k |-> "generic", name |-> n, of |-> <<>>]
Fun(cap) == [k |-> "fun", name |-> "", of |-> cap]
Option(t) == [k |-> "option", name |-> "", of |-> <<t>>]
Like(t) == [k |-> "like", name |-> "", of |-> <<t>>]
Access(t, c) == [k |-> "access", name |-> c, of |-> <<t>>]
TParam(n, cons) == [name |-> n, cons |-> cons]

\* The generated names (format! in ctx_generic_for_fun and friends).
CtxGenericForFun(p) == "T/[ctx " \o p \o "]"
CtxGenericForDependent(p, c) == "T/[" \o p \o "::" \o c \o "]"

RECURSIVE CtxGenericForGenericTaccessInner(_, _)
CtxGenericForGenericTaccessInner(t, c) ==
    (IF t.k = "generic" THEN t.name
     ELSE CtxGenericForGenericTaccessInner(t.of[1], t.name)) \o "::" \o c

CtxGenericForGenericTaccess(t, c) ==
    "T/[" \o CtxGenericForGenericTaccessInner(t, c) \o "]"

RECURSIVE TaccessRootIsGeneric(_)
TaccessRootIsGeneric(t) ==
    \/ t.k = "generic"
    \/ t.k = "access" /\ TaccessRootIsGeneric(t.of[1])

\* The three arms of the loop's match, in the order the code tries them.
IsFunCtx(c) == c.k = "apply" /\ c.name \in VarNames
IsArgCtx(c) == c.k = "access" /\ c.of[1].k = "apply"
IsGenericTaccess(c) ==
    c.k = "access" /\ ~IsArgCtx(c) /\ TaccessRootIsGeneric(c.of[1])

HasPolymorphicContext(cs) ==
    \E i \in DOMAIN cs :
        \/ IsFunCtx(cs[i])
        \/ IsArgCtx(cs[i]) /\ cs[i].of[1].name \in VarNames
        \/ IsGenericTaccess(cs[i])

TParamNames(tps) == {tps[i].name : i \in DOMAIN tps}

\* Mutant: the Tlike arm of the hint match is missing.
TargetNoLike(ty) == IF ty.k = "option" THEN ty.of[1] ELSE ty

\* The type a context rewrites inside a parameter's hint: under `~?`, `~`
\* or `?`, else the hint itself.
Target(ty) ==
    CASE ty.k = "like" /\ ty.of[1].k = "option" -> ty.of[1].of[1]
      [] ty.k \in {"like", "option"}             -> ty.of[1]
      [] OTHER                                   -> ty

\* The hint with its target replaced by t.
Rewrap(ty, t) ==
    CASE ty.k = "like" /\ ty.of[1].k = "option" -> Like(Option(t))
      [] ty.k = "like"                           -> Like(t)
      [] ty.k = "option"                         -> Option(t)
      [] OTHER                                   -> t

\* rewrite_fun_ctx: `(function ..[_]: t) $f` gets capability T/[ctx $f].
RewriteFunCtx(tps, ty, p) ==
    IF /\ ty.k = "fun"
       /\ ty.of # <<>>
       /\ ty.of[1].k = "apply" /\ ty.of[1].name = "_"
    THEN [ty  |-> Fun(<<Generic(CtxGenericForFun(p))>>),
          tps |-> Append(tps, TParam(CtxGenericForFun(p), <<>>))]
    ELSE [ty |-> ty, tps |-> tps]

\* Mutant: a fresh T/$g even when the hint is a type parameter.
RewriteArgCtxAlways(tps, whs, ty, p, c) ==
    LET rty == Generic("T/" \o p)
        tps1 == Append(tps, TParam("T/" \o p, <<<<"as", ty>>>>))
    IN [ty  |-> rty,
        tps |-> Append(tps1, TParam(CtxGenericForDependent(p, c), <<>>)),
        whs |-> Append(whs, [left  |-> Generic(CtxGenericForDependent(p, c)),
                             kind  |-> "eq",
                             right |-> Access(rty, c)])]

\* rewrite_arg_ctx: `G $g` becomes `T/$g $g` with `T/$g as G`, unless the
\* hint is already a type parameter; then T/[$g::C] = <hint>::C.
RewriteArgCtx(tps, whs, ty, p, c) ==
    LET keep == ty.k = "generic" /\ ty.name \in TParamNames(tps)
        rty == IF keep THEN ty ELSE Generic("T/" \o p)
        tps1 == IF keep THEN tps
                ELSE Append(tps, TParam("T/" \o p, <<<<"as", ty>>>>))
    IN [ty  |-> rty,
        tps |-> Append(tps1, TParam(CtxGenericForDependent(p, c), <<>>)),
        whs |-> Append(whs, [left  |-> Generic(CtxGenericForDependent(p, c)),
                             kind  |-> "eq",
                             right |-> Access(rty, c)])]

\* The rewritten capability entry (the map over context_tys).
RewriteContext(t) ==
    CASE IsFunCtx(t)                               -> Generic(CtxGenericForFun(t.name))
      [] IsArgCtx(t) /\ t.of[1].name \in VarNames ->
             Generic(CtxGenericForDependent(t.of[1].name, t.name))
      [] IsGenericTaccess(t)                       ->
             Generic(CtxGenericForGenericTaccess(t.of[1], t.name))
      [] OTHER                                     -> t

(* A signature: the parameters' hints, the declared type parameters (no   *)
(* constraints) and the capability list; it has no where-constraints.     *)
Signatures ==
    [params : [ParamNames -> Hints],
     tparams : {<<>>} \cup {<<TParam(t, <<>>)>> : t \in OwnTParams},
     ctxs : BoundedSeq(Contexts, MaxContexts)]

VARIABLES
    sig,          \* the signature given to the pass
    pc,           \* "start", "loop" or "done"
    k,            \* loop cursor into sig.ctxs
    tparams,      \* the tparams Vec
    wheres,       \* the where_constraints Vec
    tyByParam,    \* ty_by_param
    params,       \* the parameter hints returned
    caps          \* the capability list returned

vars == <<sig, pc, k, tparams, wheres, tyByParam, params, caps>>

Init ==
    /\ sig \in Signatures
    /\ pc = "start"
    /\ k = 1
    /\ tparams = sig.tparams
    /\ wheres = <<>>
    /\ tyByParam = sig.params
    /\ params = sig.params
    /\ caps = sig.ctxs

\* No polymorphic context: the signature is returned as it is.
EarlyReturn ==
    /\ pc = "start"
    /\ ~HasPolymorphicContext(sig.ctxs)
    /\ pc' = "done"
    /\ UNCHANGED <<sig, k, tparams, wheres, tyByParam, params, caps>>

BeginRewrite ==
    /\ pc = "start"
    /\ HasPolymorphicContext(sig.ctxs)
    /\ pc' = "loop"
    /\ UNCHANGED <<sig, k, tparams, wheres, tyByParam, params, caps>>

\* `ctx $f`: rewrite $f's function hint, if there is a parameter $f.
FunCtxStep(c) ==
    /\ IsFunCtx(c)
    /\ IF c.name \in DOMAIN tyByParam
       THEN LET r == RewriteFunCtx(tparams, Target(tyByParam[c.name]), c.name)
            IN /\ tyByParam' = [tyByParam EXCEPT ![c.name] = Rewrap(@, r.ty)]
               /\ tparams' = r.tps
       ELSE UNCHANGED <<tyByParam, tparams>>
    /\ UNCHANGED wheres

\* `$g::C` (any Tapply root): rewrite $g's hint, if there is a parameter $g.
ArgCtxStep(c) ==
    /\ IsArgCtx(c)
    /\ LET p == c.of[1].name IN
       IF p \in DOMAIN tyByParam
       THEN LET r == RewriteArgCtx(tparams, wheres, Target(tyByParam[p]), p, c.name)
            IN /\ tyByParam' = [tyByParam EXCEPT ![p] = Rewrap(@, r.ty)]
               /\ tparams' = r.tps
               /\ wheres' = r.whs
       ELSE UNCHANGED <<tyByParam, tparams, wheres>>

\* Mutant: the sides of the where-constraint swapped.
GenericTaccessStepSwapped(c) ==
    LET n == CtxGenericForGenericTaccess(c.of[1], c.name) IN
    /\ IsGenericTaccess(c)
    /\ tparams' = Append(tparams, TParam(n, <<>>))
    /\ wheres' = Append(wheres, [left |-> c, kind |-> "eq", right |-> Generic(n)])
    /\ UNCHANGED tyByParam

\* `T::C` with a generic root: T/[T::C] with T/[T::C] = T::C.
GenericTaccessStep(c) ==
    LET n == CtxGenericForGenericTaccess(c.of[1], c.name) IN
    /\ IsGenericTaccess(c)
    /\ tparams' = Append(tparams, TParam(n, <<>>))
    /\ wheres' = Append(wheres, [left |-> Generic(n), kind |-> "eq", right |-> c])
    /\ UNCHANGED tyByParam

OtherContextStep(c) ==
    /\ ~IsFunCtx(c) /\ ~IsArgCtx(c) /\ ~IsGenericTaccess(c)
    /\ UNCHANGED <<tyByParam, tparams, wheres>>

Step ==
    /\ pc = "loop"
    /\ k <= Len(sig.ctxs)
    /\ \/ FunCtxStep(sig.ctxs[k])
       \/ ArgCtxStep(sig.ctxs[k])
       \/ GenericTaccessStep(sig.ctxs[k])
       \/ OtherContextStep(sig.ctxs[k])
    /\ k' = k + 1
    /\ UNCHANGED <<sig, pc, params, caps>>

\* The parameters take their ty_by_param hints; every context entry is
\* rewritten by its form alone.
Finish ==
    /\ pc = "loop"
    /\ k > Len(sig.ctxs)
    /\ pc' = "done"
    /\ params' = tyByParam
    /\ caps' = [i \in DOMAIN sig.ctxs |-> RewriteContext(sig.ctxs[i])]
    /\ UNCHANGED <<sig, k, tparams, wheres, tyByParam>>

Next == EarlyReturn \/ BeginRewrite \/ Step \/ Finish

Spec == Init /\ [][Next]_vars

-----------------------------------------------------------------------------
(* The generic names a type mentions. *)
RECURSIVE GenericsIn(_)
GenericsIn(t) ==
    (IF t.k = "generic" THEN {t.name} ELSE {})
        \cup UNION {GenericsIn(t.of[i]) : i \in DOMAIN t.of}

(* A hint's declared type, below its `?` and `~` wrappers, and the hint   *)
(* with that type replaced by t.                                         *)
RECURSIVE DeclaredType(_)
DeclaredType(ty) ==
    IF ty.k \in {"option", "like"} THEN DeclaredType(ty.of[1]) ELSE ty

RECURSIVE WithDeclaredType(_, _)
WithDeclaredType(ty, t) ==
    IF ty.k \in {"option", "like"}
    THEN [ty EXCEPT !.of = <<WithDeclaredType(ty.of[1], t)>>]
    ELSE t

(* Signatures the type checker accepts: every generic is in scope, `ctx  *)
(* $f` names a parameter whose declared type is a function with          *)
(* capability `[_]`, and `$g::C` names a parameter of non-function         *)
(* type.  The pass also runs on the others, before type checking.        *)
Accepted(s) ==
    LET inScope == TParamNames(s.tparams) \cup OuterTParams IN
    /\ \A p \in ParamNames : GenericsIn(s.params[p]) \subseteq inScope
    /\ \A i \in DOMAIN s.ctxs :
         LET c == s.ctxs[i] IN
         /\ GenericsIn(c) \subseteq inScope
         /\ IsFunCtx(c) =>
              /\ c.name \in ParamNames
              /\ DeclaredType(s.params[c.name]) = Fun(<<Apply("_")>>)
         /\ IsArgCtx(c) /\ c.of[1].name \in VarNames =>
              /\ c.of[1].name \in ParamNames
              /\ DeclaredType(s.params[c.of[1].name]).k # "fun"

(* The reference rewrite, read from the three patterns of the pass's     *)
(* description: (a) `ctx $p`, (b) `$p::C`, (c) a projection off a type   *)
(* parameter.  A parameter's "declared type" is its hint below the `?`   *)
(* and `~` wrappers, and "already a generic parameter" means a type      *)
(* parameter of this function (the code's comment on rewrite_arg_ctx).  *)
SpecFunCtxParams(s) == {p \in ParamNames : Apply(p) \in Range(s.ctxs)}

SpecDeps(s) ==
    {d \in ParamNames \X {c.name : c \in Range(s.ctxs)} :
        Access(Apply(d[1]), d[2]) \in Range(s.ctxs)}

SpecProjections(s) ==
    {c \in Range(s.ctxs) : c.k = "access" /\ TaccessRootIsGeneric(c.of[1])}

SpecFresh(s) ==
    {d[1] : d \in SpecDeps(s)} \
        {p \in ParamNames : DeclaredType(s.params[p]).k = "generic"
                            /\ DeclaredType(s.params[p]).name \in TParamNames(s.tparams)}

SpecHandle(s, p) ==
    IF p \in SpecFresh(s) THEN Generic("T/" \o p) ELSE DeclaredType(s.params[p])

SpecParams(s) ==
    [p \in ParamNames |->
        CASE p \in SpecFunCtxParams(s) ->
                 WithDeclaredType(s.params[p], Fun(<<Generic(CtxGenericForFun(p))>>))
          [] p \in SpecFresh(s) -> WithDeclaredType(s.params[p], Generic("T/" \o p))
          [] OTHER -> s.params[p]]

ProjectionName(c) == CtxGenericForGenericTaccess(c.of[1], c.name)

SpecTParams(s) ==
    Range(s.tparams)
    \cup {TParam(CtxGenericForFun(p), <<>>) : p \in SpecFunCtxParams(s)}
    \cup {TParam("T/" \o p, <<<<"as", DeclaredType(s.params[p])>>>>) : p \in SpecFresh(s)}
    \cup {TParam(CtxGenericForDependent(d[1], d[2]), <<>>) : d \in SpecDeps(s)}
    \cup {TParam(ProjectionName(c), <<>>) : c \in SpecProjections(s)}

SpecWheres(s) ==
    {[left |-> Generic(CtxGenericForDependent(d[1], d[2])), kind |-> "eq",
      right |-> Access(SpecHandle(s, d[1]), d[2])] : d \in SpecDeps(s)}
    \cup {[left |-> Generic(ProjectionName(c)), kind |-> "eq", right |-> c] :
            c \in SpecProjections(s)}

SpecCaps(s) ==
    [i \in DOMAIN s.ctxs |->
        LET c == s.ctxs[i] IN
        CASE c \in {Apply(p) : p \in SpecFunCtxParams(s)} ->
                 Generic(CtxGenericForFun(c.name))
          [] c \in {Access(Apply(d[1]), d[2]) : d \in SpecDeps(s)} ->
                 Generic(CtxGenericForDependent(c.of[1].name, c.name))
          [] c \in SpecProjections(s) -> Generic(ProjectionName(c))
          [] OTHER -> c]

(* Type invariant. *)
EffectTypeOK ==
    /\ sig \in Signatures
    /\ pc \in {"start", "loop", "done"}
    /\ k \in 1..(MaxContexts + 1)
    /\ DOMAIN tyByParam = ParamNames /\ DOMAIN params = ParamNames
    /\ Len(caps) = Len(sig.ctxs)
    /\ Len(tparams) <= Len(sig.tparams) + 2 * Len(sig.ctxs)
    /\ \A i \in DOMAIN tparams :
          Len(tparams[i].cons) <= 1 /\ \A j \in DOMAIN tparams[i].cons : tparams[i].cons[j][1] = "as"
    /\ \A i \in DOMAIN wheres : wheres[i].kind = "eq" /\ wheres[i].left.k = "generic"

(* On an accepted signature, every generic the rewritten signature        *)
(* mentions (in a parameter hint, a capability entry, a where-constraint *)
(* or a bound) is declared: the final map over context_tys renames every *)
(* parameter-dependent entry by its form alone, while the loop rewrites  *)
(* the parameter and pushes the type parameter only when the hint has the *)
(* shape it matches.                                                      *)
WellScoped ==
    pc = "done" /\ Accepted(sig) =>
        LET scope == TParamNames(tparams) \cup OuterTParams IN
        /\ \A p \in ParamNames : GenericsIn(params[p]) \subseteq scope
        /\ \A i \in DOMAIN caps : GenericsIn(caps[i]) \subseteq scope
        /\ \A i \in DOMAIN wheres :
              GenericsIn(wheres[i].left) \cup GenericsIn(wheres[i].right) \subseteq scope
        /\ \A i \in DOMAIN tparams : \A j \in DOMAIN tparams[i].cons :
              GenericsIn(tparams[i].cons[j][2]) \subseteq scope

(* On an accepted signature, the loop's result (type parameters and      *)
(* where-constraints as sets, parameter hints, capability list) is the   *)
(* reference rewrite; in particular a signature without a parameter-     *)
(* dependent context comes back unchanged, and several contexts on one   *)
(* parameter share its T/$g.                                              *)
RewriteAsSpecified ==
    pc = "done" /\ Accepted(sig) =>
        /\ params = SpecParams(sig)
        /\ Range(tparams) = SpecTParams(sig)
        /\ Range(wheres) = SpecWheres(sig)
        /\ caps = SpecCaps(sig)
=============================================================================
