------------------------------ MODULE TypeHints ------------------------------
(***************************************************************************)
(* How direct_decl_smart_constructors.rs decides whether a name in a type  *)
(* hint is a type parameter (Tgeneric) or a class (Tapply).  A hint is     *)
(* reduced bottom-up, against the type_parameters stack of that moment, by *)
(* make_simple_type_specifier, make_generic_type_specifier,                *)
(* make_nullable_type_specifier and make_tuple_type_specifier; node_to_ty  *)
(* turns a bare name node into a type later, when its consumer asks.  The  *)
(* constraints of a type-parameter list are reduced before                 *)
(* make_type_parameters pushes the list's names, so it converts each of    *)
(* them again with convert_tapply_to_tgeneric against the pushed stack.    *)
(*                                                                         *)
(* Data: a written name is a member of Names, bare (`T`) or qualified      *)
(* (`A\T` or `\T`).  Elaboration prefixes a namespace, which the code      *)
(* strips again with rsplit('\\'), so an elaborated id keeps only its last *)
(* segment and whether it was written qualified.  A source span holds a    *)
(* backslash exactly when some name in it was written qualified.           *)
(***************************************************************************)
EXTENDS Naturals, Sequences, SequencesExt

CONSTANTS
    Names,          \* names written in hints (type parameters and classes)
    TParamNames,    \* the names a type-parameter list may declare
    GenericHeads,   \* names written as the head of `Head<...>`
    OuterScopes,    \* type_parameters stacks a declaration may start in
    Quals,          \* the ways a name is written: FALSE bare, TRUE qualified
    MaxTParams,     \* bound on the length of a type-parameter list
    NoHint          \* a type parameter without constraint

VARIABLES
    stack,          \* type_parameters: a sequence of sets of names
    tparams,        \* the list being parsed: [name, constraint hint]
    reduced,        \* the constraint nodes reduced so far
    made,           \* the constraint types make_type_parameters built
    hint,           \* the parameter hint reduced in the list's scope
    hintTy,         \* the type node_to_ty gave it
    pc              \* "constraints", "body" or "done"

vars == <<stack, tparams, reduced, made, hint, hintTy, pc>>

-----------------------------------------------------------------------------
(* Hints as written.                                                       *)
Prim == [f |-> "prim"]
NameHint(n, q) == [f |-> "name", n |-> n, q |-> q]
GenericHint(n, q, args) == [f |-> "generic", n |-> n, q |-> q, args |-> args]
OptionHint(h) == [f |-> "option", of |-> h]
TupleHint(hs) == [f |-> "tuple", items |-> hs]
LikeHint(h) == [f |-> "like", of |-> h]
\* `(function(p): r)`, or `(function(p...): r)` when variadic.
ClosureHint(p, v, r) == [f |-> "closure", param |-> p, variadic |-> v, ret |-> r]
ShapeHint(h) == [f |-> "shape", field |-> h]          \* shape('a' => h)
VarrayHint(h) == [f |-> "varray", items |-> <<h>>]
DarrayHint(k, v) == [f |-> "darray", items |-> <<k, v>>]

\* The source text of a hint contains a backslash.
RECURSIVE HasSep(_)
HasSep(h) ==
    CASE h.f \in {"name", "generic"} /\ h.q -> TRUE
      [] h.f = "generic" -> \E i \in DOMAIN h.args : HasSep(h.args[i])
      [] h.f \in {"option", "like"} -> HasSep(h.of)
      [] h.f \in {"tuple", "varray", "darray"} ->
           \E i \in DOMAIN h.items : HasSep(h.items[i])
      [] h.f = "closure" -> HasSep(h.param) \/ HasSep(h.ret)
      [] h.f = "shape"   -> HasSep(h.field)
      [] OTHER           -> FALSE

(* Reduced nodes: a name node (what make_simple_type_specifier passes on)  *)
(* or a type.  A Tapply keeps its id and whether the text of its span      *)
(* (its reason's position) holds a backslash.                              *)
NameNode(n, q) == [k |-> "name", n |-> n, q |-> q]
Tapply(n, q, sep, args) == [k |-> "apply", n |-> n, q |-> q, sep |-> sep, args |-> args]
Tgeneric(n, args) == [k |-> "generic", n |-> n, args |-> args]
Toption(t) == [k |-> "option", of |-> t]
Ttuple(ts) == [k |-> "tuple", items |-> ts]
TPrim == [k |-> "prim"]
Tlike(t) == [k |-> "like", of |-> t]
\* A function type: its parameters, its variadic parameter (FunArity) if
\* any, and its return type.
Tfun(ps, var, r) == [k |-> "fun", params |-> ps, var |-> var, ret |-> r]
Tshape(fs) == [k |-> "shape", fields |-> fs]

\* is_type_param_in_scope
IsTypeParamInScope(stk, n) == \E i \in DOMAIN stk : n \in stk[i]

\* node_to_ty_: a type is returned as it is; a name in scope is a Tgeneric
\* (a qualified name is never in scope: `A\T` is not a parameter name),
\* any other name is elaborated into a Tapply.
NodeToTy(node, stk) ==
    IF node.k # "name" THEN node
    ELSE IF ~node.q /\ IsTypeParamInScope(stk, node.n)
         THEN Tgeneric(node.n, <<>>)
         ELSE Tapply(node.n, node.q, node.q, <<>>)

\* make_apply: a Tapply whose reason spans the head and its arguments.
MakeApply(h, argTys) == Tapply(h.n, h.q, HasSep(h), argTys)

\* make_generic_type_specifier: the last segment of the head as written
\* (rsplit('\\')) names a type parameter in scope, or the head is a class.
GenericTypeSpecifier(h, argTys, stk) ==
    IF IsTypeParamInScope(stk, h.n) THEN Tgeneric(h.n, argTys)
    ELSE MakeApply(h, argTys)

\* make_nullable_type_specifier: `?h`, from node_to_ty of h.
NullableTypeSpecifier(ty) == Toption(ty)

\* make_tuple_type_specifier: `(h, ...)`, from node_to_ty of each element.
TupleTypeSpecifier(tys) == Ttuple(tys)

\* make_like_type_specifier: `~h`, from node_to_ty of h.
LikeTypeSpecifier(ty) == Tlike(ty)

\* make_closure_type_specifier: the parameter's node_to_ty goes to the
\* arity when it is variadic, to the parameters otherwise.
ClosureTypeSpecifier(pty, variadic, rty) ==
    IF variadic THEN Tfun(<<>>, <<pty>>, rty) ELSE Tfun(<<pty>>, <<>>, rty)

\* make_field_specifier and make_shape_type_specifier.
ShapeTypeSpecifier(fty) == Tshape(<<fty>>)

\* make_varray_type_specifier and make_darray_type_specifier: a Tapply of
\* \HH\vec or \HH\dict whose reason spans the whole hint.
VarrayTypeSpecifier(h, tys) == Tapply("vec", FALSE, HasSep(h), tys)
DarrayTypeSpecifier(h, tys) == Tapply("dict", FALSE, HasSep(h), tys)

\* The callbacks of the hint's productions, bottom-up, against stack stk;
\* make_simple_type_specifier passes the name node on unchanged.
RECURSIVE ReduceHint(_, _)
ReduceHint(h, stk) ==
    LET Tys(hs) == [i \in DOMAIN hs |-> NodeToTy(ReduceHint(hs[i], stk), stk)]
    IN
    CASE h.f = "prim"    -> TPrim
      [] h.f = "name"    -> NameNode(h.n, h.q)
      [] h.f = "generic" -> GenericTypeSpecifier(h, Tys(h.args), stk)
      [] h.f = "option"  -> NullableTypeSpecifier(NodeToTy(ReduceHint(h.of, stk), stk))
      [] h.f = "tuple"   -> TupleTypeSpecifier(Tys(h.items))
      [] h.f = "like"    -> LikeTypeSpecifier(NodeToTy(ReduceHint(h.of, stk), stk))
      [] h.f = "closure" ->
           ClosureTypeSpecifier(NodeToTy(ReduceHint(h.param, stk), stk), h.variadic,
                                NodeToTy(ReduceHint(h.ret, stk), stk))
      [] h.f = "shape"   -> ShapeTypeSpecifier(NodeToTy(ReduceHint(h.field, stk), stk))
      [] h.f = "varray"  -> VarrayTypeSpecifier(h, Tys(h.items))
      [] h.f = "darray"  -> DarrayTypeSpecifier(h, Tys(h.items))

\* tapply_should_be_tgeneric: a span written with a backslash never names
\* a type parameter; otherwise the id's last segment must be in scope.
TapplyShouldBeTgeneric(t, stk) == ~t.sep /\ IsTypeParamInScope(stk, t.n)

\* Mutant: convert_tapply_to_tgeneric without its Toption arm.
RECURSIVE ConvertNoOption(_, _)
ConvertNoOption(t, stk) ==
    CASE t.k = "apply" ->
           LET args == [i \in DOMAIN t.args |-> ConvertNoOption(t.args[i], stk)]
           IN  IF TapplyShouldBeTgeneric(t, stk) THEN Tgeneric(t.n, args)
               ELSE Tapply(t.n, t.q, t.sep, args)
      [] t.k = "tuple"  -> Ttuple([i \in DOMAIN t.items |-> ConvertNoOption(t.items[i], stk)])
      [] OTHER          -> t

\* convert_tapply_to_tgeneric: rebuilds Tapply (type arguments first),
\* Tlike, Toption, Tfun (parameters, variadic parameter and return type),
\* Tshape and Ttuple; any other type, a Tgeneric or a Taccess included, is
\* returned as it is.
RECURSIVE ConvertTapplyToTgeneric(_, _)
ConvertTapplyToTgeneric(t, stk) ==
    LET Conv(ts) == [i \in DOMAIN ts |-> ConvertTapplyToTgeneric(ts[i], stk)] IN
    CASE t.k = "apply" ->
           IF TapplyShouldBeTgeneric(t, stk) THEN Tgeneric(t.n, Conv(t.args))
           ELSE Tapply(t.n, t.q, t.sep, Conv(t.args))
      [] t.k = "like"   -> Tlike(ConvertTapplyToTgeneric(t.of, stk))
      [] t.k = "option" -> Toption(ConvertTapplyToTgeneric(t.of, stk))
      [] t.k = "fun"    -> Tfun(Conv(t.params), Conv(t.var),
                                ConvertTapplyToTgeneric(t.ret, stk))
      [] t.k = "shape"  -> Tshape(Conv(t.fields))
      [] t.k = "tuple"  -> Ttuple(Conv(t.items))
      [] OTHER          -> t

-----------------------------------------------------------------------------
(* Bounded hints: names, and one level of `?h`, `~h`, `Head<h>`,           *)
(* `(h, h)`, `(function(h): h)`, `(function(h...): h)`, `shape('a' => h)`, *)
(* `varray<h>` and `darray<h, h>`.                                         *)
Hints0 == {Prim} \cup {NameHint(n, q) : n \in Names, q \in Quals}
Hints1 ==
    Hints0 \cup {OptionHint(h) : h \in Hints0} \cup {LikeHint(h) : h \in Hints0}
      \cup {GenericHint(g, q, <<a>>) : g \in GenericHeads, q \in Quals, a \in Hints0}
      \cup {TupleHint(<<a, b>>) : a, b \in Hints0}
      \cup {ClosureHint(a, v, b) : a, b \in Hints0, v \in BOOLEAN}
      \cup {ShapeHint(h) : h \in Hints0} \cup {VarrayHint(h) : h \in Hints0}
      \cup {DarrayHint(a, b) : a, b \in Hints0}
\* Hints of the second and later parameters, and of the function parameter.
Hints01 == Hints0 \cup {GenericHint(g, q, <<a>>) : g \in GenericHeads, q \in Quals,
                                                   a \in Hints0}

\* A list: the first constraint from Hints1, the others from Hints01.
TParamLists ==
    {s \in BoundedSeq([name : TParamNames, c : Hints1 \cup {NoHint}], MaxTParams) :
        s # <<>> /\ \A i \in 2..Len(s) : s[i].c \in Hints01 \cup {NoHint}}

Init ==
    /\ stack \in OuterScopes
    /\ tparams \in TParamLists
    /\ reduced = <<>>
    /\ made = <<>>
    /\ hint = NoHint
    /\ hintTy = NoHint
    /\ pc = "constraints"

\* make_type_constraint and make_type_parameter for the next parameter of
\* the list: its constraint hint is reduced against the current stack.
ReduceConstraint ==
    /\ pc = "constraints" /\ Len(reduced) < Len(tparams)
    /\ LET c == tparams[Len(reduced) + 1].c
       IN  reduced' = Append(reduced, IF c = NoHint THEN NoHint
                                      ELSE ReduceHint(c, stack))
    /\ UNCHANGED <<stack, tparams, made, hint, hintTy, pc>>

\* make_type_parameters: push the list's names, then node_to_ty and
\* convert_tapply_to_tgeneric on every constraint.
MakeTypeParameters ==
    /\ pc = "constraints" /\ Len(reduced) = Len(tparams)
    /\ LET stk == Append(stack, {tparams[i].name : i \in DOMAIN tparams})
       IN  /\ stack' = stk
           /\ made' = [i \in DOMAIN reduced |->
                         IF reduced[i] = NoHint THEN NoHint
                         ELSE ConvertTapplyToTgeneric(NodeToTy(reduced[i], stk), stk)]
    /\ pc' = "body"
    /\ UNCHANGED <<tparams, reduced, hint, hintTy>>

\* A parameter hint inside the list's scope: reduced, then node_to_ty in
\* as_fun_params (function_to_ty pops the list only afterwards).
ParameterHint(h) ==
    /\ pc = "body"
    /\ hint' = h
    /\ hintTy' = NodeToTy(ReduceHint(h, stack), stack)
    /\ pc' = "done"
    /\ UNCHANGED <<stack, tparams, reduced, made>>

\* The declaration is complete.
Done == pc = "done" /\ UNCHANGED vars

Next ==
    \/ ReduceConstraint
    \/ MakeTypeParameters
    \/ \E h \in Hints01 : ParameterHint(h)
    \/ Done

Spec == Init /\ [][Next]_vars

-----------------------------------------------------------------------------
(* Reference: what a hint means in Hack, given the names in scope S: a     *)
(* name written bare that some enclosing list declares is a type           *)
(* parameter; any other name is a class.                                   *)
RECURSIVE Meaning(_, _)
Meaning(h, S) ==
    LET Args(hs) == [i \in DOMAIN hs |-> Meaning(hs[i], S)]
    IN
    CASE h.f = "prim"    -> TPrim
      [] h.f = "name"    -> IF ~h.q /\ h.n \in S THEN Tgeneric(h.n, <<>>)
                            ELSE Tapply(h.n, h.q, h.q, <<>>)
      [] h.f = "generic" -> IF ~h.q /\ h.n \in S THEN Tgeneric(h.n, Args(h.args))
                            ELSE Tapply(h.n, h.q, HasSep(h), Args(h.args))
      [] h.f = "option"  -> Toption(Meaning(h.of, S))
      [] h.f = "like"    -> Tlike(Meaning(h.of, S))
      [] h.f = "tuple"   -> Ttuple(Args(h.items))
      [] h.f = "closure" ->
           IF h.variadic THEN Tfun(<<>>, <<Meaning(h.param, S)>>, Meaning(h.ret, S))
           ELSE Tfun(<<Meaning(h.param, S)>>, <<>>, Meaning(h.ret, S))
      [] h.f = "shape"   -> Tshape(<<Meaning(h.field, S)>>)
      [] h.f = "varray"  -> Tapply("vec", FALSE, HasSep(h), Args(h.items))
      [] h.f = "darray"  -> Tapply("dict", FALSE, HasSep(h), Args(h.items))

\* The names of every list on the stack.
InScope == UNION {stack[i] : i \in DOMAIN stack}

(* The comment on convert_tapply_to_tgeneric: a constraint is read with    *)
(* the whole list in scope, although the parser reduces it before          *)
(* make_type_parameters pushes the list, so a constraint naming a later    *)
(* parameter (`<T as Vec<U>, U>`) still gets a Tgeneric; and a parameter   *)
(* hint, reduced after the push, means what Hack says it means.  Both     *)
(* compare the built type, nested arguments included, with Meaning.        *)
ResolvedInScope ==
    /\ pc # "constraints" =>
         \A i \in DOMAIN tparams :
           tparams[i].c # NoHint => made[i] = Meaning(tparams[i].c, InScope)
    /\ pc = "done" => hintTy = Meaning(hint, InScope)
=============================================================================
