------------------------------ MODULE ConstRefs ------------------------------
(***************************************************************************)
(* The const_refs accumulator of direct_decl_smart_constructors.rs.  A     *)
(* constant declarator, an enumerator and an enum class enumerator each    *)
(* start an accumulation when the parser begins them (begin_* callbacks)   *)
(* and stop it in their make_* callback; every scope-resolution expression *)
(* reduced meanwhile (make_scope_resolution_expression) adds its           *)
(* ClassConstRef.  Scope-resolution expressions occur anywhere else too    *)
(* (default values, attribute arguments, ...), outside any declarator.     *)
(***************************************************************************)
EXTENDS Naturals, FiniteSets

CONSTANTS
    ClassNames,   \* class names in `C::X` (besides `self`)
    ValueNames,   \* member names in `C::X`
    None,         \* Option::None
    Missing,      \* a name the parser left Missing
    MaxSteps      \* bound on the callbacks of one file

DeclaratorKinds == {"constant", "enumerator", "enum_class_enumerator"}

VARIABLES
    constRefs,    \* const_refs: None or the set accumulated so far
    open,         \* ghost: the kind of the declarator being parsed, or None
    srcRefs,      \* ghost: the refs written in its initializer so far
    results,      \* the declarators made, with the refs they were given
    steps         \* callbacks so far

vars == <<constRefs, open, srcRefs, results, steps>>

\* The ClassConstRef of `c::v`: ClassConstFrom::Self_ for `self`, else From.
ConstRef(c, v) == [from |-> c, value |-> v]

\* start_accumulating_const_refs
StartAccumulatingConstRefs == {}

\* Mutant: the `self` arm of accumulate_const_ref dropped.
AccumulateConstRefNoSelf(refs, c, v) ==
    IF refs = None \/ c = "self" THEN refs ELSE refs \cup {ConstRef(c, v)}

\* accumulate_const_ref: only while accumulating.  (Its CIparent, CIstatic
\* and CIexpr arms are unreachable from make_scope_resolution_expression,
\* which builds only CIself and CI.)
AccumulateConstRef(refs, c, v) ==
    IF refs = None THEN refs ELSE refs \cup {ConstRef(c, v)}

\* stop_accumulating_const_refs returns the set (empty for None) ...
StopAccumulatingConstRefs(refs) == IF refs = None THEN {} ELSE refs

\* Mutant: the reset of const_refs left out.
ConstRefsAfterStopKept(refs) == refs

\* ... and resets const_refs to None.
ConstRefsAfterStop(refs) == None

Init ==
    /\ constRefs = None
    /\ open = None
    /\ srcRefs = {}
    /\ results = {}
    /\ steps = 0

Bounded == steps < MaxSteps

\* begin_constant_declarator / begin_enumerator /
\* begin_enum_class_enumerator.  The grammar has no declarator inside
\* another's initializer.
BeginDeclarator(kind) ==
    /\ Bounded /\ open = None
    /\ constRefs' = StartAccumulatingConstRefs
    /\ open' = kind
    /\ srcRefs' = {}
    /\ steps' = steps + 1
    /\ UNCHANGED results

\* make_scope_resolution_expression for `c::v`: a missing class or member
\* name returns before accumulate_const_ref.
ScopeResolutionExpression(c, v) ==
    /\ Bounded
    /\ IF c # Missing /\ v # Missing
       THEN /\ constRefs' = AccumulateConstRef(constRefs, c, v)
            /\ srcRefs' = IF open # None THEN srcRefs \cup {ConstRef(c, v)}
                          ELSE srcRefs
       ELSE UNCHANGED <<constRefs, srcRefs>>
    /\ steps' = steps + 1
    /\ UNCHANGED <<open, results>>

\* make_constant_declarator / make_enumerator / make_enum_class_enumerator:
\* each stops the accumulation first, then returns Ignored for a missing
\* name or builds the constant with the refs.
MakeDeclarator(name) ==
    /\ Bounded /\ open # None
    /\ constRefs' = ConstRefsAfterStop(constRefs)
    /\ results' = IF name = Missing THEN results
                  ELSE results \cup
                       {[kind |-> open, name |-> name,
                         refs |-> StopAccumulatingConstRefs(constRefs),
                         expected |-> srcRefs]}
    /\ open' = None
    /\ srcRefs' = {}
    /\ steps' = steps + 1

\* The file ends.
Done ==
    /\ steps = MaxSteps \/ (open = None /\ steps > 0)
    /\ UNCHANGED vars

Next ==
    \/ \E kind \in DeclaratorKinds : BeginDeclarator(kind)
    \/ \E c \in ClassNames \cup {"self", Missing}, v \in ValueNames \cup {Missing} :
         ScopeResolutionExpression(c, v)
    \/ \E n \in ValueNames \cup {Missing} : MakeDeclarator(n)
    \/ Done

Spec == Init /\ [][Next]_vars

-----------------------------------------------------------------------------
(* Types, and: an accumulation is active exactly while a declarator is    *)
(* being parsed, so expressions outside declarators are never collected.  *)
ConstRefsTypeOK ==
    /\ constRefs = None
       \/ constRefs \subseteq [from : ClassNames \cup {"self"}, value : ValueNames]
    /\ open \in DeclaratorKinds \cup {None}
    /\ steps \in 0..MaxSteps
    /\ (constRefs = None) = (open = None)

(* Every class constant, enumerator and enum class enumerator carries the *)
(* scope-resolution expressions of its own initializer, and no others:    *)
(* none from expressions reduced before it began or between declarators,  *)
(* none lost (self:: included).                                           *)
RefsOfOwnInitializer ==
    \A r \in results : r.refs = r.expected
=============================================================================
