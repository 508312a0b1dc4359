----------------------------- MODULE DirectDecl -----------------------------
(***************************************************************************)
(* The ambient state of DirectDeclSmartConstructors                        *)
(* (decl/direct_decl_smart_constructors.rs) under the bottom-up callback   *)
(* sequence an external parser drives: the namespace builder, the          *)
(* type-parameter scope stack, the classish-name tracker and the decl      *)
(* table.  Each action is one parser event: the callbacks the parser makes *)
(* for one production, in their order, with nothing that changes this      *)
(* state in between.                                                       *)
(*                                                                         *)
(* Ghost variables record what the source text means (the namespace a     *)
(* declaration is written in, the type parameters and classish that        *)
(* enclose it) so that properties can compare the table with the source.  *)
(***************************************************************************)
EXTENDS Naturals, Sequences, SequencesExt, FiniteSets

CONSTANTS
    NoName,         \* Option::None for a namespace name
    NsNames,        \* names on namespace headers (character sequences)
    ClassNames,     \* names of declared classish/functions/consts
    TParamNames,    \* type parameter names; also used as hint names
    MaxDecls,       \* bound on top-level productions per file
    MaxMembers,     \* bound on members per classish body
    Malformed,      \* the malformed inputs the parser hands over: a subset
                    \* of MalformedKinds (see below)
    NotInClassish,  \* ClassishNameBuilder::NotInClassish
    NoFrame,        \* no classish is open in the source
    Missing,        \* a hint or token the parser left Missing
    ImportNames,    \* names in `use` clauses (sequences of segments)
    Aliases,        \* names after `as` in a use clause
    NoAlias,        \* a use clause without `as`
    GroupUseKinds   \* the kind tokens written on group uses: a subset of
                    \* UseTokens

(* Malformed input the parser still reduces and hands to the callbacks:   *)
(*  "nesting":   namespace declarations nested in braces, unnamed          *)
(*               `namespace;`, or both forms in one file;                  *)
(*  "alias":     a type alias whose aliased type is missing (`type A<T> =;`)*)
(*  "paramhint": a parameter hint that node_to_ty cannot reduce;           *)
(*  "noname":    a classish whose name is missing (`class <T> { ... }`).   *)
MalformedKinds == {"nesting", "alias", "paramhint", "noname"}

ASSUME Malformed \subseteq MalformedKinds

\* The kind tokens of a use declaration or clause: `use const`, `use
\* function`, `use type`, `use namespace`, or none.
UseTokens == {"const", "function", "type", "namespace", Missing}

ASSUME GroupUseKinds \subseteq UseTokens

VARIABLES
    nsStack, panicked,  \* NamespaceBuilder (see NamespaceBuilder.tla)
    tparams,            \* type_parameters: Seq of name sets
    classish,           \* classish_name_builder
    decls,              \* the decl table, as the set of entries added
    \* ghost: what the source means
    openNs,             \* names of the open braced namespaces
    semiNs,             \* name of the last semicolon-style namespace
    nsStyle,            \* "none", "semi" or "braced": which forms were used
    cls,                \* the open classish declaration, or NoFrame
    items,              \* top-level productions so far
    srcGlobals,         \* keys of the global constants the source declares
    srcEvent,           \* the last namespace or use clause of the source
    wellFormed          \* no production so far was malformed

vars == <<nsStack, panicked, tparams, classish, decls,
          openNs, semiNs, nsStyle, cls, items, srcGlobals, srcEvent,
          wellFormed>>

NB == INSTANCE NamespaceBuilder WITH NsNameArgs <- NsNames \cup {NoName}

-----------------------------------------------------------------------------
(* Helpers translated from the code.                                       *)

\* namespaces::elaborate_into_current_ns_in, used by elaborate_defined_id:
\* "\" ^ name in the global namespace, "\" ^ ns ^ "\" ^ name otherwise.
ElaborateIntoNs(ns, n) ==
    IF ns = NoName THEN <<NB!Sep, n>> ELSE <<NB!Sep>> \o ns \o <<NB!Sep, n>>

ElaborateDefinedId(n) == ElaborateIntoNs(NB!CurrentNamespace(nsStack), n)

\* is_type_param_in_scope: a flat union over every level of the stack.
IsTypeParamInScope(stack, name) == \E i \in 1..Len(stack) : name \in stack[i]

\* Mutant: a scope pushed for an absent type-parameter list too.
PushTypeParamsAlways(stack, S) == Append(stack, S)

\* make_type_parameters pushes the names of a non-empty parameter list; an
\* absent list (S = {}) is no TypeParameters node and pushes nothing.
PushTypeParams(stack, S) == IF S = {} THEN stack ELSE Append(stack, S)

\* Mutant: the pop forgotten.
PopTypeParamsNever(stack, S) == stack

\* pop_type_params pops one level for a TypeParameters node.
PopTypeParams(stack, S) == IF S = {} THEN stack ELSE Front(stack)

\* node_to_ty of a bare name h, against the stack `stack`: Tgeneric when h
\* is in scope there, else a Tapply of the elaborated name.  `expected` is
\* whether the source declares h on an enclosing declaration.
Resolve(stack, h, srcScope) ==
    [name |-> h,
     generic |-> IsTypeParamInScope(stack, h),
     expected |-> h \in srcScope]

\* function_to_ty on the stack `stack` that already holds the function's
\* own parameters S: as_fun_params reduces the parameter hint h (and
\* returns None, ok = FALSE, when a present hint does not reduce); only
\* after every inner type is built are S popped.  On failure nothing is
\* popped.
FunctionToTy(stack, S, h, srcScope, ok) ==
    IF ok
    THEN [tparams |-> PopTypeParams(stack, S),
          refs |-> {Resolve(stack, h, srcScope)}]
    ELSE [tparams |-> stack, refs |-> {}]

\* lexed_name_after_classish_keyword: only the first name is recorded.
LexedNameAfterClassishKeyword(key, kw) ==
    IF classish = NotInClassish THEN [name |-> key, kind |-> kw] ELSE classish

\* Mutant: the tracker not reset after a classish.
ParsedClassishDeclarationKeep == classish

\* ClassishNameBuilder::parsed_classish_declaration
ParsedClassishDeclaration == NotInClassish

\* Self::namespace_use_kind: `const` and `function` give None ("none"),
\* `type` and `namespace` their kind, and a missing token Mixed.
NamespaceUseKind(tok) ==
    IF tok = Missing THEN "mixed"
    ELSE IF tok \in {"type", "namespace"} THEN tok ELSE "none"

\* add_import when the kind is Some, nothing for None.
ImportIfSome(s, kind, name, as) ==
    IF kind = "none" THEN s ELSE NB!AddImport(s, kind, name, as)

\* A namespace or use event of the source, all of one record shape.
Ev(k, name, kind, alias, target) ==
    [k |-> k, name |-> name, kind |-> kind, alias |-> alias, target |-> target]

\* What a use clause means: the clause's own kind token if written, else
\* the declaration's, else both a type and a namespace alias.
WrittenUseKind(declTok, clauseTok) ==
    IF clauseTok # Missing THEN clauseTok
    ELSE IF declTok # Missing THEN declTok ELSE "mixed"

SrcEvents ==
    {Ev("namespace", n, "none", NoAlias, <<>>) : n \in NsNames \cup {NoName}}
    \cup {Ev("close", NoName, "none", NoAlias, <<>>)}
    \cup {Ev("use", NoName, k, a, t) :
            k \in {"type", "namespace", "mixed", "function", "const"},
            a \in Aliases \cup {NoAlias}, t \in ImportNames}

Entry(kind, key, srcKey, refs, consts, srcConsts) ==
    [kind |-> kind, key |-> key, srcKey |-> srcKey, refs |-> refs,
     consts |-> consts, srcConsts |-> srcConsts]

\* The namespace the source text puts the current position in.
SrcNs == IF openNs # <<>> THEN Last(openNs) ELSE semiNs

SrcScope == IF cls = NoFrame THEN {} ELSE cls.tps

AtTop == ~panicked /\ cls = NoFrame /\ items < MaxDecls
InClassBody(kind) ==
    /\ ~panicked /\ cls # NoFrame /\ cls.kind = kind
    /\ cls.members < MaxMembers

-----------------------------------------------------------------------------
Init ==
    /\ nsStack = <<NB!RootEnv>>
    /\ panicked = FALSE
    /\ tparams = <<>>
    /\ classish = NotInClassish
    /\ decls = {}
    /\ openNs = <<>>
    /\ semiNs = NoName
    /\ nsStyle = "none"
    /\ cls = NoFrame
    /\ items = 0
    /\ srcGlobals = {}
    /\ srcEvent = Ev("namespace", NoName, "none", NoAlias, <<>>)
    /\ wellFormed = TRUE
-----------------------------------------------------------------------------
(* Namespace declarations.                                                 *)

\* Hack's placement rules for namespace and use declarations: a semicolon
\* namespace is named, first in the file and not mixed with the braced
\* form; braced namespaces do not nest; a use stands in a namespace block
\* or, in a file without namespace declarations ("flat"), at top level.
SemicolonWF(n) ==
    openNs = <<>> /\ nsStyle \notin {"braced", "flat"} /\ n # NoName
BracedWF == openNs = <<>> /\ nsStyle \notin {"semi", "flat"}
UseWF == openNs # <<>> \/ nsStyle # "braced"

\* `namespace N;`: make_namespace_declaration_header pushes N,
\* make_namespace_empty_body pops the previous namespace, and
\* make_namespace_declaration leaves the stack alone for an empty body.
\* Hack allows it only at top level, with a name, first in the file and
\* not mixed with the braced form; the parser still reduces the others.
NamespaceSemicolon(n) ==
    /\ AtTop
    /\ "nesting" \notin Malformed => SemicolonWF(n)
    /\ wellFormed' = (wellFormed /\ SemicolonWF(n))
    /\ LET pushed == NB!PushNamespace(nsStack, n)
       IN  IF NB!PopPreviousPanics(pushed)
           THEN panicked' = TRUE /\ nsStack' = pushed
           ELSE nsStack' = NB!PopPreviousNamespace(pushed)
                /\ UNCHANGED panicked
    /\ semiNs' = n
    /\ nsStyle' = "semi"
    /\ items' = items + 1
    /\ srcEvent' = Ev("namespace", n, "none", NoAlias, <<>>)
    /\ UNCHANGED <<tparams, classish, decls, openNs, cls, srcGlobals>>

\* `namespace N {` (N may be absent): make_namespace_declaration_header.
NamespaceBracedOpen(n) ==
    /\ AtTop
    /\ "nesting" \notin Malformed => BracedWF
    /\ wellFormed' = (wellFormed /\ BracedWF)
    /\ nsStack' = NB!PushNamespace(nsStack, n)
    /\ openNs' = Append(openNs, n)
    /\ nsStyle' = "braced"
    /\ items' = items + 1
    /\ srcEvent' = Ev("namespace", n, "none", NoAlias, <<>>)
    /\ UNCHANGED <<panicked, tparams, classish, decls, semiNs, cls, srcGlobals>>

\* `}`: make_namespace_body, then make_namespace_declaration pops.
NamespaceBracedClose ==
    /\ ~panicked /\ cls = NoFrame /\ openNs # <<>>
    /\ nsStack' = NB!PopNamespace(nsStack)
    /\ openNs' = Front(openNs)
    /\ srcEvent' = Ev("close", NoName, "none", NoAlias, <<>>)
    /\ UNCHANGED <<wellFormed, panicked, tparams, classish, decls, semiNs, nsStyle, cls,
                   items, srcGlobals>>

UseAllowed == "nesting" \notin Malformed => UseWF

\* `use K N as A;` (one clause): make_namespace_use_clause makes the clause
\* (its own kind token is missing: Mixed), then make_namespace_use_
\* declaration imports it with the kind of the declaration's token K,
\* and imports nothing when that kind is None.
UseDeclaration(tok, n, as) ==
    /\ AtTop /\ UseAllowed
    /\ nsStack' = ImportIfSome(nsStack, NamespaceUseKind(tok), n, as)
    /\ nsStyle' = IF nsStyle = "none" THEN "flat" ELSE nsStyle
    /\ items' = items + 1
    /\ srcEvent' = Ev("use", NoName, WrittenUseKind(tok, Missing), as, n)
    /\ wellFormed' = (wellFormed /\ UseWF)
    /\ UNCHANGED <<panicked, tparams, classish, decls, openNs, semiNs, cls,
                   srcGlobals>>

\* `use K P\{K' M as A};` (one clause; Hack allows a kind on the clauses
\* only when K is absent): make_namespace_use_clause drops the clause when
\* namespace_use_kind(K') is None and otherwise records that kind;
\* make_namespace_group_use_declaration ignores K and imports P ++ M with
\* the clause's kind.
GroupUseDeclaration(tok, ctok, prefix, id, as) ==
    /\ AtTop /\ UseAllowed
    /\ tok \in GroupUseKinds
    /\ tok = Missing \/ ctok = Missing
    /\ nsStack' = ImportIfSome(nsStack, NamespaceUseKind(ctok), prefix \o <<id>>, as)
    /\ nsStyle' = IF nsStyle = "none" THEN "flat" ELSE nsStyle
    /\ items' = items + 1
    /\ srcEvent' = Ev("use", NoName, WrittenUseKind(tok, ctok), as, prefix \o <<id>>)
    /\ wellFormed' = (wellFormed /\ UseWF)
    /\ UNCHANGED <<panicked, tparams, classish, decls, openNs, semiNs, cls,
                   srcGlobals>>

-----------------------------------------------------------------------------
(* Classish declarations (class, interface, trait) and their members.      *)

NewFrame(kind, kw, n) ==
    [kind |-> kind, kw |-> kw, name |-> n, srcKey |-> ElaborateIntoNs(SrcNs, n),
     tps |-> {}, started |-> FALSE, members |-> 0,
     refs |-> {}, consts |-> {}, srcConsts |-> {}]

\* make_token of the Name after a `class`, `interface` or `trait` keyword
\* (previous_token_kind): the name, elaborated in the current namespace,
\* goes to lexed_name_after_classish_keyword.
ClassishName(kw, n) ==
    /\ AtTop
    /\ classish' = LexedNameAfterClassishKeyword(ElaborateDefinedId(n), kw)
    /\ cls' = NewFrame("class", kw, n)
    /\ items' = items + 1
    /\ UNCHANGED <<wellFormed, nsStack, panicked, srcEvent, tparams, decls, openNs, semiNs, nsStyle,
                   srcGlobals>>

\* make_type_parameters of the classish's `<...>`, before its body.
ClassTypeParameters(S) ==
    /\ InClassBody("class") /\ ~cls.started
    /\ tparams' = PushTypeParams(tparams, S)
    /\ cls' = [cls EXCEPT !.tps = S, !.started = TRUE]
    /\ UNCHANGED <<wellFormed, nsStack, panicked, srcEvent, classish, decls, openNs, semiNs, nsStyle,
                   items, srcGlobals>>

\* make_property_declaration: the hint goes through node_to_non_ret_ty now.
PropertyDeclaration(h) ==
    /\ InClassBody("class")
    /\ cls' = [cls EXCEPT !.refs = @ \cup {Resolve(tparams, h, SrcScope)},
                          !.started = TRUE, !.members = @ + 1]
    /\ UNCHANGED <<wellFormed, nsStack, panicked, srcEvent, tparams, classish, decls, openNs, semiNs,
                   nsStyle, items, srcGlobals>>

\* A method `function m<S>(h $p)`: make_type_parameters pushes S, then
\* make_methodish_declaration calls function_to_ty, whose as_fun_params
\* fails (ok = FALSE) when a present hint does not reduce to a type; then
\* the method is dropped before pop_type_params.  Otherwise the hint is
\* reduced, S popped, and the method joins the classish body.
MethodDeclaration(S, h, ok) ==
    /\ InClassBody("class")
    /\ ok \/ "paramhint" \in Malformed
    /\ wellFormed' = (wellFormed /\ ok)
    /\ LET f == FunctionToTy(PushTypeParams(tparams, S), S, h,
                             SrcScope \cup S, ok)
       IN  /\ tparams' = f.tparams
           /\ cls' = [cls EXCEPT !.refs = @ \cup f.refs,
                                 !.started = TRUE, !.members = @ + 1]
    /\ UNCHANGED <<nsStack, panicked, srcEvent, classish, decls, openNs, semiNs, nsStyle,
                   items, srcGlobals>>

\* `const int n = ...;`: begin_constant_declarator, make_constant_declarator
\* and make_const_declaration, which takes the class-constant branch when
\* get_current_classish_name() is Some and the global branch (add_const of
\* the elaborated name) otherwise.  A class-constant list at top level is
\* returned to a parent that ignores it.
ConstDeclaration(n) ==
    /\ \/ AtTop
       \/ InClassBody("class")
    /\ LET inClass == cls # NoFrame
       IN  /\ IF classish # NotInClassish
              THEN /\ cls' = IF inClass
                             THEN [cls EXCEPT !.consts = @ \cup {n},
                                              !.srcConsts = @ \cup {n},
                                              !.started = TRUE,
                                              !.members = @ + 1]
                             ELSE cls
                   /\ UNCHANGED decls
              ELSE /\ decls' = decls \cup
                        {Entry("const", ElaborateDefinedId(n),
                               ElaborateIntoNs(SrcNs, n), {}, {}, {})}
                   /\ cls' = IF inClass
                             THEN [cls EXCEPT !.srcConsts = @ \cup {n},
                                              !.started = TRUE,
                                              !.members = @ + 1]
                             ELSE cls
           /\ srcGlobals' = IF inClass THEN srcGlobals
                            ELSE srcGlobals \cup {ElaborateIntoNs(SrcNs, n)}
           /\ items' = IF inClass THEN items ELSE items + 1
    /\ UNCHANGED <<wellFormed, nsStack, panicked, srcEvent, tparams, classish, openNs, semiNs,
                   nsStyle>>

\* A classish whose name is missing: the token after `class` is not a
\* Name, so make_token records nothing.
ClassishNoName(kw) ==
    /\ AtTop
    /\ "noname" \in Malformed
    /\ wellFormed' = FALSE
    /\ cls' = NewFrame("class", kw, Missing)
    /\ items' = items + 1
    /\ UNCHANGED <<nsStack, panicked, srcEvent, tparams, classish, decls, openNs, semiNs,
                   nsStyle, srcGlobals>>

\* make_classish_declaration.  Without a name (expect_name returns None) it
\* returns before pop_type_params and parsed_classish_declaration.
\* Otherwise the type parameters are popped after every inner type is
\* built, the class is added under its name elaborated now, and the
\* tracker is reset.  (Its other early return, for a body that is not a
\* ClassishBody, is not modelled: make_classish_body always makes one.)
ClassishDeclaration ==
    /\ ~panicked /\ cls # NoFrame /\ cls.kind = "class"
    /\ IF cls.name # Missing
       THEN /\ tparams' = PopTypeParams(tparams, cls.tps)
            /\ decls' = decls \cup
                 {Entry("class", ElaborateDefinedId(cls.name), cls.srcKey,
                        cls.refs, cls.consts, cls.srcConsts)}
            /\ classish' = ParsedClassishDeclaration
       ELSE UNCHANGED <<tparams, decls, classish>>
    /\ cls' = NoFrame
    /\ UNCHANGED <<wellFormed, nsStack, panicked, srcEvent, openNs, semiNs, nsStyle, items,
                   srcGlobals>>

-----------------------------------------------------------------------------
(* Enum classes, enums, functions and type aliases.                        *)

\* make_token of the Name in `enum class E`: its previous token is `class`.
EnumClassName(n) ==
    /\ AtTop
    /\ classish' = LexedNameAfterClassishKeyword(ElaborateDefinedId(n), "class")
    /\ cls' = NewFrame("enumclass", "class", n)
    /\ items' = items + 1
    /\ UNCHANGED <<wellFormed, nsStack, panicked, srcEvent, tparams, decls, openNs, semiNs, nsStyle,
                   srcGlobals>>

\* begin_enum_class_enumerator, then make_enum_class_enumerator: the
\* member's type is MemberOf<current classish name, ...>, and the member
\* is dropped when no classish name is recorded.
EnumClassEnumerator(m) ==
    /\ InClassBody("enumclass")
    /\ cls' = [cls EXCEPT
          !.consts = IF classish = NotInClassish THEN @
                     ELSE @ \cup {[name |-> m, owner |-> classish.name]},
          !.srcConsts = @ \cup {[name |-> m, owner |-> cls.srcKey]},
          !.members = @ + 1]
    /\ UNCHANGED <<wellFormed, nsStack, panicked, srcEvent, tparams, classish, decls, openNs, semiNs,
                   nsStyle, items, srcGlobals>>

\* make_enum_class_declaration: added under its elaborated name; the
\* tracker is reset.
EnumClassDeclaration ==
    /\ ~panicked /\ cls # NoFrame /\ cls.kind = "enumclass"
    /\ decls' = decls \cup
         {Entry("enumclass", ElaborateDefinedId(cls.name), cls.srcKey, {},
                cls.consts, cls.srcConsts)}
    /\ classish' = ParsedClassishDeclaration
    /\ cls' = NoFrame
    /\ UNCHANGED <<wellFormed, nsStack, panicked, srcEvent, tparams, openNs, semiNs, nsStyle, items,
                   srcGlobals>>

\* make_enum_declaration (`enum E : int {}`): the name token follows
\* `enum`, so nothing was recorded, but the tracker is reset all the same.
EnumDeclaration(n) ==
    /\ AtTop
    /\ decls' = decls \cup
         {Entry("enum", ElaborateDefinedId(n), ElaborateIntoNs(SrcNs, n), {},
                {}, {})}
    /\ classish' = ParsedClassishDeclaration
    /\ items' = items + 1
    /\ UNCHANGED <<wellFormed, nsStack, panicked, srcEvent, tparams, openNs, semiNs, nsStyle, cls,
                   srcGlobals>>

\* `function n<S>(h $p)`: make_type_parameters pushes S; then
\* make_function_declaration calls function_to_ty, which returns None
\* before pop_type_params when as_fun_params fails (ok = FALSE).
FunctionDeclaration(n, S, h, ok) ==
    /\ AtTop
    /\ ok \/ "paramhint" \in Malformed
    /\ wellFormed' = (wellFormed /\ ok)
    /\ LET f == FunctionToTy(PushTypeParams(tparams, S), S, h, S, ok)
       IN  /\ tparams' = f.tparams
           /\ decls' = IF ok
                       THEN decls \cup {Entry("fun", ElaborateDefinedId(n),
                                              ElaborateIntoNs(SrcNs, n),
                                              f.refs, {}, {})}
                       ELSE decls
    /\ items' = items + 1
    /\ UNCHANGED <<nsStack, panicked, srcEvent, classish, openNs, semiNs, nsStyle, cls,
                   srcGlobals>>

\* `type n<S> = h;`: make_type_parameters pushes S; make_alias_declaration
\* returns before pop_type_params when the aliased type does not reduce
\* (h = Missing, as in `type A<T> = ;`).
AliasDeclaration(n, S, h) ==
    /\ AtTop
    /\ h # Missing \/ "alias" \in Malformed
    /\ wellFormed' = (wellFormed /\ h # Missing)
    /\ LET pushed == PushTypeParams(tparams, S)
       IN  IF h # Missing
           THEN /\ tparams' = PopTypeParams(pushed, S)
                /\ decls' = decls \cup
                     {Entry("typedef", ElaborateDefinedId(n),
                            ElaborateIntoNs(SrcNs, n),
                            {Resolve(pushed, h, S)}, {}, {})}
           ELSE /\ tparams' = pushed
                /\ UNCHANGED decls
    /\ items' = items + 1
    /\ UNCHANGED <<nsStack, panicked, srcEvent, classish, openNs, semiNs, nsStyle, cls,
                   srcGlobals>>

\* The end of the file: nothing more is reduced.
EndOfFile ==
    /\ panicked \/ (cls = NoFrame /\ items = MaxDecls)
    /\ UNCHANGED vars

-----------------------------------------------------------------------------
TParamLists == SUBSET TParamNames

Next ==
    \/ \E n \in NsNames \cup {NoName} :
          NamespaceSemicolon(n) \/ NamespaceBracedOpen(n)
    \/ NamespaceBracedClose
    \/ \E tok \in UseTokens, n \in ImportNames, a \in Aliases \cup {NoAlias} :
          UseDeclaration(tok, n, a)
    \/ \E tok, ctok \in UseTokens, n \in ImportNames, a \in Aliases \cup {NoAlias} :
          GroupUseDeclaration(tok, ctok, Front(n), Last(n), a)
    \/ \E n \in ClassNames, kw \in {"class", "interface", "trait"} :
          ClassishName(kw, n)
    \/ \E S \in TParamLists \ {{}} : ClassTypeParameters(S)
    \/ \E h \in TParamNames : PropertyDeclaration(h)
    \/ \E S \in TParamLists, h \in TParamNames, ok \in BOOLEAN :
          MethodDeclaration(S, h, ok)
    \/ \E n \in ClassNames : ConstDeclaration(n)
    \/ \E kw \in {"class", "interface", "trait"} : ClassishNoName(kw)
    \/ ClassishDeclaration
    \/ \E n \in ClassNames : EnumClassName(n) \/ EnumClassEnumerator(n)
                             \/ EnumDeclaration(n)
    \/ EnumClassDeclaration
    \/ \E n \in ClassNames, S \in TParamLists, h \in TParamNames, ok \in BOOLEAN :
          FunctionDeclaration(n, S, h, ok)
    \/ \E n \in ClassNames, S \in TParamLists, h \in TParamNames \cup {Missing} :
          AliasDeclaration(n, S, h)
    \/ EndOfFile

Spec == Init /\ [][Next]_vars

-----------------------------------------------------------------------------
(* Properties.                                                             *)

RefResults == [name : TParamNames, generic : BOOLEAN, expected : BOOLEAN]

TypeOK ==
    /\ NB!NsTypeOK
    /\ tparams \in Seq(TParamLists \ {{}})
    /\ classish = NotInClassish
       \/ classish \in [name : Seq(STRING), kind : {"class", "interface", "trait"}]
    /\ \A e \in decls :
         /\ e.kind \in {"class", "enumclass", "enum", "const", "fun", "typedef"}
         /\ e.refs \subseteq RefResults
    /\ items \in 0..MaxDecls
    /\ cls = NoFrame \/ cls.members \in 0..MaxMembers

(* In a well-formed file every declaration is entered in the table under *)
(* the name the source gives it: its name qualified by the namespace it   *)
(* is written in.  The key comes from elaborate_defined_id over the       *)
(* namespace stack that make_namespace_declaration_header,                *)
(* make_namespace_empty_body (pop_previous_namespace) and                 *)
(* make_namespace_declaration maintain.                                   *)
DeclaredInSourceNamespace ==
    wellFormed => \A e \in decls : e.key = e.srcKey

(* A bare type name in a declaration is a type parameter (Tgeneric) exactly *)
(* when a declaration enclosing it in the source declares that parameter:  *)
(* make_type_parameters pushes, and every consumer (function_to_ty,       *)
(* make_alias_declaration, make_classish_declaration) must pop the same    *)
(* level, so that no parameter leaks into a later declaration.             *)
TypeRefsResolvedInScope ==
    \A e \in decls : \A r \in e.refs : r.generic = r.expected

(* TypeRefsResolvedInScope for files with no malformed production so far: *)
(* the pushes of make_type_parameters and the pops of every consumer stay *)
(* paired on every well-formed sequence of declarations.                  *)
WellFormedTypeRefs == wellFormed => TypeRefsResolvedInScope

(* Members land where the source puts them: the constants declared in a   *)
(* classish body are its class constants, the global constants in the     *)
(* table are exactly the top-level ones, and an enum class's members are typed MemberOf<that enum     *)
(* class>.  make_const_declaration and make_enum_class_enumerator decide   *)
(* this from the classish-name tracker, which lexed_name_after_classish_   *)
(* keyword sets and parsed_classish_declaration resets.                    *)
MembersAttributedToEnclosingClassish ==
    /\ \A e \in decls : e.consts = e.srcConsts
    /\ srcGlobals = {e.key : e \in {d \in decls : d.kind = "const"}}

(* MembersAttributedToEnclosingClassish for files with no malformed       *)
(* production so far: the classish tracker is set and reset in step with  *)
(* the classish declarations.                                             *)
WellFormedMembers == wellFormed => MembersAttributedToEnclosingClassish

(* pop_previous_namespace's equivalence (see NamespaceBuilder), from every *)
(* namespace stack the callbacks reach on any input, malformed nesting     *)
(* and imports included.                                                   *)
NestingEquivalence == NB!NestingEquivalence

(* The code never panics: malformed input makes the decl parser omit a     *)
(* declaration, never abort the file.                                      *)
NoPanic == ~panicked

\* The abstract variables NsScope's mapping gives.
scopeImage == <<srcEvent, NB!CurrentNamespace(nsStack), Last(nsStack).classUses,
                Last(nsStack).nsUses>>

NsScope == INSTANCE NamespaceScope
             WITH event <- srcEvent,
                  current <- NB!CurrentNamespace(nsStack),
                  classUses <- Last(nsStack).classUses,
                  nsUses <- Last(nsStack).nsUses,
                  Events <- SrcEvents

(* The namespace builder implements block-scoped namespaces and imports.  *)
(* As long as the file is well-formed, the callbacks' steps, mapped to    *)
(* the current namespace and the `use` maps of the top environment, are   *)
(* steps of NamespaceScope driven by what the source shows.  Every block  *)
(* starts with no imports of the previous one (push_namespace clones the  *)
(* top environment, and pop_previous_namespace re-pushes from the one     *)
(* below), and a use clause binds its alias in the maps its written kind  *)
(* names (make_namespace_use_declaration, make_namespace_group_use_       *)
(* declaration, namespace_use_kind, add_import).                          *)
NamespaceScopeRefined ==
    /\ NsScope!ScopeInit
    /\ [][wellFormed' => [NsScope!ScopeNext]_scopeImage]_vars

=============================================================================
