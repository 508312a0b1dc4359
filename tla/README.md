# TLA+ models of the Hack direct-decl smart constructors

This directory holds TLC-checkable models of
`src/hphp/hack/src/decl/direct_decl_smart_constructors.rs`, the part of the
repository with the most state. It also covers the stateless parts around it.
The line numbers below refer to that file unless another file is named.

## The system

`DirectDeclSmartConstructors` is driven bottom-up by the Hack parser. That
parser is not in this repository. It calls `make_token` for every token, and
one `make_*` callback for every production, once that production's children
are reduced. Most callbacks are pure: they build a `Node` from their
children. Some also read and change the state carried across callbacks, and
that shared state is what the models cover:

| state | field | written by | read by |
|---|---|---|---|
| namespace stack | `namespace_builder` (`NamespaceBuilder.stack`, 389-537), each level with its `use` maps | namespace header/body/declaration callbacks (3547-3576); `add_import` from the use and group-use callbacks (3577-3655) | `elaborate_defined_id` for every declared name; `elaborate_id` through the `use` maps for every referenced name |
| type-parameter scopes | `type_parameters` | `make_type_parameters` (push, 3177), `pop_type_params` (1391) from `function_to_ty`, `make_alias_declaration`, `make_context_alias_declaration`, `make_type_parameter`, `make_classish_declaration` | `is_type_param_in_scope` (1429) in `node_to_ty_` and `convert_tapply_to_tgeneric` |
| classish tracker | `classish_name_builder` (539-600) | `make_token` after `class`/`trait`/`interface` (2376-2389); reset by the classish, enum and enum class declarations | `make_const_declaration` (3471), `make_enum_class_enumerator` (4522), `make_methodish_declaration` (`in_interface`), `this`/`self` hints |
| const refs | `const_refs` (245-292) | `begin_constant_declarator`, `begin_enumerator`, `begin_enum_class_enumerator`, `accumulate_const_ref` | `make_constant_declarator`, `make_enumerator`, `make_enum_class_enumerator` |
| decl table | `decls` | `add_class`/`add_fun`/`add_typedef`/`add_const` (975-987) | the caller, after parsing |

Everything runs on one thread, in the order the parser reduces productions.
The hard behaviour therefore comes from sequences of callbacks, not from
concurrency. A callback returns early on malformed children and skips the
cleanup that its siblings rely on. Token-level state (the classish tracker)
is read by a production callback further up the tree. The namespace stack
is edited by three different operations whose combination must respect
Hack's two namespace forms.

The other source files are:

- `hhbc_by_ref/emit_class.rs`: bytecode emission of a class. It is a large
  transformation over an emitter state that is defined outside this
  repository.
- `bytecode_printer/special_class_resolver.rs`: a trait with no state.
- `facts/rust_facts_ffi.rs`: a C ABI wrapper that decodes flag bits and
  marshals strings.
- `oxidized_by_ref/gen/mod.rs`: a generated list of modules.

None of them has state that TLC could explore (see "Not modelled").

## Modules

- **NamespaceBuilder.tla** models the namespace stack as operators that
  DirectDecl applies to its variables.
  - A namespace name is a sequence of characters, so the
    `starts_with` assert and the byte slice `&last[previous.len()+1..]` in
    `pop_previous_namespace` mean here exactly what they mean in the code.
  - Each level carries `classUses` and `nsUses`, the `use` maps, as sets of
    `<<alias, name>>` bindings; an imported name is a sequence of segments.
    `AddImport` is `add_import` (483-512): the default alias is the last
    segment, and `Bind` replaces an earlier binding as `SMap::add` does.
    The auto-imports of `new_in` are equal at every level and left out.
  - `PushNamespace`, `PopNamespace`, `PopPreviousNamespace` and
    `PopPreviousPanics` are the stack operations.
  - A panic in the code ends processing of the file. In the model it sets
    `panicked` and stops all further steps.
- **NamespaceScope.tla** is the abstract specification of what the builder
  promises. It has no stack. It tracks the current namespace and the aliases
  in force. A namespace block starts with no imports of its own. A `use`
  clause binds its alias in the maps that its written kind names:
  - `type` binds a type alias;
  - `namespace` binds a namespace alias;
  - no kind binds both;
  - `function` and `const` bind neither.

  It is driven by `event`, the namespace or use clause that the source
  shows.
- **DirectDecl.tla** models the callbacks that touch the shared state. Each
  action is one parser event: the callbacks of one production, in their
  order. Nothing that changes this state can run in between.
  - `ClassishName` is `make_token` on a name after a classish keyword.
  - `ClassTypeParameters` is `make_type_parameters` on a class's list.
  - `MethodDeclaration` is `make_type_parameters`, then
    `make_methodish_declaration` with `function_to_ty`, given by the helper
    `FunctionToTy`.
  - `ConstDeclaration` is `begin_constant_declarator`, then
    `make_constant_declarator`, then `make_const_declaration`.
  - `ClassishDeclaration` is `make_classish_declaration`. `ClassishNoName`
    opens a classish whose name token is missing.
  - `EnumDeclaration`, `EnumClassName`, `EnumClassEnumerator` and
    `EnumClassDeclaration` are the enum callbacks.
  - `FunctionDeclaration` and `AliasDeclaration` model the function and
    type alias callbacks.
  - `NamespaceSemicolon`, `NamespaceBracedOpen` and `NamespaceBracedClose`
    are the namespace callbacks.
  - `UseDeclaration` is `make_namespace_use_clause` followed by
    `make_namespace_use_declaration`. It imports with the kind of the
    declaration's token (`NamespaceUseKind`, 1934-1943), or imports nothing
    when that kind is None.
  - `GroupUseDeclaration` is `make_namespace_use_clause` followed by
    `make_namespace_group_use_declaration`. It imports the prefix followed
    by the clause name, with the clause's kind.
  - Each use declaration has one clause. The loop over clauses repeats the
    same step.

  The namespace operations come from `NamespaceBuilder` through
  `INSTANCE`. `NsScope` instantiates NamespaceScope with a refinement
  mapping:
  - `current` is the current namespace of the stack;
  - `classUses` and `nsUses` are the maps of the top level;
  - `event` is the ghost `srcEvent`, the last namespace or use clause
    written.

  Well-formed files follow Hack's placement rules. A namespace declaration
  comes first in the file and does not follow a top-level `use` (`nsStyle`
  becomes `"flat"` after such a `use`). A `use` never stands between braced
  blocks. A group use carries a kind either on the declaration or on its
  clauses, not both.

  The ghost `wellFormed` turns false at the first production that breaks
  these rules or takes one of the `Malformed` early returns. Properties
  about well-formed files are stated as `wellFormed => P`, and the
  refinement as `[][wellFormed' => [NsScope!ScopeNext]_scopeImage]_vars`.
  Malformed files are then checked in the same run, against the properties
  that hold for every input.

  Data is abstracted:
  - names are drawn from small sets;
  - a hint is a bare name, and `Resolve` says whether `node_to_ty_` made it a
    `Tgeneric` (1211);
  - a decl-table entry keeps only its kind, its key, the hints it resolved
    and the constants it owns.

  Ghost variables record what the source text means: `openNs`, `semiNs` and
  `nsStyle` for the namespaces, `cls` for the open classish, and
  `srcGlobals` for the top-level constants. The properties compare the
  table with them.

  `Malformed` selects which malformed inputs the parser may hand over:
  - `nesting`: nested or unnamed namespaces, or a mix of the two forms;
  - `alias`: a missing aliased type;
  - `paramhint`: a parameter hint that does not reduce;
  - `noname`: a classish without a name.

  `GroupUseKinds` lists the kind tokens a group use may carry on the
  declaration itself.

  The early-return branches of the actions are enabled only for the
  selected kinds.
- **ConstRefs.tla** models the `const_refs` accumulator (245-292).
  - `BeginDeclarator` is any of the three `begin_*` callbacks.
  - `ScopeResolutionExpression` is `make_scope_resolution_expression`
    (4642-4671), which feeds `accumulate_const_ref`.
  - `MakeDeclarator` is the matching `make_*` callback. It stops the
    accumulation before its own early return for a missing name.
  - Scope-resolution expressions may also be reduced outside any declarator,
    for example in default values and attribute arguments.
  - The ghost `srcRefs` records the refs written in the open initializer.
- **Attributes.tla** models `to_attributes` (1236-1369) as the loop the code
  runs.
  - `Start` matches the node and reverses the list.
  - `Step` is one iteration: `ApplyAttribute` plus `SeenPolicied`, which is
    the `ifc_already_policied` flag.
  - `Finish` ends the loop.
  - A string parameter is a sequence of characters, so `__Module`'s split on
    `.` (`SplitOnDot`) is modelled by what it does.
- **YieldSentinel.tla** models how `function_to_ty` learns that a body has a
  `yield`.
  - `IsZero`, `Flatten`, `MakeList` and `Iter` are `is_zero`, `flatten`,
    `make_list` and `Node::iter`.
  - `Reduce` runs the expression and statement callbacks bottom-up as a
    RECURSIVE operator.
  - `Bodies` are the bounded function bodies. They put `yield` only where
    Hack accepts it: as a statement, on the right of `=`, after `return`, or
    in parentheses. Around it go calls, arithmetic, assignments and lambdas.
  - The reference `ContainsYield` looks for a yield outside lambdas.
- **TypeHints.tla** models how a name in a hint becomes a `Tgeneric` or a
  `Tapply`.
  - `ReduceHint` runs the specifier callbacks bottom-up against the stack of
    that moment: `make_simple_type_specifier`, `GenericTypeSpecifier`,
    `NullableTypeSpecifier`, `TupleTypeSpecifier`, `LikeTypeSpecifier`,
    `ClosureTypeSpecifier` (a plain or a variadic parameter),
    `ShapeTypeSpecifier` (one field), `VarrayTypeSpecifier` and
    `DarrayTypeSpecifier`, with `MakeApply`.
  - `NodeToTy` is `node_to_ty_`.
  - `ConvertTapplyToTgeneric` and `TapplyShouldBeTgeneric` are the repair
    that `make_type_parameters` applies to constraints. A constraint is
    reduced before its list is pushed. The repair recurses through
    applications, like, option, function, shape and tuple types, and
    returns a `Tgeneric` or a `Taccess` as it is.
  - The actions are the events of one declaration:
    - `ReduceConstraint`, for each type parameter;
    - `MakeTypeParameters`, which pushes and converts;
    - `ParameterHint`, a hint read by `as_fun_params` in the list's scope.
  - A written name is bare or qualified. Its span holds a backslash exactly
    when some name in it was written qualified (`HasSep`). That is what
    `source_text_at_pos(..).contains('\\')` tests.
  - The reference `Meaning` gives Hack's rule: a bare name declared by an
    enclosing list is a type parameter, and every other name is a class.
- **EffectPolymorphism.tla** models `rewrite_effect_polymorphism`
  (1944-2250) on one function signature, as the loop the code runs.
  - `EarlyReturn` and `BeginRewrite` are the match on the capability with
    `has_polymorphic_context` (1945-1952).
  - `Step` is one iteration over `context_tys`. Its disjuncts are the match
    arms in their order:
    - `FunCtxStep` for `ctx $f`, with `RewriteFunCtx` (`rewrite_fun_ctx`);
    - `ArgCtxStep` for `$g::C`, with `RewriteArgCtx` (`rewrite_arg_ctx`);
    - `GenericTaccessStep` for a projection off a type parameter;
    - `OtherContextStep` for the rest.

    `Target` and `Rewrap` are the match on the hint's `~?`, `~` and `?`
    wrappers that both parameter arms share.
  - `Finish` rebuilds the parameters from `ty_by_param` and renames every
    context entry by its form (`RewriteContext`, 2218-2236).
  - A type is a record `[k, name, of]`. Positions, reasons, variance and the
    rest of a function type are left out, since the pass copies them. The
    names it generates (`T/[ctx $f]`, `T/[$g::C]`, `T/$g`, `T/[T::C::D]`)
    are built with string concatenation, as `format!` builds them.
  - `Accepted` says which signatures the type checker accepts. The pass
    also runs on the others, since declarations are built before type
    checking.
  - `Spec*` is the reference rewrite of the three patterns of spec 4.5.
    "Declared type" is read as the hint below its `?` and `~` wrappers.
    "Already a generic parameter" is read as a type parameter of this
    function, which is what the comment on `rewrite_arg_ctx` says. Read
    literally, the spec would also count a class's type parameter, for which
    the code synthesizes `T/$g as U`.
- **MCDirectDecl.tla**, **MCAttributes.tla**, **MCTypeHints.tla** and
  **MCEffectPolymorphism.tla** hold the model-checking definitions: small sets of
  names and scopes.

## Runs

| run | cfg | expect | what it shows |
|---|---|---|---|
| decls_wellformed | MCDirectDecl.cfg | pass | Covers every file of up to 3 productions, with every modelled malformed input and the group uses that carry no declaration kind. From every stack the callbacks reach, `namespace Y; namespace X;` leaves the same stack, use maps included, as closing Y and opening X (`NestingEquivalence`, the equivalence stated above `pop_previous_namespace`). While the file is well-formed: the builder's steps are steps of NamespaceScope (`NamespaceScopeRefined`), so imports stay in their block and go to the maps of their written kind; declarations are keyed by their source namespace (`DeclaredInSourceNamespace`); a bare hint is a generic exactly when an enclosing declaration declares it (`WellFormedTypeRefs`); constants go to the right class, and global constants are exactly the top-level ones (`WellFormedMembers`). |
| effect_polymorphism | MCEffectPolymorphism.cfg | pass | Covers every signature with parameters `$f` and `$g` of every hint form and up to two contexts. On an accepted signature, every generic the result mentions is declared (`WellScoped`). The result also equals the reference rewrite (`RewriteAsSpecified`): a signature without a parameter-dependent context comes back unchanged, `function f(G $g)[$g::C]` gets `T/$g as G`, `T/[$g::C]` and `T/[$g::C] = T/$g::C`, and two contexts on one parameter share its `T/$g`. |
| attributes | MCAttributes.cfg | pass | Covers every attribute list of up to 3 items drawn from the recognised names, an unknown one and non-attribute nodes. `__Deprecated`, `__Reifiable` and `__Module` take their value from their first occurrence in source order (`SingleValuedFirstInSourceOrder`). A `__Policied` anywhere wins, with the first one's parameter, and the default is `Policied("PUBLIC")` (`IfcResolution`). |
| attributes_ifc_first_seen | MCAttributesIfc.cfg | violation | `<<__InferFlows, __Policied>>` gives Policied. The spec (section 7) says the first one seen wins (1321-1326). |
| const_refs | MCConstRefs.cfg | pass | Takes up to 6 callbacks, with scope-resolution expressions before, inside, between and after declarators and missing names. Each declarator gets exactly the refs of its own initializer, `self::` included (`RefsOfOwnInitializer`). Accumulation is on exactly while a declarator is open (`ConstRefsTypeOK`). |
| yield_sentinel | MCYieldSentinel.cfg | pass | Covers 3800 bodies. The function is marked a generator exactly when its body has a yield outside a lambda (`GeneratorInferred`). |
| type_hints | MCTypeHints.cfg | pass | Covers every list of up to 2 type parameters whose constraints use forward references, `?U`, `~U`, `C<U>`, `(U, T)`, closures `(function(U): T)` and `(function(U...): T)`, `shape('a' => U)`, `varray<U>`, `darray<T, U>` and qualified names, in an empty or a class scope, followed by one parameter hint. Every name resolves as Hack says (`ResolvedInScope`). |
| type_hints_qualified_head | MCTypeHintsQualifiedHead.cfg | violation | `A\T<int>` in the scope of a type parameter `T` becomes `Tgeneric(T)`. `make_generic_type_specifier` tests the last segment of the head without checking for a delimiter (2910), although a qualified name cannot name a type parameter (1894-1896). |
| ns_panic | MCDirectDeclNsPanic.cfg | violation | `namespace { namespace; }` and similar inputs make `pop_previous_namespace` panic (473-474). |
| alias_tparam_leak | MCDirectDeclAliasLeak.cfg | violation | `type A<T> = ;` leaks `T` (3006-3009): a later hint `T` becomes a generic. |
| group_use_kind | MCDirectDeclGroupUse.cfg | violation | `use namespace X\{C};` also binds `C` as a type alias. `make_namespace_group_use_declaration` ignores the declaration's kind and uses the clause's, and that is Mixed when the clause has none (3618). `use function X\{f};` likewise imports `f`. |
| nameless_class_consts | MCDirectDeclNameless.cfg | violation | `class <T> { const int X = 1; }` adds the global constant `\X`. |

Each property of each passing run has a mutant in PROJECT.json: a
plausible bug in a mapped definition, such as a dropped guard, a missing pop
or reset, or an off-by-one in the slice. TLC finds each mutant under the
run's own cfg.

### Bounds

- DirectDecl:
  - at most `MaxDecls = 3` top-level productions, with `MaxMembers = 2`
    members per classish;
  - namespaces `A` and `B`, one declared name `C`, and one type parameter
    name `T`;
  - one imported name `X\C`, used with its default alias `C` or `as D`.
    Every kind token is used.

  `T` is also the only hint name, so every hint is a generic in some files
  and a class name in others. Three productions are enough for the longest
  interesting sequences:
  - namespace, namespace, declaration, for the semicolon-form replacement;
  - a failing declaration, then a declaration whose hint is wrongly
    resolved;
  - a class, then a top-level constant, for a stale tracker.

  `namespace A; use X\C; namespace B;` is also within the bound. In that
  sequence an import could leak into the next block. With 4 productions
  the run takes three minutes.

  Two members allow a method's own parameter scope next to the class's.
- Attributes: lists of up to `MaxAttrs = 3` items. That is enough for two
  occurrences of a single-valued attribute with something between them, and
  for `__Policied` and `__InferFlows` in both orders. The `__Module`
  parameters `a` and `a.b` exercise both outcomes of the split.
- ConstRefs: `MaxSteps = 6` callbacks. That is enough for a ref before a
  declarator, two refs inside it, the make, and a ref after it.
- YieldSentinel: expressions of depth 2 over every form, and bodies of one
  or two statements.
- EffectPolymorphism: two parameters, each with one of 20 hints. A hint is
  a function with capability `[_]` or `[io]`, the class `G`, the function's
  type parameter `T` or the class's `U`, either bare or under `?`, `~` or
  `~?`. There are up to two contexts out of ten:
  - `ctx $f` and `ctx $g`;
  - `$g::C`, `$g::D` and `$f::C`;
  - `T::C` and `U::C::D`;
  - `io`, `Foo::C` and `$g::C::D`, which the loop passes over.

  The function declares no type parameter or declares `T`. Two contexts
  are enough for two contexts on one parameter, in both orders, and for a
  context whose parameter another context has already rewritten.
- TypeHints:
  - names `T`, `U` and `C`, each bare or qualified;
  - hints of depth 1 (`?h`, `~h`, `C<h>`, `(h, h)`, a closure of either
    parameter kind, a one-field shape, `varray<h>`, `darray<h, h>`), with
    depth 2 through the constraints of a list of 2 parameters;
  - outer scopes: none, or one class list `{T}`.

  The generic head of the passing run is the class `C`. The violation run
  uses the head `T`, written qualified, inside the scope of `T`. A head that
  names an enclosing higher-kinded parameter (`<U as T<U>>`) breaks
  `ResolvedInScope` too, because `convert_tapply_to_tgeneric` returns a
  `Tgeneric` unconverted (1886). Higher-kinded parameters are experimental,
  so that case is recorded as a hazard and not kept as a run. A
  type-constant constraint (`<T as U::C, U as I>`) breaks it as well,
  because the repair has no `Taccess` arm (1886); see "Not modelled".

Every run finishes in seconds. The largest are MCAttributes (about 970,000
states), MCTypeHints (about 1,100,000), MCEffectPolymorphism (about 410,000)
and MCDirectDecl.cfg (about 250,000).

### Fairness

None is assumed. The parser may stop at any point: a file may end anywhere
the grammar allows. No property says that something must eventually happen:
the one loop that could be asked to end, `rewrite_effect_polymorphism`'s,
runs over a finite slice and ends whatever the code does.
The terminal states stutter:
- `EndOfFile` in DirectDecl, for a file that is complete or has panicked;
- `Done` in ConstRefs and TypeHints;
- `Reduced` in YieldSentinel.

MCAttributes.cfg and MCEffectPolymorphism.cfg turn deadlock checking off,
because `to_attributes` and `rewrite_effect_polymorphism` simply return once
their loop is done.

## Not modelled yet (plan for later sittings)

1. Elaboration of referenced names through the `use` maps (`elaborate_raw_id`,
   `elaborate_id`, 513-519, and the external `namespaces` crate). This
   would let a property follow an import all the way into a hint.
2. `read_member_modifiers` (365-387), `make_context_alias_declaration` and
   type constants, which are further users of the type-parameter stack.
3. Type-constant accesses in hints (`make_type_constant`, 5105-5147), the
   special names (`nothing`, `dynamic`, `vec_or_dict`) and shape field
   names. `convert_tapply_to_tgeneric` has no `Taccess` arm (1886), so in
   `<T as U::C, U as I>` the root `U` stays the class `\U`. TLC breaks
   `ResolvedInScope` in 3 states once such a hint is added to `Hints1`. No
   run slot is left for it, so it is recorded as a hazard.
4. The `Required` and `Lateinit` sentinels of XHP attributes, in
   YieldSentinel's style.

5. The `?~` hint wrapper in EffectPolymorphism. The loop does not unwrap
   `Toption(Tlike(..))`, so `?~(function()[_]: void) $f` with `[ctx $f]`
   leaves `T/[ctx $f]` undeclared. With that hint added to `MCHints`,
   `WellScoped` fails. No run slot is left for it, so it is recorded as a
   hazard.

Not modelled, by design:
- `emit_class.rs`, because its state lives in emitter types outside this
  repository;
- `special_class_resolver.rs`, which is a trait with no state;
- `rust_facts_ffi.rs`, which is pure FFI marshalling;
- the generated `mod.rs`.

`namespaces::elaborate_into_current_ns_in` lives in a crate outside `src/`.
It is modelled from the spec (`ElaborateIntoNs`, marked `spec_modelled`).
