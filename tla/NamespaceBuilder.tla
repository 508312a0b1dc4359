-------------------------- MODULE NamespaceBuilder --------------------------
(***************************************************************************)
(* The namespace builder of direct_decl_smart_constructors.rs: a stack of  *)
(* NamespaceEnv, one per open namespace declaration, with its name and    *)
(* its `use` maps for types (class_uses) and namespaces (ns_uses).  The    *)
(* auto-imported HH\ aliases new_in puts into every map are the same in   *)
(* every environment and are left out; an imported name is the sequence   *)
(* of its segments (add_import's trimming and leading-slash prefixing make *)
(* `A\B`, `\A\B` and `A\B\` the same name).                              *)
(*                                                                         *)
(* A namespace name is a string, modelled as the sequence of its           *)
(* characters, so that `starts_with` and the byte slice of                 *)
(* pop_previous_namespace are modelled by what they do.  DirectDecl       *)
(* drives these operators from the namespace and use callbacks.            *)
(***************************************************************************)
EXTENDS Naturals, Sequences, SequencesExt

CONSTANTS
    NoName,       \* Option::None for NamespaceEnv.name (the global namespace)
    NsNameArgs,   \* names a namespace header may carry (NoName = `namespace {`)
    ImportNames,  \* names in `use` clauses (sequences of segments)
    Aliases,      \* names after `as`
    NoAlias       \* a clause without `as`

Sep == "\\"       \* the one-character string "\"

ASSUME NoName \in NsNameArgs

VARIABLES
    nsStack,      \* NamespaceBuilder.stack
    panicked      \* TRUE once an assert or a slice of this builder panicked

\* The environment new_in pushes: the global namespace.
RootEnv == [name |-> NoName, classUses |-> {}, nsUses |-> {}]

\* The kinds of add_import: NamespaceUseKind::Type, Namespace and Mixed.
ImportKinds == {"type", "namespace", "mixed"}

\* nsenv.name.unwrap_or("\\")
NameOrRoot(env) == IF env.name = NoName THEN <<Sep>> ELSE env.name

CurrentNamespace(s) == Last(s).name

\* push_namespace: a shallow clone of the top environment (its `use` maps
\* included) whose name is nested in the current one; an unnamed
\* namespace (`namespace { ... }`) repeats the current name.
PushNamespace(s, name) ==
    LET current == CurrentNamespace(s)
    IN  Append(s, [Last(s) EXCEPT !.name = IF name = NoName THEN current
                                          ELSE IF current = NoName THEN name
                                          ELSE current \o <<Sep>> \o name])

\* SMap::add: the alias is bound to the name, replacing an earlier binding.
Bind(m, alias, name) == {b \in m : b[1] # alias} \cup {<<alias, name>>}

\* add_import into the top environment: without `as`, the alias is the
\* last segment of the name; Type binds it in class_uses, Namespace in
\* ns_uses, Mixed in both.
AddImport(s, kind, name, as) ==
    LET alias == IF as = NoAlias THEN Last(name) ELSE as
        env == Last(s)
    IN  [s EXCEPT ![Len(s)] =
           [env EXCEPT
              !.classUses = IF kind \in {"type", "mixed"}
                            THEN Bind(@, alias, name) ELSE @,
              !.nsUses = IF kind \in {"namespace", "mixed"}
                         THEN Bind(@, alias, name) ELSE @]]

\* pop_namespace never pops the root environment.
PopNamespace(s) == IF Len(s) > 1 THEN Front(s) ELSE s

\* The assert!(last.starts_with(previous)) and the slice
\* &last[previous.len() + 1..last.len()] of pop_previous_namespace panic.
PopPreviousPanics(s) ==
    /\ Len(s) > 2
    /\ LET last == NameOrRoot(s[Len(s)])
           prev == NameOrRoot(s[Len(s) - 1])
       IN  ~IsPrefix(prev, last) \/ Len(prev) + 1 > Len(last)

\* Mutant: the slice starts at previous.len(), keeping the separator.
PopPreviousNamespaceKeepSep(s) ==
    IF Len(s) > 2
    THEN LET last == NameOrRoot(s[Len(s)])
             prev == NameOrRoot(s[Len(s) - 1])
         IN  PushNamespace(SubSeq(s, 1, Len(s) - 2),
                           SubSeq(last, Len(prev) + 1, Len(last)))
    ELSE s

\* Mutant: only the last environment is popped, the previous one stays.
PopPreviousNamespaceOnce(s) ==
    IF Len(s) > 2
    THEN LET last == NameOrRoot(s[Len(s)])
             prev == NameOrRoot(s[Len(s) - 1])
         IN  PushNamespace(SubSeq(s, 1, Len(s) - 1),
                           SubSeq(last, Len(prev) + 2, Len(last)))
    ELSE s

\* Mutant: the last environment reused under the new name, instead of a
\* fresh push from the environment below the previous one.
PopPreviousNamespaceReuseLast(s) ==
    IF Len(s) > 2
    THEN LET last == NameOrRoot(s[Len(s)])
             prev == NameOrRoot(s[Len(s) - 1])
             base == SubSeq(s, 1, Len(s) - 2)
             pushed == PushNamespace(base, SubSeq(last, Len(prev) + 2, Len(last)))
         IN  Append(base, [s[Len(s)] EXCEPT !.name = Last(pushed).name])
    ELSE s

\* pop_previous_namespace, when it does not panic: pop the last two
\* environments and push the last name relative to the previous one.
PopPreviousNamespace(s) ==
    IF Len(s) > 2
    THEN LET last == NameOrRoot(s[Len(s)])
             prev == NameOrRoot(s[Len(s) - 1])
         IN  PushNamespace(SubSeq(s, 1, Len(s) - 2),
                           SubSeq(last, Len(prev) + 2, Len(last)))
    ELSE s

-----------------------------------------------------------------------------
NsTypeOK ==
    /\ \A i \in DOMAIN nsStack :
         /\ nsStack[i].name \in Seq(STRING) \cup {NoName}
         /\ \A b \in nsStack[i].classUses \cup nsStack[i].nsUses :
              b[2] \in ImportNames
    /\ Len(nsStack) >= 1
    /\ nsStack[1].name = NoName
    /\ panicked \in BOOLEAN

(* The equivalence stated above pop_previous_namespace (and in the spec's  *)
(* testable properties) for non-empty names X and Y, from every stack the  *)
(* callbacks reach: push(Y); pop; push(X) leaves the same stack, `use`     *)
(* maps included, as push(Y); push(X); pop_previous, which does not panic. *)
NestingEquivalence ==
    ~panicked =>
      \A x, y \in NsNameArgs \ {NoName} :
        LET nested == PushNamespace(PushNamespace(nsStack, y), x)
        IN  /\ ~PopPreviousPanics(nested)
            /\ PopPreviousNamespace(nested)
                 = PushNamespace(PopNamespace(PushNamespace(nsStack, y)), x)
=============================================================================
