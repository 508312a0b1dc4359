---------------------------- MODULE NamespaceScope ----------------------------
(***************************************************************************)
(* What the namespace builder promises the rest of the declaration parser, *)
(* without a stack: the namespace a declaration is in, and the `use`       *)
(* aliases in force there.  A file is a sequence of namespace blocks       *)
(* (`namespace N { ... }`, or `namespace N;` up to the next one).  A block *)
(* starts with the auto-imports only, and each `use` clause binds its      *)
(* alias for the rest of the block, as a type alias, a namespace alias or  *)
(* both, as its kind says; `use function` and `use const` bind neither.    *)
(*                                                                         *)
(* The spec is driven by `event`, the namespace or use clause the source   *)
(* shows at this step; a group use `use K P\{K' N as A}` is one event per  *)
(* clause, with the clause's kind K' if written, else K.                   *)
(***************************************************************************)
EXTENDS Sequences

CONSTANTS
    NoName,       \* the global namespace
    NoAlias,      \* a clause without `as`
    Events        \* the events a file can show

VARIABLES
    event,        \* the last namespace or use event of the source
    current,      \* the namespace declarations are put in
    classUses,    \* type aliases in force: a set of <<alias, name>>
    nsUses        \* namespace aliases in force

scopeVars == <<event, current, classUses, nsUses>>

UseKinds == {"type", "namespace", "mixed", "function", "const"}

\* Binding an alias replaces its earlier binding.
Rebind(m, a, t) == {b \in m : b[1] # a} \cup {<<a, t>>}

\* The alias of a clause: as written, else the last segment of its name.
AliasOf(e) == IF e.alias = NoAlias THEN e.target[Len(e.target)] ELSE e.alias

ScopeInit ==
    /\ event \in Events
    /\ current = NoName
    /\ classUses = {}
    /\ nsUses = {}

\* A namespace block starts, named or global.
Enter(e) ==
    /\ e.k = "namespace"
    /\ current' = e.name
    /\ classUses' = {}
    /\ nsUses' = {}

\* A braced block ends: back in the global namespace.
Leave(e) ==
    /\ e.k = "close"
    /\ current' = NoName
    /\ classUses' = {}
    /\ nsUses' = {}

\* A use clause binds its alias according to its kind.
Import(e) ==
    /\ e.k = "use"
    /\ classUses' = IF e.kind \in {"type", "mixed"}
                    THEN Rebind(classUses, AliasOf(e), e.target) ELSE classUses
    /\ nsUses' = IF e.kind \in {"namespace", "mixed"}
                 THEN Rebind(nsUses, AliasOf(e), e.target) ELSE nsUses
    /\ UNCHANGED current

ScopeNext ==
    \E e \in Events :
      /\ event' = e
      /\ Enter(e) \/ Leave(e) \/ Import(e)

ScopeSpec == ScopeInit /\ [][ScopeNext]_scopeVars
=============================================================================
