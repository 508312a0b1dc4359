----------------------------- MODULE Attributes -----------------------------
(***************************************************************************)
(* to_attributes of direct_decl_smart_constructors.rs: the interpretation  *)
(* of the user-attribute list of one declaration, as the loop the code     *)
(* runs.  The loop visits the list in reverse; every recognised attribute  *)
(* overwrites its field, except that __InferFlows is skipped once a        *)
(* __Policied was seen (ifc_already_policied).                             *)
(*                                                                         *)
(* Data: a string parameter is a sequence of characters (so the split of  *)
(* __Module's parameter on '.' is modelled by what it does); a position is *)
(* the attribute's index in the source list.  The boolean attributes are   *)
(* one set of flags, since each only sets its own field to true.          *)
(***************************************************************************)
EXTENDS Naturals, Sequences, SequencesExt

CONSTANTS
    Names,        \* attribute names in the input, recognised or not
    BoolAttrs,    \* the recognised names that set a boolean field
    StrParams,    \* string literal parameters (character sequences)
    ClassParams,  \* class-name parameters (`Foo::class`)
    NoParam,      \* an absent first parameter (Option::None)
    MaxAttrs      \* bound on the length of an attribute list

Dot == "."
Public == <<"P", "U", "B", "L", "I", "C">>

ASSUME BoolAttrs \subseteq Names /\ NoParam \notin StrParams \cup ClassParams

VARIABLES
    node,         \* the node to_attributes is given
    order,        \* the items in the order the loop visits them
    k,            \* loop cursor into `order`
    attributes,   \* the Attributes record being built
    policied,     \* ifc_already_policied
    pc            \* "start", "loop" or "done"

vars == <<node, order, k, attributes, policied, pc>>

(* An item of the list: a Node::Attribute (name, first string literal     *)
(* parameter, first class-name parameter) or any other node.              *)
NotAttribute == [attr |-> FALSE]
RawItems ==
    {NotAttribute} \cup
    [attr : {TRUE}, name : Names, str : StrParams \cup {NoParam},
     cls : ClassParams \cup {NoParam}]

\* An attribute at index j of the list has position j.
AtPosition(a, j) ==
    IF a.attr
    THEN [attr |-> TRUE, name |-> a.name, str |-> a.str, cls |-> a.cls, pos |-> j]
    ELSE a

\* The node: a List or BracketedList of items, or any other node.
Nodes ==
    {[kind |-> "other"]} \cup
    {[kind |-> kd, items |-> [j \in DOMAIN s |-> AtPosition(s[j], j)]] :
        kd \in {"list", "bracketed"}, s \in BoundedSeq(RawItems, MaxAttrs)}

\* Mutant: no IFC attribute by default.
DefaultIfcFunDeclNone == [kind |-> "none", param |-> NoParam]

\* default_ifc_fun_decl: FDPolicied(Some("PUBLIC")).
DefaultIfcFunDecl == [kind |-> "policied", param |-> Public]

\* The Attributes record to_attributes starts from.
DefaultAttributes ==
    [deprecated |-> NoParam, reifiable |-> NoParam, module |-> NoParam,
     ifc |-> DefaultIfcFunDecl, flags |-> {}]

\* str.split('.') on a character sequence: the segments between dots.
RECURSIVE SplitOnDot(_)
SplitOnDot(s) ==
    IF \A i \in DOMAIN s : s[i] # Dot
    THEN <<s>>
    ELSE LET d == CHOOSE i \in DOMAIN s :
                    s[i] = Dot /\ \A j \in 1..(i - 1) : s[j] # Dot
         IN  <<SubSeq(s, 1, d - 1)>> \o SplitOnDot(SubSeq(s, d + 1, Len(s)))

\* __Module: the first string parameter split on '.', as
\* Module_(first segment, remaining segments); None without a parameter.
ModuleOf(p) ==
    IF p = NoParam THEN NoParam
    ELSE LET parts == SplitOnDot(p) IN <<Head(parts), Tail(parts)>>

\* Mutant: the loop over the list in source order.
IterOrderForward(items) == items

\* The loop runs over nodes.iter().rev().
IterOrder(items) == Reverse(items)

\* One iteration of the loop on item a.
ApplyAttribute(attrs, a, seenPolicied) ==
    IF ~a.attr THEN attrs
    ELSE CASE a.name = "__Deprecated" -> [attrs EXCEPT !.deprecated = a.str]
           [] a.name = "__Reifiable"  -> [attrs EXCEPT !.reifiable = a.pos]
           [] a.name = "__Module"     -> [attrs EXCEPT !.module = ModuleOf(a.str)]
           [] a.name = "__Policied"   ->
                [attrs EXCEPT !.ifc = [kind |-> "policied",
                                       param |-> IF a.cls # NoParam THEN a.cls
                                                 ELSE a.str]]
           [] a.name = "__InferFlows" ->
                IF seenPolicied THEN attrs
                ELSE [attrs EXCEPT !.ifc = [kind |-> "inferflows",
                                            param |-> NoParam]]
           [] a.name \in BoolAttrs    -> [attrs EXCEPT !.flags = @ \cup {a.name}]
           [] OTHER                   -> attrs

\* Mutant: ifc_already_policied never set.
SeenPoliciedNever(seenPolicied, a) == seenPolicied

\* ifc_already_policied after item a.
SeenPolicied(seenPolicied, a) ==
    seenPolicied \/ (a.attr /\ a.name = "__Policied")

-----------------------------------------------------------------------------
Init ==
    /\ node \in Nodes
    /\ order = <<>>
    /\ k = 0
    /\ attributes = DefaultAttributes
    /\ policied = FALSE
    /\ pc = "start"

\* The match on the node: anything but a list returns the defaults.
Start ==
    /\ pc = "start"
    /\ IF node.kind \in {"list", "bracketed"}
       THEN /\ order' = IterOrder(node.items)
            /\ k' = 1
            /\ pc' = "loop"
       ELSE /\ pc' = "done"
            /\ UNCHANGED <<order, k>>
    /\ UNCHANGED <<node, attributes, policied>>

Step ==
    /\ pc = "loop" /\ k <= Len(order)
    /\ attributes' = ApplyAttribute(attributes, order[k], policied)
    /\ policied' = SeenPolicied(policied, order[k])
    /\ k' = k + 1
    /\ UNCHANGED <<node, order, pc>>

Finish ==
    /\ pc = "loop" /\ k > Len(order)
    /\ pc' = "done"
    /\ UNCHANGED <<node, order, k, attributes, policied>>

Next == Start \/ Step \/ Finish

Spec == Init /\ [][Next]_vars

-----------------------------------------------------------------------------
(* Reference definitions, over the list in source order.                   *)

\* The attribute items of the node, in source order.
SourceItems ==
    IF node.kind \in {"list", "bracketed"} THEN node.items ELSE <<>>

\* The positions of the attributes named n, in source order.
Occurrences(n) ==
    {j \in DOMAIN SourceItems : SourceItems[j].attr /\ SourceItems[j].name = n}

\* The first attribute named n in source order.
First(n) == SourceItems[CHOOSE j \in Occurrences(n) :
                          \A i \in Occurrences(n) : j <= i]

\* The segments of s between its dots, found from the dots' positions.
Segments(s) ==
    LET cuts == <<0>> \o SetToSortSeq({i \in DOMAIN s : s[i] = Dot}, <)
                     \o <<Len(s) + 1>>
    IN  [i \in 1..(Len(cuts) - 1) |-> SubSeq(s, cuts[i] + 1, cuts[i + 1] - 1)]

AttrTypeOK ==
    /\ pc \in {"start", "loop", "done"}
    /\ policied \in BOOLEAN
    /\ attributes.flags \subseteq BoolAttrs
    /\ attributes.ifc.kind \in {"policied", "inferflows"}
    /\ k \in 0..(MaxAttrs + 1)

(* The spec's reversed iteration (4.4) makes the first occurrence in       *)
(* source order of a single-valued attribute the one that counts: once    *)
(* the loop of to_attributes is done, __Deprecated's message, the          *)
(* position of __Reifiable and __Module's split name come from the first  *)
(* such attribute, and are None when there is none (or no list).          *)
SingleValuedFirstInSourceOrder ==
    pc = "done" =>
      /\ attributes.deprecated =
           IF Occurrences("__Deprecated") = {} THEN NoParam
           ELSE First("__Deprecated").str
      /\ attributes.reifiable =
           IF Occurrences("__Reifiable") = {} THEN NoParam
           ELSE First("__Reifiable").pos
      /\ attributes.module =
           IF Occurrences("__Module") = {} \/ First("__Module").str = NoParam
           THEN NoParam
           ELSE <<Head(Segments(First("__Module").str)),
                  Tail(Segments(First("__Module").str))>>

(* The IFC attribute to_attributes settles on: a __Policied anywhere in    *)
(* the list wins (the spec's example <<Policied("A")>> <<InferFlows>>),     *)
(* with the parameter of the first __Policied; otherwise __InferFlows if   *)
(* present; otherwise the default Policied("PUBLIC").                      *)
IfcResolution ==
    pc = "done" =>
      attributes.ifc =
        IF Occurrences("__Policied") # {}
        THEN [kind |-> "policied",
              param |-> IF First("__Policied").cls # NoParam
                        THEN First("__Policied").cls ELSE First("__Policied").str]
        ELSE IF Occurrences("__InferFlows") # {}
        THEN [kind |-> "inferflows", param |-> NoParam]
        ELSE DefaultIfcFunDecl

(* The spec (7, error taxonomy 2): of the mutually exclusive __Policied    *)
(* and __InferFlows, the first occurrence in source order wins.            *)
IfcFirstSeenWins ==
    pc = "done" =>
      LET ifcs == Occurrences("__Policied") \cup Occurrences("__InferFlows")
      IN  ifcs # {} =>
            LET j == CHOOSE j \in ifcs : \A i \in ifcs : j <= i
            IN  attributes.ifc.kind =
                  IF SourceItems[j].name = "__Policied" THEN "policied"
                  ELSE "inferflows"
=============================================================================
