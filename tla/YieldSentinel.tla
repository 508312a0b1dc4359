---------------------------- MODULE YieldSentinel ----------------------------
(***************************************************************************)
(* How direct_decl_smart_constructors.rs learns that a function body       *)
(* contains `yield` (function_to_ty: FGenerator / FAsyncGenerator): the    *)
(* Yield token is a sentinel that flatten and is_zero never drop and that  *)
(* make_list returns in place of a list containing it; expression          *)
(* callbacks with their own make_* either pass it on or replace it.        *)
(*                                                                         *)
(* A body is a syntax tree over a few statement and expression forms; its *)
(* reduction is computed bottom-up, as the parser drives the callbacks,    *)
(* by the RECURSIVE operator Reduce.  A reduced node is a record whose     *)
(* `k` is "yield" (the Yield token), "tok" (any other token), "expr" (a    *)
(* literal or Node::Expr), "ignored", or "list" with `items`.              *)
(***************************************************************************)
EXTENDS Naturals, Sequences, SequencesExt

VARIABLE body     \* the function body being reduced

Tok == [k |-> "tok"]
YieldTok == [k |-> "yield"]
Ignored == [k |-> "ignored"]
ExprNode == [k |-> "expr"]
List(s) == [k |-> "list", items |-> s]

\* Mutant: the sentinel tokens treated as zeros like every other token.
IsZeroNoSentinel(n) == n.k # "list"

\* is_zero: every node is a zero except the Yield token (and Required and
\* Lateinit, which occur in no body) and lists holding a non-zero.
RECURSIVE IsZero(_)
IsZero(n) ==
    CASE n.k = "yield" -> FALSE
      [] n.k = "list"  -> \A i \in DOMAIN n.items : IsZero(n.items[i])
      [] OTHER         -> TRUE

\* flatten: splice lists, drop zeros; nothing left is Ignored, one node is
\* returned as it is.
Flatten(lst) ==
    LET r == FoldLeft(LAMBDA acc, s :
                        IF s.k = "list" THEN acc \o s.items
                        ELSE IF IsZero(s) THEN acc ELSE Append(acc, s),
                      <<>>, lst)
    IN  CASE r = <<>>  -> Ignored
          [] Len(r) = 1 -> r[1]
          [] OTHER      -> List(r)

\* A production without a make_* of its own: the flattening smart
\* constructor returns zero(kind) when every child is a zero, else flatten.
Unhandled(children) ==
    IF \A i \in DOMAIN children : IsZero(children[i]) THEN Ignored
    ELSE Flatten(children)

\* Node::iter: a list's items, nothing for Ignored, else the node itself.
Iter(n) ==
    CASE n.k = "list"    -> n.items
      [] n.k = "ignored" -> <<>>
      [] OTHER           -> <<n>>

\* make_list: a Yield token among the items (one level down) is returned in
\* place of the list; otherwise the present items, or Ignored if none.
MakeList(items) ==
    IF \E i \in DOMAIN items : \E j \in DOMAIN Iter(items[i]) :
         Iter(items[i])[j].k = "yield"
    THEN YieldTok
    ELSE LET present == SelectSeq(items, LAMBDA n : n.k # "ignored")
         IN  IF present = <<>> THEN Ignored ELSE List(present)

\* node_to_expr succeeds on literals and expressions only.
IsExpr(n) == n.k = "expr"

\* make_binary_expression: `=` with a Yield right-hand side returns it;
\* otherwise both operands must convert to expressions.
BinaryExpression(op, lhs, rhs) ==
    IF op = "=" /\ rhs.k = "yield" THEN rhs
    ELSE IF IsExpr(lhs) /\ IsExpr(rhs) THEN ExprNode ELSE Ignored

\* make_prefix_unary_expression: the operand must convert to an expression.
PrefixUnaryExpression(value) == IF IsExpr(value) THEN ExprNode ELSE Ignored

\* The callbacks, bottom-up.  Statements: an expression statement and
\* `return e;` are unhandled productions (children: expression and `;`, or
\* `return`, expression and `;`); a block `{ s* }` is unhandled with the
\* braces around make_list of its statements.
RECURSIVE Reduce(_)
Reduce(t) ==
    CASE t.f = "literal" -> ExprNode                 \* make_literal_expression
      [] t.f = "var"     -> Ignored                  \* make_variable_expression
      [] t.f = "yield"   -> YieldTok                 \* make_yield_expression
      [] t.f = "paren"   -> Reduce(t.c[1])           \* make_parenthesized_expression
      [] t.f = "assign"  -> BinaryExpression("=", Reduce(t.c[1]), Reduce(t.c[2]))
      [] t.f = "plus"    -> BinaryExpression("+", Reduce(t.c[1]), Reduce(t.c[2]))
      [] t.f = "minus"   -> PrefixUnaryExpression(Reduce(t.c[1]))
      [] t.f = "call"    -> Ignored                  \* make_function_call_expression
      [] t.f = "lambda"  -> Ignored                  \* make_lambda_expression
      [] t.f = "stmt"    -> Unhandled(<<Reduce(t.c[1]), Tok>>)
      [] t.f = "return"  -> Unhandled(<<Tok, Reduce(t.c[1]), Tok>>)
      [] t.f = "block"   -> Unhandled(<<Tok, MakeList([i \in DOMAIN t.c |->
                                                        Reduce(t.c[i])]),
                                        Tok>>)

\* function_to_ty: the function is a generator when its reduced body
\* yields a Yield token.
IsGenerator(b) == \E i \in DOMAIN Iter(b) : Iter(b)[i].k = "yield"

-----------------------------------------------------------------------------
(* Bounded bodies.  Hack accepts `yield` only as an expression statement, *)
(* as the right-hand side of an assignment and as the operand of return   *)
(* (parenthesised or not); anywhere else the parser reports an error.     *)
(* Bodies put yields in those positions, and in lambdas, around           *)
(* expressions of depth at most 2 built with every other form.            *)
T(f, c) == [f |-> f, c |-> c]
Var == T("var", <<>>)

\* Yield expressions in a position Hack accepts, with operand from E.
Yields(E) == LET y == {T("yield", <<e>>) : e \in E}
             IN  y \cup {T("paren", <<x>>) : x \in y}

\* Expressions without a yield of their own; lambdas may yield.
Grow(E) ==
    E \cup {T(f, <<e>>) : f \in {"paren", "minus", "call"}, e \in E}
      \cup {T("assign", <<Var, e>>) : e \in E}
      \cup {T("plus", <<a, b>>) : a, b \in E}
      \cup {T("lambda", <<T("block", <<T("stmt", <<e>>)>>)>>) :
              e \in E \cup Yields(E)}

E0 == {T("literal", <<>>), Var}
E1 == Grow(E0)
E2 == Grow(E1)

Stmts(E) ==
    {T(f, <<e>>) : f \in {"stmt", "return"}, e \in E \cup Yields(E0)}
      \cup {T("stmt", <<T("assign", <<Var, y>>)>>) : y \in Yields(E0)}

Bodies ==
    {T("block", <<s>>) : s \in Stmts(E2)} \cup
    {T("block", <<s1, s2>>) : s1, s2 \in Stmts(E1)}

\* The syntactic reference: a yield expression outside any lambda.
RECURSIVE ContainsYield(_)
ContainsYield(t) ==
    /\ t.f # "lambda"
    /\ t.f = "yield" \/ \E i \in DOMAIN t.c : ContainsYield(t.c[i])

Init == body \in Bodies

\* Every body is reduced once; nothing changes afterwards.
Reduced == UNCHANGED body

Spec == Init /\ [][Reduced]_body

(* The spec (Flattening rule for lists): the yield sentinel is never       *)
(* dropped, so that the generator-ness of the enclosing function can be    *)
(* inferred: function_to_ty marks a function as a generator exactly when   *)
(* its body has a yield expression outside any lambda, however the other   *)
(* statements and expressions around it reduce.                            *)
GeneratorInferred ==
    IsGenerator(Reduce(body)) = ContainsYield(body)
=============================================================================
