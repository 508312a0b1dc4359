---------------------------- MODULE MCDirectDecl ----------------------------
(* Files of up to MaxDecls top-level productions over namespaces A and B, *)
(* one declared name C and one type parameter name T, which is also used  *)
(* as a hint, so that each hint is a parameter in some files and a class  *)
(* name in others; `use` clauses import X\C, under its own name C or as D. *)
EXTENDS DirectDecl

MCNsNames == {<<"A">>, <<"B">>}

MCImportNames == {<<"X", "C">>}
=============================================================================
