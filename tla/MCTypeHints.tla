----------------------------- MODULE MCTypeHints -----------------------------
EXTENDS TypeHints

\* Outer scopes: a top-level function, and a method of a class with <T>.
MCOuterScopes == {<<>>, <<{"T"}>>}
=============================================================================
