------------------------ MODULE MCEffectPolymorphism ------------------------
(* Two parameters $f and $g; hints of every form the pass distinguishes   *)
(* (a function with capability [_], one with [io], a class, a type        *)
(* parameter of the function, one of the class), bare or under `?`, `~`  *)
(* and `~?`; contexts of every form the loop matches, and the nested and  *)
(* class-rooted projections it passes over.                               *)
EXTENDS EffectPolymorphism

MCBaseHints ==
    {Fun(<<Apply("_")>>), Fun(<<Apply("io")>>), Apply("G"),
     Generic("T"), Generic("U")}

MCHints ==
    UNION {{b, Option(b), Like(b), Like(Option(b))} : b \in MCBaseHints}

MCContexts ==
    {Apply("$f"), Apply("$g"), Apply("io"),
     Access(Apply("$g"), "C"), Access(Apply("$g"), "D"), Access(Apply("$f"), "C"),
     Access(Apply("Foo"), "C"), Access(Access(Apply("$g"), "C"), "D"),
     Access(Generic("T"), "C"), Access(Access(Generic("U"), "C"), "D")}
=============================================================================
