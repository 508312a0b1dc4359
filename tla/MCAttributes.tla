---------------------------- MODULE MCAttributes ----------------------------
(* Attribute lists of up to three items over the single-valued attributes, *)
(* the two IFC attributes, one boolean attribute and one unrecognised      *)
(* name; two string parameters, one with a dot, so that first and last     *)
(* occurrences differ and the module split has two segments.              *)
EXTENDS Attributes

MCNames == {"__Deprecated", "__Reifiable", "__Module", "__Policied",
            "__InferFlows", "__Override", "__Other"}
MCStrParams == {<<"a">>, <<"a", ".", "b">>}
=============================================================================
