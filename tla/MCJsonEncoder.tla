--------------------------- MODULE MCJsonEncoder ----------------------------
(* A zero, which has a tag of its own, a number, a string, one that cannot *)
(* stand between quotes, a char that is no digit and a double.             *)
EXTENDS JsonEncoder

MCValues == {<<"u16", 0>>, <<"u16", 7>>, <<"str", "text", 3>>,
             <<"str", "quote", 3>>, <<"char", 65>>, <<"double", 1>>}
=============================================================================
