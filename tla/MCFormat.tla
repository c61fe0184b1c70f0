------------------------------ MODULE MCFormat ------------------------------
(* Inputs of the conversion checks: the keys k, j and kj and the values  *)
(* 1 and 20, so that entry lists have distinct and repeated keys, a key   *)
(* of two letters, and a value of which atoi() reads two digits.          *)
EXTENDS FormatCheck

MCKeys == {<<"k">>, <<"j">>, <<"k", "j">>}
MCValues == {<<"1">>, <<"2", "0">>}
=============================================================================
