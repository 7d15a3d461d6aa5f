------------------------------ MODULE MCCompose ------------------------------
(* Instances of Compose for TLC: a file that fits once, and one that is too  *)
(* large by itself.                                                          *)
EXTENDS Compose

CONSTANTS large, huge

MCSize == large :> 2 @@ huge :> 3
MCLists == {<<large>>, <<huge, large>>}
=============================================================================
