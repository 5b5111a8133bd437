------------------------------ MODULE MCForward ------------------------------
(* Forward for TLC.  Exchanges share the joiner's lock, the count of those in *)
(* flight and the exit of the program: two of them, interchangeable, meet     *)
(* there in every order.                                                      *)
EXTENDS Forward, TLC

CONSTANTS x1, x2

MCViews == {whole, cut}
MCOne == {x1}
MCTwo == {x1, x2}
MCSymmetry == Permutations(MCTwo)
=============================================================================
