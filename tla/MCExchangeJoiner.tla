-------------------------- MODULE MCExchangeJoiner --------------------------
(* ExchangeJoiner for TLC.  Two exchanges suffice for the pairing of one     *)
(* with the other's half; a third lets two hand-offs overlap a third call.   *)
(* Two values of a half tell the halves of an exchange apart.                *)
EXTENDS ExchangeJoiner

CONSTANTS whole, cut

MCIds   == 1 .. 3
MCViews == {whole, cut}
=============================================================================
