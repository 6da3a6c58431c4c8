------------------------------- MODULE MCLcd --------------------------------
(***************************************************************************)
(* A display with two lines of two visible characters and a third behind   *)
(* them, and two characters to print.                                      *)
(***************************************************************************)
EXTENDS Lcd

CONSTANTS a

TwoOffsets == [l \in Lines |-> IF l = 0 THEN 0 ELSE 64]
Letters == {a, Blank}
=============================================================================
