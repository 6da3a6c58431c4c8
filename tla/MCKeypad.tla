------------------------------ MODULE MCKeypad ------------------------------
(***************************************************************************)
(* Two columns with a vector each, and two keys, the first of which by row *)
(* is the second by column.                                                *)
(***************************************************************************)
EXTENDS Keypad

CONSTANTS v1, v2

TwoVectors == {v1, v2}
Diagonal == {<<1, 2>>, <<2, 1>>}
OneEach == [c \in Columns |-> IF c = 1 THEN v1 ELSE v2]
=============================================================================
