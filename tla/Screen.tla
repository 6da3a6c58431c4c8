------------------------------- MODULE Screen -------------------------------
(***************************************************************************)
(* What the LCD driver promises its caller: a screen.  An operation        *)
(* changes the cells it is to change and no other, and when it returns     *)
(* they are as wanted.  An operation that fails breaks the screen, which   *)
(* then shows anything until it is closed and opened again, blank.         *)
(***************************************************************************)
CONSTANTS Cells, Chars, Blank, Unknown

VARIABLES
  text,    \* what each cell shows
  wanted,  \* what it is to show when the operation is done
  state    \* off, ready, busy or broken

Texts == [Cells -> Chars \cup {Unknown}]

Init == state = "off" /\ text \in Texts /\ wanted \in Texts

\* While it is off or broken, it may show anything.
Flicker ==
  /\ state \in {"off", "broken"} /\ UNCHANGED state
  /\ text' \in Texts /\ wanted' \in Texts

Open ==
  /\ state = "off" /\ state' = "ready"
  /\ text' = [c \in Cells |-> Blank] /\ wanted' = text'

Begin ==
  /\ state = "ready" /\ state' = "busy"
  /\ wanted' \in Texts /\ UNCHANGED text

Redraw == \A c \in Cells : text'[c] \in {text[c], wanted[c]}

Draw ==
  /\ state = "busy" /\ text' \in Texts /\ Redraw
  /\ UNCHANGED <<wanted, state>>

Finish ==
  /\ state = "busy" /\ state' = "ready"
  /\ text = wanted /\ UNCHANGED <<text, wanted>>

Break ==
  /\ state = "busy" /\ state' = "broken"
  /\ text' \in Texts /\ Redraw /\ UNCHANGED wanted

\* The processor may be reset at any time, and the display lose its power with it.
Close ==
  /\ state # "off" /\ state' = "off"
  /\ text' \in Texts /\ wanted' \in Texts

Next == Flicker \/ Open \/ Begin \/ Draw \/ Finish \/ Break \/ Close
Spec == Init /\ [][Next]_<<text, wanted, state>>
=============================================================================
