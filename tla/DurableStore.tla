---------------------------- MODULE DurableStore ----------------------------
(***************************************************************************)
(* What the file driver promises about its files, seen from outside: each  *)
(* file has a saved content, which survives a reset, and a current one,    *)
(* which does not.  A save is all or nothing.  After a failed write or     *)
(* save nothing of that file is saved until a write succeeds again, and    *)
(* what a failed write has torn is part of the next save after that.  (A   *)
(* save that fails without a trace is no step at all.)                     *)
(***************************************************************************)
CONSTANTS Files, Parts, Values, Blank, Torn

VARIABLES
  saved,    \* what a reset leaves of each file
  current,  \* what a reader sees
  failed    \* the last write or save of the file failed

Empty == [p \in Parts |-> Blank]

Init ==
  /\ saved = [f \in Files |-> Empty]
  /\ current = [f \in Files |-> Empty]
  /\ failed = [f \in Files |-> FALSE]

Write(f) ==
  /\ \E p \in Parts, v \in Values : current' = [current EXCEPT ![f][p] = v]
  /\ failed' = [failed EXCEPT ![f] = FALSE]
  /\ UNCHANGED saved

\* A failed write can leave its part torn.
FailWrite(f) ==
  /\ \/ UNCHANGED current
     \/ \E p \in Parts : current' = [current EXCEPT ![f][p] = Torn]
  /\ failed' = [failed EXCEPT ![f] = TRUE]
  /\ UNCHANGED saved

Save(f) ==
  /\ ~failed[f]
  /\ saved' = [saved EXCEPT ![f] = current[f]]
  /\ UNCHANGED <<current, failed>>

\* A save that reports a failure has saved everything or nothing.
FailSave(f) ==
  /\ ~failed[f]
  /\ \/ UNCHANGED saved
     \/ saved' = [saved EXCEPT ![f] = current[f]]
  /\ failed' = [failed EXCEPT ![f] = TRUE]
  /\ UNCHANGED current

\* The file is closed: what is not saved is lost.
Close(f) ==
  /\ \/ UNCHANGED saved
     \/ ~failed[f] /\ saved' = [saved EXCEPT ![f] = current[f]]
  /\ current' = [current EXCEPT ![f] = saved'[f]]
  /\ failed' = [failed EXCEPT ![f] = FALSE]

Restart ==
  /\ current' = saved
  /\ failed' = [f \in Files |-> FALSE]
  /\ UNCHANGED saved

Next ==
  \/ \E f \in Files : Write(f) \/ FailWrite(f) \/ Save(f) \/ FailSave(f) \/ Close(f)
  \/ Restart

Spec == Init /\ [][Next]_<<saved, current, failed>>
=============================================================================
