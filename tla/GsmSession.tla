----------------------------- MODULE GsmSession -----------------------------
(***************************************************************************)
(* What the GSM driver promises the tasks that share it: sessions.  One    *)
(* task at a time has a session with the module; only its holder talks to  *)
(* the module, one exchange after another, and it closes the session only  *)
(* between exchanges.                                                      *)
(***************************************************************************)
CONSTANTS Tasks, NoTask

VARIABLES
  holder,  \* the task that has the session, or NoTask
  caller   \* the task that waits for a response, or NoTask

Init == holder = NoTask /\ caller = NoTask

Open(t) == holder = NoTask /\ caller = NoTask /\ holder' = t /\ UNCHANGED caller
Ask(t) == holder = t /\ caller = NoTask /\ caller' = t /\ UNCHANGED holder
Hear(t) == holder = t /\ caller = t /\ caller' = NoTask /\ UNCHANGED holder
Close(t) == holder = t /\ caller = NoTask /\ holder' = NoTask /\ UNCHANGED caller

Next == \E t \in Tasks : Open(t) \/ Ask(t) \/ Hear(t) \/ Close(t)
Spec == Init /\ [][Next]_<<holder, caller>>
=============================================================================
