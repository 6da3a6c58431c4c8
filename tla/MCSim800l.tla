------------------------------ MODULE MCSim800l ------------------------------
(***************************************************************************)
(* Workloads of the TLC runs of Sim800l.                                   *)
(***************************************************************************)
EXTENDS Sim800l

StatusOnly == {StatusOp}
Everything == {StatusOp, ImsiOp, InitOp, DeinitOp} \cup {SmsOp(n, TRUE) : n \in Numbers \cup {NoNumber}}
CheckedSms == {SmsOp(n, TRUE) : n \in Numbers}
UncheckedSms == {SmsOp(n, FALSE) : n \in Numbers}
=============================================================================
