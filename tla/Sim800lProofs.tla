---------------------------- MODULE Sim800lProofs ----------------------------
(***************************************************************************)
(* Proofs about the GSM driver, for every set of tasks, every workload and *)
(* every value of the bounds: its types, that transactions exclude each    *)
(* other, that no operation keeps the mutex, and that the driver           *)
(* implements GsmSession.                                                  *)
(*                                                                         *)
(* The argument is the lock discipline.  A task inside an operation holds  *)
(* the mutex, or executes init() and is alone; conversely the owner of the *)
(* mutex is inside an operation.  g_calling_task_handle names exactly the  *)
(* task that is inside transact().                                         *)
(***************************************************************************)
EXTENDS Sim800l, SequenceTheorems, TLAPS

\* Between taking the mutex, or starting init(), and giving it back.
SessionPcs ==
  {"next", "arm", "send", "wait", "view", "abort", "clean1", "clean2", "judge", "sleep",
   "teardown", "give"}
TransactPcs == {"arm", "send", "wait", "view", "abort", "clean1", "clean2"}

InitAlone ==
  \A t, u \in Tasks : op[t].name = "init" /\ pc[t] # "idle" /\ u # t => pc[u] = "idle"

InitTakesNoMutex ==
  \A t \in Tasks : op[t].name = "init" => pc[t] \notin {"take", "teardown", "give", "delete", "clear"}

InsideMeansOwner ==
  \A t \in Tasks : pc[t] \in SessionPcs /\ op[t].name # "init" => mutexOwner = t

OwnerIsInside ==
  \A t \in Tasks : mutexOwner = t => pc[t] \in SessionPcs /\ op[t].name # "init"

DepthMeansHeld == mutexDepth = 0 <=> mutexOwner = NoTask

CallerIsInTransact == \A t \in Tasks : pc[t] \in TransactPcs <=> callingTask = t

LockDiscipline ==
  /\ InitAlone /\ InitTakesNoMutex
  /\ InsideMeansOwner /\ OwnerIsInside /\ DepthMeansHeld
  /\ CallerIsInTransact

\* A task that has yet to send, or to judge what came back, has a command.
SendingPcs == TransactPcs \cup {"take", "next", "judge", "sleep"}
SomethingToSend == \A t \in Tasks : pc[t] \in SendingPcs => todo[t] # <<>>

IInv == TypeOK /\ LockDiscipline /\ SomethingToSend
-----------------------------------------------------------------------------
(* The lock discipline *)

\* A step that moves one task from a label to another, and leaves the mutex
\* and the operations alone.
Moves(t, from, to) ==
  /\ pc[t] \in from
  /\ \E label \in to : pc' = [pc EXCEPT ![t] = label]
  /\ UNCHANGED <<op, mutexOwner, mutexDepth>>

LEMMA DisciplineInit == Init => LockDiscipline
BY ConstantsAssumption DEF Init, LockDiscipline, InitAlone, InitTakesNoMutex, InsideMeansOwner,
   OwnerIsInside, DepthMeansHeld, CallerIsInTransact, TransactPcs, SessionPcs, NoOp, Op

\* The steps of transact() between its first and its last
LEMMA TransactStep ==
  ASSUME TypeOK, LockDiscipline, NEW t \in Tasks,
         Moves(t, TransactPcs, TransactPcs), UNCHANGED callingTask
  PROVE  LockDiscipline'
BY ConstantsAssumption DEF TypeOK, Moves, LockDiscipline, InitAlone, InitTakesNoMutex,
   InsideMeansOwner, OwnerIsInside, DepthMeansHeld, CallerIsInTransact, TransactPcs, SessionPcs

\* The steps between two transactions of an operation
LEMMA BetweenStep ==
  ASSUME TypeOK, LockDiscipline, NEW t \in Tasks,
         Moves(t, {"judge", "sleep"}, {"next", "sleep"})
           \/ (Moves(t, {"judge", "sleep", "teardown"}, {"teardown", "give"}) /\ op[t].name # "init"),
         UNCHANGED callingTask
  PROVE  LockDiscipline'
<1>1. CASE Moves(t, {"judge", "sleep"}, {"next", "sleep"})
  <2>1. InitAlone' /\ InitTakesNoMutex' /\ DepthMeansHeld'
    BY <1>1 DEF TypeOK, Moves, LockDiscipline, InitAlone, InitTakesNoMutex, DepthMeansHeld
  <2>2. InsideMeansOwner' /\ OwnerIsInside'
    BY <1>1, ConstantsAssumption
       DEF TypeOK, Moves, LockDiscipline, InsideMeansOwner, OwnerIsInside, SessionPcs
  <2>3. CallerIsInTransact'
    BY <1>1 DEF TypeOK, Moves, LockDiscipline, CallerIsInTransact, TransactPcs
  <2> QED BY <2>1, <2>2, <2>3 DEF LockDiscipline
<1>2. CASE Moves(t, {"judge", "sleep", "teardown"}, {"teardown", "give"}) /\ op[t].name # "init"
  BY <1>2, ConstantsAssumption
     DEF TypeOK, Moves, LockDiscipline, InitAlone, InitTakesNoMutex, InsideMeansOwner,
         OwnerIsInside, DepthMeansHeld, CallerIsInTransact, TransactPcs, SessionPcs
<1> QED BY <1>1, <1>2

\* The steps of a task that holds nothing: it comes in, or it leaves
LEMMA OutsideStep ==
  ASSUME TypeOK, LockDiscipline, NEW t \in Tasks,
         Moves(t, {"take", "clear"}, {"idle"})
           \/ Moves(t, {"delete"}, {"clear"})
           \/ (Moves(t, {"judge", "sleep"}, {"idle"}) /\ op[t].name = "init"),
         UNCHANGED callingTask
  PROVE  LockDiscipline'
<1>1. CASE Moves(t, {"take", "clear"}, {"idle"})
  BY <1>1, ConstantsAssumption
     DEF TypeOK, Moves, LockDiscipline, InitAlone, InitTakesNoMutex, InsideMeansOwner,
         OwnerIsInside, DepthMeansHeld, CallerIsInTransact, TransactPcs, SessionPcs
<1>2. CASE Moves(t, {"delete"}, {"clear"})
  BY <1>2, ConstantsAssumption
     DEF TypeOK, Moves, LockDiscipline, InitAlone, InitTakesNoMutex, InsideMeansOwner,
         OwnerIsInside, DepthMeansHeld, CallerIsInTransact, TransactPcs, SessionPcs
<1>3. CASE Moves(t, {"judge", "sleep"}, {"idle"}) /\ op[t].name = "init"
  BY <1>3, ConstantsAssumption
     DEF TypeOK, Moves, LockDiscipline, InitAlone, InitTakesNoMutex, InsideMeansOwner,
         OwnerIsInside, DepthMeansHeld, CallerIsInTransact, TransactPcs, SessionPcs
<1> QED BY <1>1, <1>2, <1>3

LEMMA DisciplineStep ==
  ASSUME TypeOK, LockDiscipline, [Next]_vars
  PROVE  LockDiscipline'
<1> USE ConstantsAssumption
<1> DEFINE Unmoved == UNCHANGED <<pc, op, mutexOwner, mutexDepth, callingTask>>
<1>0. ASSUME Unmoved PROVE LockDiscipline'
  BY <1>0 DEF LockDiscipline, InitAlone, InitTakesNoMutex, InsideMeansOwner, OwnerIsInside,
     DepthMeansHeld, CallerIsInTransact
<1>1. CASE UNCHANGED vars
  BY <1>0, <1>1 DEF vars, taskVars, mutexVars, isrVars
<1>2. CASE Interrupt \/ Module
  <2>1. Unmoved
    BY <1>2 DEF Interrupt, Module, TxDone, EndTransmit, RxHalf, RxEnd, RxError, BurstLost, ModuleAnswers,
       ModuleSpeaks, taskVars, mutexVars, isrVars
  <2> QED BY <1>0, <2>1
<1>3. ASSUME NEW t \in Tasks, Enter(t) PROVE LockDiscipline'
  <2>1. PICK o \in Workload : Call(t, o) \/ CallRefused(t, o)
    BY <1>3 DEF Enter
  <2>2. CASE CallRefused(t, o)
    BY <1>0, <2>2 DEF CallRefused, mutexVars, isrVars
  <2>3. CASE Call(t, o)
    <3>1. /\ pc[t] = "idle" /\ op' = [op EXCEPT ![t] = o]
          /\ pc' = [pc EXCEPT ![t] = IF o.name = "init" THEN "next" ELSE "take"]
          /\ UNCHANGED <<mutexOwner, mutexDepth, callingTask>>
      BY <2>3 DEF Call, Goto, mutexVars, isrVars
    <3>2. \A u \in Tasks \ {t} :
            pc[u] = "idle" \/ "init" \notin {o.name, op[u].name}
      BY <2>3 DEF Call, MayCall
    <3> QED
      BY <3>1, <3>2 DEF TypeOK, LockDiscipline, InitAlone, InitTakesNoMutex, InsideMeansOwner,
         OwnerIsInside, DepthMeansHeld, CallerIsInTransact, TransactPcs, SessionPcs
  <2> QED BY <2>1, <2>2, <2>3
<1>4. ASSUME NEW t \in Tasks, Locking(t) PROVE LockDiscipline'
  <2>1. CASE TakeMutex(t)
    <3>1. /\ pc[t] = "take" /\ pc' = [pc EXCEPT ![t] = "next"]
          /\ mutexOwner = NoTask /\ mutexOwner' = t /\ mutexDepth' = 1
          /\ UNCHANGED <<op, callingTask>>
      BY <2>1 DEF TakeMutex, MutexFree, Goto, isrVars
    <3>2. InitAlone' /\ InitTakesNoMutex'
      BY <3>1 DEF TypeOK, LockDiscipline, InitAlone, InitTakesNoMutex
    <3>3. InsideMeansOwner' /\ OwnerIsInside' /\ DepthMeansHeld'
      BY <3>1 DEF TypeOK, LockDiscipline, InitTakesNoMutex, InsideMeansOwner, OwnerIsInside,
         DepthMeansHeld, SessionPcs
    <3>4. CallerIsInTransact'
      BY <3>1 DEF TypeOK, LockDiscipline, CallerIsInTransact, TransactPcs
    <3> QED BY <3>2, <3>3, <3>4 DEF LockDiscipline
  <2>2. CASE TakeTimeout(t) \/ TakeDeleted(t)
    <3>1. Moves(t, {"take", "clear"}, {"idle"}) /\ UNCHANGED callingTask
      BY <2>2 DEF TakeTimeout, TakeDeleted, Moves, Goto, mutexVars, isrVars
    <3> QED BY <3>1, OutsideStep
  <2>3. CASE NestedTake(t) \/ NestedGive(t)
    <3>1. /\ UNCHANGED <<pc, op, mutexOwner, callingTask>>
          /\ mutexDepth # 0 /\ mutexDepth' # 0
      BY <2>3 DEF NestedTake, NotNested, NestedGive, taskVars, isrVars
    <3> QED BY <3>1 DEF LockDiscipline, InitAlone, InitTakesNoMutex, InsideMeansOwner,
                        OwnerIsInside, DepthMeansHeld, CallerIsInTransact
  <2>4. CASE Give(t) /\ LastGive
    <3>1. /\ pc[t] = "give" /\ mutexDepth' = 0 /\ mutexOwner' = NoTask
          /\ \E label \in {"delete", "idle"} : pc' = [pc EXCEPT ![t] = label]
          /\ op[t].name = "deinit" \/ pc' = [pc EXCEPT ![t] = "idle"]
          /\ UNCHANGED <<op, callingTask>>
      BY <2>4 DEF Give, LastGive, Goto, isrVars
    <3> QED
      BY <3>1 DEF TypeOK, LockDiscipline, InitAlone, InitTakesNoMutex, InsideMeansOwner,
         OwnerIsInside, DepthMeansHeld, CallerIsInTransact, TransactPcs, SessionPcs
  <2>5. CASE Give(t) /\ ~LastGive
    <3>1. /\ UNCHANGED <<pc, op, mutexOwner, callingTask>>
          /\ pc[t] = "give" /\ mutexDepth # 1 /\ mutexDepth' = mutexDepth - 1
      BY <2>5 DEF Give, LastGive, isrVars
    <3>2. mutexOwner # NoTask
      BY <3>1 DEF LockDiscipline, InsideMeansOwner, InitTakesNoMutex, SessionPcs
    <3>3. mutexDepth' # 0
      BY <3>1 DEF TypeOK
    <3> QED BY <3>1, <3>2, <3>3 DEF LockDiscipline, InitAlone, InitTakesNoMutex,
                InsideMeansOwner, OwnerIsInside, DepthMeansHeld, CallerIsInTransact
  <2> QED BY <1>4, <2>1, <2>2, <2>3, <2>4, <2>5 DEF Locking
<1>5. ASSUME NEW t \in Tasks, Transact(t) PROVE LockDiscipline'
  <2>1. CASE Begin(t)
    <3>1. /\ pc[t] = "next" /\ callingTask' = t /\ pc' = [pc EXCEPT ![t] = "arm"]
          /\ UNCHANGED <<op, mutexOwner, mutexDepth>>
      BY <2>1 DEF Begin, Goto, mutexVars
    <3>2. \A u \in Tasks \ {t} : pc[u] \notin TransactPcs
      BY <3>1 DEF LockDiscipline, InitAlone, InsideMeansOwner, TransactPcs, SessionPcs
    <3>3. CallerIsInTransact'
      BY <3>1, <3>2 DEF TypeOK, CallerIsInTransact, TransactPcs
    <3> QED
      BY <3>1, <3>3 DEF TypeOK, LockDiscipline, InitAlone, InitTakesNoMutex, InsideMeansOwner,
         OwnerIsInside, DepthMeansHeld, SessionPcs
  <2>2. CASE Clean2(t)
    BY <2>2 DEF Clean2, Goto, mutexVars, TypeOK, LockDiscipline, InitAlone,
       InitTakesNoMutex, InsideMeansOwner, OwnerIsInside, DepthMeansHeld, CallerIsInTransact,
       TransactPcs, SessionPcs
  <2>3. CASE \/ Arm(t) \/ ArmFails(t) \/ Send(t) \/ SendFails(t) \/ TakeNotification(t)
             \/ WaitTimeout(t) \/ Abort(t) \/ View(t) \/ Clean1(t)
    <3>1. Moves(t, TransactPcs, TransactPcs) /\ UNCHANGED callingTask
      BY <2>3 DEF Arm, ArmFails, Send, SendFails, TakeNotification, WaitTimeout, Abort, View,
         Clean1, Moves, TransactPcs, Goto, mutexVars, isrVars
    <3> QED BY <3>1, TransactStep
  <2> QED BY <1>5, <2>1, <2>2, <2>3 DEF Transact
<1>6. ASSUME NEW t \in Tasks, Decide(t) PROVE LockDiscipline'
  <2>1. CASE JudgeOk(t) \/ JudgeFailed(t) \/ Sleep(t)
    <3>1. /\ \/ Moves(t, {"judge", "sleep"}, {"next", "sleep"})
             \/ Moves(t, {"judge", "sleep"}, {"give"}) /\ op[t].name # "init"
             \/ Moves(t, {"judge", "sleep"}, {"idle"}) /\ op[t].name = "init"
          /\ UNCHANGED callingTask
      BY <2>1 DEF JudgeOk, JudgeFailed, Sleep, Leave, Moves, Goto, isrVars
    <3> QED BY <3>1, BetweenStep, OutsideStep DEF Moves
  <2>2. CASE JudgeDeinit(t)
    <3>1. /\ Moves(t, {"judge", "sleep", "teardown"}, {"teardown", "give"})
          /\ op[t].name # "init" /\ UNCHANGED callingTask
      BY <2>2 DEF JudgeDeinit, Moves, Goto, mutexVars, isrVars
    <3> QED BY <3>1, BetweenStep
  <2>3. CASE Teardown(t)
    <3>1. /\ Moves(t, {"judge", "sleep", "teardown"}, {"teardown", "give"})
          /\ pc[t] = "teardown" /\ callingTask' = NoTask
      BY <2>3 DEF Teardown, Moves, Goto, mutexVars
    <3>2. op[t].name # "init" /\ mutexOwner = t
      BY <3>1 DEF LockDiscipline, InitTakesNoMutex, InsideMeansOwner, SessionPcs
    <3>3. callingTask = NoTask
      BY <3>1, <3>2 DEF TypeOK, LockDiscipline, InitAlone, InsideMeansOwner,
         CallerIsInTransact, TransactPcs, SessionPcs
    <3> QED BY <3>1, <3>2, <3>3, BetweenStep
  <2>4. CASE DeleteMutex(t) \/ ClearInitialized(t)
    <3>1. /\ Moves(t, {"delete"}, {"clear"}) \/ Moves(t, {"take", "clear"}, {"idle"})
          /\ UNCHANGED callingTask
      BY <2>4 DEF DeleteMutex, ClearInitialized, Moves, Goto, mutexVars, isrVars
    <3> QED BY <3>1, OutsideStep
  <2> QED BY <1>6, <2>1, <2>2, <2>3, <2>4 DEF Decide
<1> QED BY <1>1, <1>2, <1>3, <1>4, <1>5, <1>6 DEF Next, Proceed
-----------------------------------------------------------------------------
(* Types *)

LEMMA PlainType ==
  ASSUME NEW name \in CmdNames PROVE Plain(name) \in Command
BY DEF Plain, Command

\* A plan is a sequence of commands, and never empty.
LEMMA PlanType ==
  ASSUME NEW o \in Operations, NEW t \in Tasks, NEW id \in Nat
  PROVE  Plan(o, t, id) \in Seq(Command) /\ Plan(o, t, id) # <<>>
<1>1. StatusPlan \in Seq(Command) /\ StatusPlan # <<>>
  BY PlainType DEF StatusPlan, CmdNames
<1>2. CASE o.name = "get_sim_status"
  BY <1>1, <1>2 DEF Plan
<1>3. CASE o.name = "get_imsi"
  <2>1. Plan(o, t, id) = <<Plain("AT"), Plain("CHECK_SIM"), Plain("GET_IMSI")>>
    BY <1>3 DEF Plan, ImsiPlan
  <2> QED BY <2>1, PlainType DEF CmdNames
<1>4. CASE o.name = "deinit"
  <2>1. Plan(o, t, id) = <<Plain("DEINIT")>>
    BY <1>4 DEF Plan
  <2> QED BY <2>1, PlainType DEF CmdNames
<1>5. CASE o.name = "init"
  <2>1. Plan(o, t, id) =
          <<Plain("AT"), Plain("ECHO_OFF"), Plain("TEXT_MODE"), Plain("SET_SMSC"),
            Plain("CHECK_SIM"), Plain("CHECK_REG"), Plain("CHECK_SIGNAL")>>
    BY <1>5 DEF Plan, InitPlan
  <2> QED BY <2>1, PlainType DEF CmdNames
<1>6. CASE o.name \notin {"get_sim_status", "get_imsi", "deinit", "init"}
  <2> DEFINE Cmgs == [name |-> "CMGS", num |-> o.num, by |-> NoTask, id |-> 0]
             Text == [name |-> "TEXT", num |-> o.num, by |-> t, id |-> id]
  <2>1. Plan(o, t, id) = FirstCheck(o) \o <<Cmgs, Text>>
    BY <1>6 DEF Plan, SmsPlan
  <2>2. Cmgs \in Command /\ Text \in Command
    BY DEF Command, CmdNames, Operations, Op, StatusOp, ImsiOp, InitOp, DeinitOp, SmsOp
  <2>3. FirstCheck(o) \in Seq(Command)
    BY <1>1 DEF FirstCheck
  <2> HIDE DEF Cmgs, Text
  <2>4. <<Cmgs, Text>> \in Seq(Command) /\ Len(<<Cmgs, Text>>) = 2
    BY <2>2
  <2>5. Len(Plan(o, t, id)) = Len(FirstCheck(o)) + 2 /\ Plan(o, t, id) \in Seq(Command)
    BY <2>1, <2>3, <2>4
  <2> QED BY <2>3, <2>5
<1> QED BY <1>2, <1>3, <1>4, <1>5, <1>6

LEMMA ErrorType ==
  ASSUME NEW o, NEW name, NEW out1 PROVE ErrorOf(o, name, out1) \in Results
BY DEF ErrorOf, Results

LEMMA RefusalType ==
  ASSUME NEW o PROVE Refusal(o) \in Results
BY DEF Refusal, Results

LEMMA TypeInit == Init => TypeOK
<1> SUFFICES ASSUME Init PROVE TypeOK
  OBVIOUS
<1>1. /\ initialized \in BOOLEAN /\ mutexExists \in BOOLEAN /\ fault \in BOOLEAN
      /\ mutexOwner = NoTask /\ callingTask = NoTask /\ mutexDepth = 0
      /\ rx \in RxStates /\ half \in BOOLEAN /\ tx = NoCmd
  BY ConstantsAssumption DEF Init, RxStates
<1>2. /\ notified \in [Tasks -> Nat] /\ pc \in [Tasks -> PcValues]
      /\ op \in [Tasks -> Operations \cup {NoOp}] /\ todo \in [Tasks -> Seq(Command)]
  BY DEF Init, PcValues
<1>3. /\ tries \in [Tasks -> Int] /\ outcome \in [Tasks -> Outcomes]
      /\ result \in [Tasks -> Results] /\ calls \in [Tasks -> 0..MaxCalls]
  BY ConstantsAssumption DEF Init, Outcomes, Results
<1> QED BY <1>1, <1>2, <1>3 DEF TypeOK

LEMMA CallbackType ==
  ASSUME TypeOK, NEW size, RxEventCallback(size) PROVE notified' \in [Tasks -> Nat]
<1>1. CASE callingTask = NoTask
  BY <1>1 DEF RxEventCallback, TypeOK
<1>2. CASE callingTask \in Tasks
  <2>1. notified' = [notified EXCEPT ![callingTask] = notified[callingTask] + 1]
    BY <1>2, ConstantsAssumption DEF RxEventCallback
  <2>2. notified \in [Tasks -> Nat] /\ notified[callingTask] + 1 \in Nat
    BY <1>2 DEF TypeOK
  <2> QED BY <1>2, <2>1, <2>2
<1> QED BY <1>1, <1>2 DEF TypeOK

LEMMA TypeStep ==
  ASSUME TypeOK, LockDiscipline, SomethingToSend, [Next]_vars
  PROVE  TypeOK'
<1> USE ConstantsAssumption
<1>1. CASE UNCHANGED vars
  BY <1>1 DEF TypeOK, vars, taskVars, mutexVars, isrVars, uartVars
<1>2. CASE Interrupt
  <2>1. CASE TxDone
    BY <2>1 DEF TxDone, EndTransmit, TypeOK, taskVars, mutexVars, isrVars
  <2>2. CASE RxHalf \/ RxEnd \/ RxError
    <3>1. /\ notified' \in [Tasks -> Nat] /\ UNCHANGED callingTask
          /\ rx' \in RxStates /\ half' \in BOOLEAN
          /\ UNCHANGED <<initialized, fault, taskVars, mutexVars, tx>>
      <4>1. CASE RxHalf
        <5>1. RxEventCallback(RxBufSize \div 2)
          BY <4>1 DEF RxHalf
        <5>2. notified' \in [Tasks -> Nat]
          BY <5>1, CallbackType
        <5> QED BY <4>1, <5>2 DEF RxHalf, TypeOK
      <4>2. CASE RxEnd
        <5>1. PICK size : RxEventCallback(size)
          BY <4>2 DEF RxEnd
        <5>2. notified' \in [Tasks -> Nat]
          BY <5>1, CallbackType
        <5>3. rx' = "ready" /\ UNCHANGED <<initialized, fault, taskVars, mutexVars, callingTask, half, tx>>
          BY <4>2 DEF RxEnd, EndedRx
        <5> QED BY <5>2, <5>3 DEF TypeOK, RxStates
      <4>3. CASE RxError
        BY <4>3 DEF RxError, TypeOK, RxStates, isrVars
      <4> QED BY <2>2, <4>1, <4>2, <4>3
    <3> QED BY <3>1 DEF TypeOK, taskVars, mutexVars
  <2> QED BY <1>2, <2>1, <2>2 DEF Interrupt
<1>3. CASE Module
  BY <1>3 DEF Module, BurstLost, ModuleAnswers, ModuleSpeaks, TypeOK, taskVars, mutexVars, isrVars,
     uartVars
<1>4. ASSUME NEW t \in Tasks, Enter(t) PROVE TypeOK'
  <2>1. PICK o \in Workload : Call(t, o) \/ CallRefused(t, o)
    BY <1>4 DEF Enter
  <2>2. calls[t] + 1 \in 0..MaxCalls
    BY <2>1 DEF Call, CallRefused, TypeOK
  <2>3. CASE CallRefused(t, o)
    BY <2>2, <2>3, RefusalType DEF CallRefused, TypeOK, mutexVars, isrVars, uartVars
  <2>4. CASE Call(t, o)
    <3>1. o \in Operations /\ Plan(o, t, calls[t] + 1) \in Seq(Command)
      BY <2>2, PlanType
    <3> QED
      <4>1. /\ pc' \in [Tasks -> PcValues] /\ op' \in [Tasks -> Operations \cup {NoOp}]
            /\ todo' \in [Tasks -> Seq(Command)] /\ calls' \in [Tasks -> 0..MaxCalls]
        BY <2>2, <2>4, <3>1 DEF Call, Goto, TypeOK, PcValues
      <4>2. /\ tries' \in [Tasks -> Int] /\ result' \in [Tasks -> Results]
            /\ rx' \in RxStates /\ tx' \in Command \cup {NoCmd}
        BY <2>4 DEF Call, TypeOK, RxStates, Results
      <4> QED BY <2>4, <4>1, <4>2 DEF Call, TypeOK, mutexVars, isrVars
  <2> QED BY <2>1, <2>3, <2>4
<1>5. ASSUME NEW t \in Tasks, Locking(t) PROVE TypeOK'
  <2>1. CASE TakeMutex(t)
    BY <2>1 DEF TakeMutex, Goto, TypeOK, isrVars, uartVars, PcValues
  <2>4. CASE TakeTimeout(t)
    BY <2>4 DEF TakeTimeout, Goto, TypeOK, mutexVars, isrVars, uartVars, PcValues, Results
  <2>5. CASE TakeDeleted(t)
    BY <2>5 DEF TakeDeleted, Goto, TypeOK, mutexVars, isrVars, uartVars, PcValues
  <2>2. CASE NestedTake(t) \/ NestedGive(t)
    BY <2>2 DEF NestedTake, NotNested, NestedGive, TypeOK, taskVars, isrVars, uartVars
  <2>3. CASE Give(t)
    <3>1. mutexOwner # NoTask /\ mutexDepth \in 1..2
      BY <2>3 DEF Give, TypeOK, LockDiscipline, InsideMeansOwner, InitTakesNoMutex,
         DepthMeansHeld, SessionPcs
    <3>2. pc' \in [Tasks -> PcValues]
      BY <2>3 DEF Give, Goto, TypeOK, PcValues
    <3>3. mutexOwner' \in Tasks \cup {NoTask} /\ mutexDepth' \in 0..2
      BY <2>3, <3>1 DEF Give, TypeOK
    <3> QED BY <2>3, <3>2, <3>3 DEF Give, TypeOK, isrVars, uartVars
  <2> QED BY <1>5, <2>1, <2>2, <2>3, <2>4, <2>5 DEF Locking
<1>6. ASSUME NEW t \in Tasks, Transact(t) PROVE TypeOK'
  <2>1. CASE Begin(t) \/ Arm(t) \/ ArmFails(t) \/ SendFails(t)
    BY <2>1 DEF Begin, Arm, ArmFails, SendFails, Goto, TypeOK, mutexVars, isrVars, uartVars,
       PcValues, RxStates, Outcomes
  <2>2. CASE Send(t)
    <3>1. Head(todo[t]) \in Command
      BY <2>2 DEF Send, TypeOK, SomethingToSend, SendingPcs, TransactPcs
    <3> QED BY <2>2, <3>1 DEF Send, Goto, TypeOK, mutexVars, isrVars, PcValues
  <2>3. CASE TakeNotification(t)
    BY <2>3 DEF TakeNotification, Goto, TypeOK, mutexVars, uartVars, PcValues
  <2>6. CASE WaitTimeout(t)
    <3>1. pc' \in [Tasks -> PcValues]
      BY <2>6 DEF WaitTimeout, Goto, TypeOK, PcValues
    <3>2. tries' = [tries EXCEPT ![t] = tries[t] - 1] \/ UNCHANGED tries
      BY <2>6 DEF WaitTimeout
    <3>3. tries' \in [Tasks -> Int]
      BY <3>2 DEF TypeOK
    <3> QED BY <2>6, <3>1, <3>3 DEF WaitTimeout, TypeOK, mutexVars, isrVars, uartVars
  <2>4. CASE Abort(t) \/ View(t)
    BY <2>4 DEF Abort, View, Goto, TypeOK, mutexVars, isrVars, uartVars, PcValues, RxStates, Outcomes
  <2>5. CASE Clean1(t) \/ Clean2(t)
    BY <2>5 DEF Clean1, Clean2, Goto, TypeOK, mutexVars, uartVars, PcValues, RxStates
  <2> QED BY <1>6, <2>1, <2>2, <2>3, <2>4, <2>5, <2>6 DEF Transact
<1>7. ASSUME NEW t \in Tasks, Decide(t) PROVE TypeOK'
  <2>1. ASSUME NEW res \in Results, Leave(t, res)
        PROVE  /\ result' \in [Tasks -> Results] /\ todo' \in [Tasks -> Seq(Command)]
               /\ initialized' \in BOOLEAN /\ mutexExists' \in BOOLEAN
               /\ pc' \in [Tasks -> PcValues]
    <3>1. /\ result' \in [Tasks -> Results] /\ todo' \in [Tasks -> Seq(Command)]
      BY <2>1 DEF Leave, TypeOK
    <3>3. initialized' \in BOOLEAN /\ mutexExists' \in BOOLEAN
      <4>1. initialized \in BOOLEAN /\ mutexExists \in BOOLEAN
        BY DEF TypeOK
      <4>2. /\ initialized' = (res = "NONE") \/ initialized' = initialized
            /\ mutexExists' = TRUE \/ mutexExists' = mutexExists
        BY <2>1 DEF Leave
      <4> QED BY <4>1, <4>2
    <3>2. pc' \in [Tasks -> PcValues]
      BY <2>1 DEF Leave, Goto, TypeOK, PcValues
    <3> QED BY <3>1, <3>2, <3>3
  <2>2. CASE JudgeOk(t)
    <3>1. CASE Len(todo[t]) = 1
      BY <2>1, <2>2, <3>1 DEF JudgeOk, TypeOK, isrVars, uartVars, Results
    <3>2. CASE Len(todo[t]) # 1
      <4>1. Tail(todo[t]) \in Seq(Command)
        BY <2>2 DEF JudgeOk, TypeOK, SomethingToSend, SendingPcs
      <4>2. /\ pc' = [pc EXCEPT ![t] = "next"] /\ todo' = [todo EXCEPT ![t] = Tail(todo[t])]
            /\ tries' = [tries EXCEPT ![t] = IF op[t].name = "init" THEN SignalPolls ELSE 0]
            /\ UNCHANGED <<initialized, mutexExists, result>>
        BY <2>2, <3>2 DEF JudgeOk, Goto
      <4>3. pc' \in [Tasks -> PcValues] /\ todo' \in [Tasks -> Seq(Command)]
        BY <4>1, <4>2 DEF TypeOK, PcValues
      <4>4. tries' \in [Tasks -> Int]
        BY <4>2 DEF TypeOK
      <4> QED BY <2>2, <4>2, <4>3, <4>4 DEF JudgeOk, TypeOK, isrVars, uartVars
    <3> QED BY <3>1, <3>2
  <2>3. CASE JudgeFailed(t)
    BY <2>1, <2>3, ErrorType DEF JudgeFailed, Goto, TypeOK, isrVars, uartVars, PcValues
  <2>4. CASE Sleep(t)
    <3>1. tries' \in [Tasks -> Int]
      BY <2>4 DEF Sleep, TypeOK
    <3>2. CASE tries[t] > 1
      BY <2>4, <3>1, <3>2 DEF Sleep, Goto, TypeOK, isrVars, uartVars, PcValues
    <3>3. CASE ~(tries[t] > 1)
      BY <2>1, <2>4, <3>1, <3>3 DEF Sleep, TypeOK, isrVars, uartVars, Results
    <3> QED BY <3>2, <3>3
  <2>5. CASE JudgeDeinit(t)
    BY <2>5 DEF JudgeDeinit, Goto, TypeOK, mutexVars, isrVars, uartVars, PcValues
  <2>7. CASE Teardown(t)
    BY <2>7 DEF Teardown, Goto, TypeOK, mutexVars, RxStates, PcValues
  <2>8. CASE DeleteMutex(t)
    BY <2>8 DEF DeleteMutex, Goto, TypeOK, isrVars, uartVars, PcValues
  <2>6. CASE ClearInitialized(t)
    <3>1. pc' \in [Tasks -> PcValues] /\ result' \in [Tasks -> Results]
      BY <2>6 DEF ClearInitialized, Goto, TypeOK, PcValues, Results
    <3>2. todo' \in [Tasks -> Seq(Command)]
      BY <2>6 DEF ClearInitialized, TypeOK
    <3> QED BY <2>6, <3>1, <3>2 DEF ClearInitialized, TypeOK, mutexVars, isrVars, uartVars
  <2> QED BY <1>7, <2>2, <2>3, <2>4, <2>5, <2>6, <2>7, <2>8 DEF Decide
<1> QED BY <1>1, <1>2, <1>3, <1>4, <1>5, <1>6, <1>7 DEF Next, Proceed
-----------------------------------------------------------------------------
(* What is left to send *)

LEMMA SomethingInit == Init => SomethingToSend
BY DEF Init, SomethingToSend, SendingPcs, TransactPcs

LEMMA SomethingStep ==
  ASSUME TypeOK, SomethingToSend, [Next]_vars
  PROVE  SomethingToSend'
<1> DEFINE Goes(t, label) == pc' = [pc EXCEPT ![t] = label]
<1>0. ASSUME UNCHANGED <<pc, todo>> PROVE SomethingToSend'
  BY <1>0 DEF SomethingToSend
<1>1. ASSUME NEW t \in Tasks, UNCHANGED todo, NEW label \in PcValues,
             pc[t] \in SendingPcs \/ label \notin SendingPcs, Goes(t, label)
      PROVE  SomethingToSend'
  BY <1>1 DEF SomethingToSend, TypeOK
<1>2. CASE UNCHANGED vars \/ Interrupt \/ Module
  <2>1. UNCHANGED <<pc, todo>>
    BY <1>2 DEF vars, taskVars, Interrupt, Module, TxDone, EndTransmit, RxHalf, RxEnd, RxError, BurstLost,
       ModuleAnswers, ModuleSpeaks
  <2> QED BY <1>0, <2>1
<1>3. ASSUME NEW t \in Tasks, Enter(t) PROVE SomethingToSend'
  <2>1. PICK o \in Workload : Call(t, o) \/ CallRefused(t, o)
    BY <1>3 DEF Enter
  <2>2. CASE CallRefused(t, o)
    BY <1>0, <2>2 DEF CallRefused
  <2>3. CASE Call(t, o)
    <3>1. Plan(o, t, calls[t] + 1) # <<>>
      BY PlanType, ConstantsAssumption DEF TypeOK
    <3>2. /\ todo' = [todo EXCEPT ![t] = Plan(o, t, calls[t] + 1)]
          /\ Goes(t, IF o.name = "init" THEN "next" ELSE "take")
      BY <2>3 DEF Call, Goto
    <3> QED BY <3>1, <3>2 DEF SomethingToSend, TypeOK
  <2> QED BY <2>1, <2>2, <2>3
<1>4. ASSUME NEW t \in Tasks, Locking(t) PROVE SomethingToSend'
  <2>1. UNCHANGED todo
    BY <1>4 DEF Locking, TakeMutex, TakeTimeout, TakeDeleted, NestedTake, NestedGive, Give, taskVars
  <2>2. \/ UNCHANGED pc
        \/ \E label \in {"next", "idle", "delete"} :
             Goes(t, label) /\ (pc[t] = "take" \/ label # "next")
    BY <1>4 DEF Locking, TakeMutex, TakeTimeout, TakeDeleted, NestedTake, NestedGive, Give,
       taskVars, Goto
  <2> QED BY <1>0, <1>1, <2>1, <2>2 DEF SendingPcs, TransactPcs, PcValues
<1>5. ASSUME NEW t \in Tasks, Transact(t) PROVE SomethingToSend'
  <2>1. /\ UNCHANGED todo /\ pc[t] \in SendingPcs
        /\ \E label \in PcValues : Goes(t, label)
    BY <1>5 DEF Transact, Begin, Arm, ArmFails, Send, SendFails, TakeNotification, WaitTimeout,
       Abort, View, Clean1, Clean2, Goto, SendingPcs, TransactPcs, PcValues
  <2> QED BY <1>1, <2>1
<1>6. ASSUME NEW t \in Tasks, Decide(t) PROVE SomethingToSend'
  <2>1. ASSUME NEW res, Leave(t, res) PROVE SomethingToSend'
    <3>1. /\ todo' = [todo EXCEPT ![t] = <<>>]
          /\ \E label \in {"idle", "give"} : Goes(t, label)
      BY <2>1 DEF Leave, Goto
    <3> QED BY <3>1 DEF SomethingToSend, SendingPcs, TransactPcs, TypeOK
  <2>2. CASE JudgeOk(t) /\ Len(todo[t]) # 1
    <3>1. /\ todo' = [todo EXCEPT ![t] = Tail(todo[t])] /\ Goes(t, "next")
          /\ pc[t] = "judge"
      BY <2>2 DEF JudgeOk, Goto
    <3>2. todo[t] \in Seq(Command) /\ todo[t] # <<>>
      BY <3>1 DEF TypeOK, SomethingToSend, SendingPcs
    <3>3. Tail(todo[t]) # <<>>
      <4>1. Len(todo[t]) \in Nat \ {0} /\ Len(todo[t]) # 1
        BY <2>2, <3>2, EmptySeq
      <4>2. Len(Tail(todo[t])) = Len(todo[t]) - 1
        BY <3>2, HeadTailProperties
      <4>3. Len(Tail(todo[t])) # 0
        BY <4>1, <4>2
      <4>4. Tail(todo[t]) = <<>> => Len(Tail(todo[t])) = 0
        BY EmptySeq, Zenon
      <4> QED BY <4>3, <4>4, Zenon
    <3> QED BY <3>1, <3>3 DEF SomethingToSend, TypeOK
  <2>3. CASE JudgeOk(t) /\ Len(todo[t]) = 1
    BY <2>1, <2>3 DEF JudgeOk
  <2>4. CASE JudgeFailed(t) \/ Sleep(t)
    <3>1. \/ \E res : Leave(t, res)
          \/ /\ UNCHANGED todo /\ pc[t] \in SendingPcs
             /\ \E label \in {"sleep", "next"} : Goes(t, label)
      BY <2>4 DEF JudgeFailed, Sleep, Goto, SendingPcs
    <3> QED BY <1>1, <2>1, <3>1 DEF PcValues
  <2>5. CASE JudgeDeinit(t) \/ Teardown(t) \/ DeleteMutex(t)
    <3>1. UNCHANGED todo /\ \E label \in {"teardown", "give", "clear"} : Goes(t, label)
      BY <2>5 DEF JudgeDeinit, Teardown, DeleteMutex, Goto
    <3> QED BY <1>1, <3>1 DEF PcValues, SendingPcs, TransactPcs
  <2>6. CASE ClearInitialized(t)
    <3>1. todo' = [todo EXCEPT ![t] = <<>>] /\ Goes(t, "idle")
      BY <2>6 DEF ClearInitialized, Goto
    <3> QED BY <3>1 DEF SomethingToSend, SendingPcs, TransactPcs, TypeOK
  <2> QED BY <1>6, <2>2, <2>3, <2>4, <2>5, <2>6 DEF Decide
<1> QED BY <1>2, <1>3, <1>4, <1>5, <1>6 DEF Next, Proceed
-----------------------------------------------------------------------------
(* The theorems *)

LEMMA Invariance == Spec => []IInv
<1>1. Init => IInv
  BY TypeInit, DisciplineInit, SomethingInit DEF IInv
<1>2. IInv /\ [Next]_vars => IInv'
  BY TypeStep, DisciplineStep, SomethingStep DEF IInv
<1> QED BY <1>1, <1>2, PTL DEF Spec

\* Every variable of the driver keeps its type.
THEOREM TypeCorrect == Spec => []TypeOK
BY Invariance, PTL DEF IInv

\* At most one task is inside transact(), and g_calling_task_handle names it.
THEOREM TransactionsExclude == Spec => []OneTransaction
<1>1. IInv => OneTransaction
  BY DEF IInv, LockDiscipline, CallerIsInTransact, TransactPcs, OneTransaction, InTransact
<1> QED BY <1>1, Invariance, PTL

\* Every operation gives the mutex back as often as it took it.
THEOREM MutexGivenBack == Spec => []NoLockLeak
<1>1. IInv => NoLockLeak
  BY DEF IInv, LockDiscipline, OwnerIsInside, DepthMeansHeld, SessionPcs, NoLockLeak
<1> QED BY <1>1, Invariance, PTL
-----------------------------------------------------------------------------
(* The driver implements GsmSession *)

InSession(t) == pc[t] \in SessionPcs

\* The task inside a session holds the abstract session, and there is only one.
HolderFacts ==
  TypeOK /\ LockDiscipline =>
    /\ \A t \in Tasks : InSession(t) => SessionHolder = t
    /\ (\A t \in Tasks : ~InSession(t)) => SessionHolder = NoTask /\ callingTask = NoTask

LEMMA Holder == HolderFacts
<1> SUFFICES ASSUME TypeOK, LockDiscipline
             PROVE  /\ \A t \in Tasks : InSession(t) => SessionHolder = t
                    /\ (\A t \in Tasks : ~InSession(t)) => SessionHolder = NoTask /\ callingTask = NoTask
  BY DEF HolderFacts
<1>1. \A t \in Tasks : InInit(t) => InSession(t)
  BY DEF InInit, InSession, TypeOK, LockDiscipline, InitTakesNoMutex, PcValues, SessionPcs
<1>2. ASSUME NEW t \in Tasks, InSession(t) PROVE SessionHolder = t
  <2>1. CASE op[t].name = "init"
    <3>1. \A u \in Tasks : InInit(u) <=> u = t
      BY <1>2, <2>1 DEF InInit, InSession, LockDiscipline, InitAlone, SessionPcs
    <3> QED BY <3>1 DEF SessionHolder
  <2>2. CASE op[t].name # "init"
    <3>1. \A u \in Tasks : ~InInit(u)
      BY <1>2, <2>2 DEF InInit, InSession, LockDiscipline, InitAlone, SessionPcs
    <3>2. mutexOwner = t
      BY <1>2, <2>2 DEF InSession, LockDiscipline, InsideMeansOwner
    <3> QED BY <3>1, <3>2 DEF SessionHolder
  <2> QED BY <2>1, <2>2
<1>3. ASSUME \A t \in Tasks : ~InSession(t) PROVE SessionHolder = NoTask /\ callingTask = NoTask
  <2>1. \A t \in Tasks : ~InInit(t)
    BY <1>1, <1>3
  <2>2. mutexOwner = NoTask
    BY <1>3 DEF InSession, TypeOK, LockDiscipline, OwnerIsInside
  <2>3. callingTask = NoTask
    BY <1>3 DEF InSession, TypeOK, LockDiscipline, CallerIsInTransact, TransactPcs, SessionPcs
  <2> QED BY <2>1, <2>2, <2>3 DEF SessionHolder
<1> QED BY <1>2, <1>3

LEMMA HolderNext == HolderFacts'
BY Holder, PTL

\* A step in which nobody enters or leaves a session
LEMMA SameSession ==
  ASSUME IInv, IInv', \A u \in Tasks : InSession(u)' <=> InSession(u)
  PROVE  SessionHolder' = SessionHolder
BY Holder, HolderNext DEF IInv, HolderFacts

LEMMA OpenSession ==
  ASSUME IInv, IInv', NEW t \in Tasks, InSession(t)', UNCHANGED callingTask,
         \A u \in Tasks : ~InSession(u)
  PROVE  Session!Open(t)
BY Holder, HolderNext DEF IInv, HolderFacts, Session!Open

LEMMA CloseSession ==
  ASSUME IInv, IInv', NEW t \in Tasks, InSession(t), ~InSession(t)',
         \A u \in Tasks \ {t} : pc'[u] = pc[u], UNCHANGED callingTask
  PROVE  Session!Close(t)
<1>1. SessionHolder = t /\ \A u \in Tasks \ {t} : ~InSession(u)
  BY Holder DEF IInv, HolderFacts
<1>2. \A u \in Tasks : ~InSession(u)'
  BY <1>1 DEF InSession
<1>3. SessionHolder' = NoTask /\ callingTask' = NoTask
  BY <1>2, HolderNext DEF IInv, HolderFacts
<1> QED BY <1>1, <1>3 DEF Session!Close

LEMMA SessionStep ==
  ASSUME IInv, IInv', [Next]_vars
  PROVE  [Session!Next]_<<SessionHolder, callingTask>>
<1> USE ConstantsAssumption
<1> DEFINE Goes(t, label) == pc' = [pc EXCEPT ![t] = label]
           Stutters == UNCHANGED <<SessionHolder, callingTask>>
<1>0. pc \in [Tasks -> PcValues]
  BY DEF IInv, TypeOK
<1>1. ASSUME UNCHANGED <<pc, callingTask>> PROVE Stutters
  BY <1>1, SameSession DEF InSession
<1>2. ASSUME NEW t \in Tasks, NEW label, Goes(t, label), UNCHANGED callingTask,
             pc[t] \in SessionPcs <=> label \in SessionPcs
      PROVE  Stutters
  BY <1>0, <1>2, SameSession DEF InSession
<1>3. CASE UNCHANGED vars \/ Interrupt \/ Module
  <2>1. UNCHANGED <<pc, callingTask>>
    BY <1>3 DEF vars, taskVars, isrVars, Interrupt, Module, TxDone, EndTransmit, RxHalf, RxEnd, RxError,
       BurstLost, ModuleAnswers, ModuleSpeaks
  <2> QED BY <1>1, <2>1
<1>4. ASSUME NEW t \in Tasks, Enter(t)
      PROVE  Stutters \/ Session!Open(t)
  <2>1. PICK o \in Workload : Call(t, o) \/ CallRefused(t, o)
    BY <1>4 DEF Enter
  <2>2. CASE CallRefused(t, o)
    BY <1>1, <2>2 DEF CallRefused, isrVars
  <2>3. CASE Call(t, o) /\ o.name # "init"
    <3>1. Goes(t, "take") /\ pc[t] = "idle" /\ UNCHANGED callingTask
      BY <2>3 DEF Call, Goto, isrVars
    <3> QED BY <1>2, <3>1 DEF SessionPcs
  <2>4. CASE Call(t, o) /\ o.name = "init"
    <3>1. Goes(t, "next") /\ UNCHANGED callingTask /\ \A u \in Tasks : pc[u] = "idle"
      BY <2>4 DEF Call, MayCall, Goto, isrVars
    <3> QED BY <1>0, <3>1, OpenSession DEF InSession, SessionPcs
  <2> QED BY <2>1, <2>2, <2>3, <2>4
<1>5. ASSUME NEW t \in Tasks, Locking(t)
      PROVE  Stutters \/ Session!Open(t) \/ Session!Close(t)
  <2>1. CASE TakeMutex(t)
    <3>1. pc[t] = "take" /\ mutexOwner = NoTask /\ Goes(t, "next") /\ UNCHANGED callingTask
      BY <2>1 DEF TakeMutex, MutexFree, Goto, isrVars
    <3>2. \A u \in Tasks : ~InSession(u)
      BY <3>1 DEF IInv, LockDiscipline, InitAlone, InitTakesNoMutex, InsideMeansOwner, InSession,
         SessionPcs
    <3> QED BY <1>0, <3>1, <3>2, OpenSession DEF InSession, SessionPcs
  <2>2. CASE TakeTimeout(t) \/ TakeDeleted(t)
    <3>1. pc[t] = "take" /\ Goes(t, "idle") /\ UNCHANGED callingTask
      BY <2>2 DEF TakeTimeout, TakeDeleted, Goto, isrVars
    <3> QED BY <1>2, <3>1 DEF SessionPcs
  <2>3. CASE NestedTake(t) \/ NestedGive(t) \/ (Give(t) /\ ~LastGive)
    <3>1. UNCHANGED <<pc, callingTask>>
      BY <2>3 DEF NestedTake, NestedGive, Give, taskVars, isrVars
    <3> QED BY <1>1, <3>1
  <2>4. CASE Give(t) /\ LastGive
    <3>1. pc[t] = "give" /\ UNCHANGED callingTask /\ \E label \in {"delete", "idle"} : Goes(t, label)
      BY <2>4 DEF Give, Goto, isrVars
    <3> QED BY <1>0, <3>1, CloseSession DEF InSession, SessionPcs
  <2> QED BY <1>5, <2>1, <2>2, <2>3, <2>4 DEF Locking
<1>6. ASSUME NEW t \in Tasks, Transact(t)
      PROVE  Stutters \/ Session!Ask(t) \/ Session!Hear(t)
  <2>1. CASE Begin(t)
    <3>1. pc[t] = "next" /\ Goes(t, "arm") /\ callingTask' = t
      BY <2>1 DEF Begin, Goto
    <3>2. SessionHolder = t /\ SessionHolder' = t
      BY <1>0, <3>1, Holder, HolderNext DEF IInv, HolderFacts, InSession, SessionPcs
    <3>3. callingTask = NoTask
      BY <3>1, <3>2, Holder DEF IInv, HolderFacts, TypeOK, LockDiscipline, CallerIsInTransact,
         InSession, TransactPcs, SessionPcs
    <3> QED BY <3>1, <3>2, <3>3 DEF Session!Ask
  <2>2. CASE Clean2(t)
    <3>1. pc[t] = "clean2" /\ Goes(t, "judge") /\ callingTask' = NoTask
      BY <2>2 DEF Clean2, Goto
    <3>2. SessionHolder = t /\ SessionHolder' = t
      BY <1>0, <3>1, Holder, HolderNext DEF IInv, HolderFacts, InSession, SessionPcs
    <3>3. callingTask = t
      BY <3>1 DEF IInv, LockDiscipline, CallerIsInTransact, TransactPcs
    <3> QED BY <3>1, <3>2, <3>3 DEF Session!Hear
  <2>3. CASE \/ Arm(t) \/ ArmFails(t) \/ Send(t) \/ SendFails(t) \/ TakeNotification(t)
             \/ WaitTimeout(t) \/ Abort(t) \/ View(t) \/ Clean1(t)
    <3>1. /\ pc[t] \in SessionPcs /\ UNCHANGED callingTask
          /\ \E label \in SessionPcs : Goes(t, label)
      BY <2>3 DEF Arm, ArmFails, Send, SendFails, TakeNotification, WaitTimeout, Abort, View,
         Clean1, Goto, SessionPcs, isrVars
    <3> QED BY <1>2, <3>1
  <2> QED BY <1>6, <2>1, <2>2, <2>3 DEF Transact
<1>7. ASSUME NEW t \in Tasks, Decide(t)
      PROVE  Stutters \/ Session!Close(t)
  <2>1. CASE JudgeOk(t) \/ JudgeFailed(t) \/ Sleep(t) \/ JudgeDeinit(t)
    <3>1. /\ pc[t] \in SessionPcs /\ UNCHANGED callingTask
          /\ \E label \in SessionPcs \cup {"idle"} : Goes(t, label)
      BY <2>1 DEF JudgeOk, JudgeFailed, Sleep, JudgeDeinit, Leave, Goto, SessionPcs, isrVars
    <3>2. PICK label \in SessionPcs \cup {"idle"} : Goes(t, label)
      BY <3>1
    <3>3. CASE label \in SessionPcs
      BY <1>2, <3>1, <3>2, <3>3
    <3>4. CASE label = "idle"
      BY <1>0, <3>1, <3>2, <3>4, CloseSession DEF InSession, SessionPcs
    <3> QED BY <3>3, <3>4
  <2>2. CASE Teardown(t)
    <3>1. pc[t] = "teardown" /\ Goes(t, "give") /\ callingTask' = NoTask
      BY <2>2 DEF Teardown, Goto
    <3>2. SessionHolder = t
      BY <3>1, Holder DEF IInv, HolderFacts, InSession, SessionPcs
    <3>3. callingTask = NoTask
      BY <3>1, <3>2, Holder DEF IInv, HolderFacts, TypeOK, LockDiscipline, CallerIsInTransact,
         InSession, TransactPcs, SessionPcs
    <3> QED BY <1>2, <3>1, <3>3 DEF SessionPcs
  <2>3. CASE DeleteMutex(t) \/ ClearInitialized(t)
    <3>1. /\ pc[t] \notin SessionPcs /\ UNCHANGED callingTask
          /\ \E label \in {"clear", "idle"} : Goes(t, label)
      BY <2>3 DEF DeleteMutex, ClearInitialized, Goto, SessionPcs, isrVars
    <3> QED BY <1>2, <3>1 DEF SessionPcs
  <2> QED BY <1>7, <2>1, <2>2, <2>3 DEF Decide
<1> QED BY <1>3, <1>4, <1>5, <1>6, <1>7 DEF Next, Proceed, Session!Next

\* The driver implements exclusive sessions.
THEOREM Implementation == Spec => ImplementsSession
<1>1. Init => Session!Init
  <2> SUFFICES ASSUME Init PROVE Session!Init
    OBVIOUS
  <2>1. \A t \in Tasks : ~InSession(t)
    BY DEF Init, InSession, SessionPcs
  <2> QED BY <2>1, TypeInit, DisciplineInit, Holder DEF HolderFacts, Session!Init
<1>2. IInv /\ IInv' /\ [Next]_vars => [Session!Next]_<<SessionHolder, callingTask>>
  BY SessionStep
<1> QED BY <1>1, <1>2, Invariance, PTL DEF Spec, ImplementsSession, Session!Spec
=============================================================================
