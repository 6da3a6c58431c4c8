------------------------------- MODULE Sim800l -------------------------------
(***************************************************************************)
(* The GSM driver, namespace gsm of components/drivers/src/sim800l.cpp.    *)
(*                                                                         *)
(* Tasks call get_sim_status(), get_imsi(), send_sms(), init() and         *)
(* deinit().  Every AT command goes through transact(): remember the task  *)
(* in g_calling_task_handle, arm a DMA reception into a buffer on the      *)
(* caller's stack, start a DMA transmission, sleep on the task             *)
(* notification.  The interrupt handlers end transmissions and receptions  *)
(* and notify the remembered task; the module answers when it likes.       *)
(*                                                                         *)
(* A step of a task is one HAL or FreeRTOS call, or one write to a global  *)
(* that an interrupt handler reads, so every interrupt can fall between    *)
(* two of them.  Bytes are abstracted to the responses they spell.         *)
(***************************************************************************)
EXTENDS Integers, Sequences

CONSTANTS
  Tasks,            \* the FreeRTOS tasks that use the driver
  NoTask,           \* a null TaskHandle_t
  Numbers,          \* phone numbers
  NoNumber,         \* an argument send_sms() refuses
  Workload,         \* the operations the tasks call
  StartInitialized, \* start after a successful init() instead of at reset
  DeinitAlone,      \* deinit() is called as documented, "not thread safe": nobody else is inside
  AtTries,          \* NUM_OF_TIMES_TO_SEND_AT
  SignalPolls,      \* NUM_OF_TIMES_TO_POLL_SIGNAL_CHECK
  MaxCalls,         \* bound: calls made by one task
  MaxBacklog,       \* bound: commands the module can lag behind
  MaxBurst,         \* bound: responses the module sends without a pause
  MaxUrc            \* bound: messages the module sends unasked

-----------------------------------------------------------------------------
(* Operations, commands and responses *)

Op(name, num, check) == [name |-> name, num |-> num, check |-> check]
StatusOp == Op("get_sim_status", NoNumber, FALSE)
ImsiOp == Op("get_imsi", NoNumber, FALSE)
InitOp == Op("init", NoNumber, FALSE)
DeinitOp == Op("deinit", NoNumber, FALSE)
NoOp == Op("none", NoNumber, FALSE)
SmsOp(num, check) == Op("send_sms", num, check)

Operations ==
  {StatusOp, ImsiOp, InitOp, DeinitOp}
    \cup {SmsOp(num, check) : num \in Numbers \cup {NoNumber}, check \in BOOLEAN}

ASSUME ConstantsAssumption ==
  /\ NoTask \notin Tasks
  /\ NoNumber \notin Numbers
  /\ Workload \subseteq Operations
  /\ StartInitialized \in BOOLEAN /\ DeinitAlone \in BOOLEAN
  /\ AtTries \in Nat \ {0} /\ SignalPolls \in Nat \ {0}
  /\ MaxCalls \in Nat /\ MaxBacklog \in Nat /\ MaxBurst \in Nat /\ MaxUrc \in Nat

\* cmd_t, and the two commands send_sms() builds itself: CMGS (number) and
\* TEXT (body and Ctrl-Z).  "by" and "id" tell the texts of different calls
\* apart; only the properties read them.
CmdNames ==
  {"AT", "ECHO_OFF", "TEXT_MODE", "SET_SMSC", "CHECK_SIM", "CHECK_REG",
   "CHECK_SIGNAL", "GET_IMSI", "DEINIT", "CMGS", "TEXT"}

Command == [name : CmdNames, num : Numbers \cup {NoNumber}, by : Tasks \cup {NoTask}, id : Nat]
NoCmd == [name |-> "none", num |-> NoNumber, by |-> NoTask, id |-> 0]
Plain(name) == [name |-> name, num |-> NoNumber, by |-> NoTask, id |-> 0]

\* What the module can send: one response, or an unsolicited message.
Responses ==
  {"OK", "ERROR", "CPIN", "CREG_1", "CREG_0", "CSQ_20", "CSQ_99", "IMSI",
   "DOWN", "PROMPT", "CMGS", "URC"}

StatusPlan ==
  <<Plain("AT"), Plain("CHECK_SIM"), Plain("CHECK_REG"), Plain("CHECK_SIGNAL")>>

\* Mutant: the status is not checked first.
FirstCheck_Skipped(op) == <<>>

\* send_sms() runs get_sim_status() first when asked to.
FirstCheck(op) == IF op.check THEN StatusPlan ELSE <<>>

ImsiPlan == <<Plain("AT"), Plain("CHECK_SIM"), Plain("GET_IMSI")>>

InitPlan ==
  <<Plain("AT"), Plain("ECHO_OFF"), Plain("TEXT_MODE"), Plain("SET_SMSC"),
    Plain("CHECK_SIM"), Plain("CHECK_REG"), Plain("CHECK_SIGNAL")>>

SmsPlan(op, t, id) ==
  FirstCheck(op)
    \o <<[name |-> "CMGS", num |-> op.num, by |-> NoTask, id |-> 0],
         [name |-> "TEXT", num |-> op.num, by |-> t, id |-> id]>>

\* The commands an operation sends, in order, when each one succeeds.
Plan(op, t, id) ==
  CASE op.name = "get_sim_status" -> StatusPlan
    [] op.name = "get_imsi" -> ImsiPlan
    [] op.name = "init" -> InitPlan
    [] op.name = "deinit" -> <<Plain("DEINIT")>>
    [] OTHER -> SmsPlan(op, t, id)

\* Bytes of each response on the wire, with its line ends: "\r\nOK\r\n" is 6.
\* URC stands for +CMTI: "SM",1 (an SMS arrived), one of those the module
\* sends unasked.
Size ==
  [OK |-> 6, ERROR |-> 9, CPIN |-> 22, CREG_1 |-> 20, CREG_0 |-> 20, CSQ_20 |-> 20,
   CSQ_99 |-> 20, IMSI |-> 25, DOWN |-> 21, PROMPT |-> 4, CMGS |-> 18, URC |-> 17]

Bytes(s) ==
  LET sum[i \in 0..Len(s)] == IF i = 0 THEN 0 ELSE sum[i - 1] + Size[s[i]]
  IN sum[Len(s)]

RxBufSize == 64   \* UART_IDLE_LINE_BUF_BYTE
Fits(s, n) == {k \in 0..Len(s) : Bytes(SubSeq(s, 1, k)) <= n}

\* The responses wholly inside the first n bytes of a buffer.  One that reaches
\* over the end is taken not to be there, although the code looks at its first
\* bytes: a response cut in two may pass there and does not pass here.
Within(s, n) == SubSeq(s, 1, CHOOSE k \in Fits(s, n) : \A j \in Fits(s, n) : j <= k)

\* These responses end in "OK", whichever command they answer.
EndInOk == {"OK", "CPIN", "CREG_1", "CREG_0", "CSQ_20", "CSQ_99", "IMSI", "CMGS"}
\* These contain a comma, and these a 1 or a 5 after it.
HaveComma == {"CREG_1", "CREG_0", "CSQ_20", "CSQ_99", "URC"}
CommaThenOne == {"CREG_1", "URC"}
\* These contain "+CSQ: ".
HaveCsq == {"CSQ_20", "CSQ_99"}

Contains(view, set) == \E i \in DOMAIN view : view[i] \in set
FirstIn(view, set) ==
  LET hits == {i \in DOMAIN view : view[i] \in set}
  IN IF hits = {} THEN "none" ELSE view[CHOOSE i \in hits : \A j \in hits : i <= j]

\* Mutant: any response will do.
TextAccepted_AnyAnswer(view) == view # <<>>

\* An SMS counts as sent on "+CMGS:".
TextAccepted(view) == Contains(view, {"CMGS"})

\* The number after the first comma of whatever came is 1 or 5.
Registered(view) == FirstIn(view, HaveComma) \in CommaThenOne

\* The first "+CSQ: " reports a signal of at least 5, and not the 99 of no signal.
SignalGood(view) == FirstIn(view, HaveCsq) = "CSQ_20"

\* 25 bytes from the first line end on will do.
ImsiRead(view, size) == view # <<>> /\ size >= 25

\* The verdict on size received bytes that hold the responses view:
\* send_cmd_and_compare_result(), and the tests get_imsi() and send_sms() make
\* on what transact() hands them.
Accepts(name, view, size) ==
  CASE name = "CHECK_SIM" -> Contains(view, {"CPIN"})
    [] name = "CHECK_REG" -> Registered(view)
    [] name = "CHECK_SIGNAL" -> SignalGood(view)
    [] name = "GET_IMSI" -> ImsiRead(view, size)
    [] name = "DEINIT" -> Contains(view, {"DOWN"})
    [] name = "CMGS" -> Contains(view, {"PROMPT"})
    [] name = "TEXT" -> TextAccepted(view)
    [] OTHER -> Contains(view, EndInOk)

\* What became of a command: its response was accepted, or did not match, or
\* none came in time, or the HAL refused to start.
Outcomes == {"ok", "bad", "silent", "hal"}

\* The error an operation returns when one of its commands fails.
ErrorOf(op, name, outcome) ==
  CASE op.name = "init" /\ name \in {"ECHO_OFF", "TEXT_MODE", "SET_SMSC"} -> "ERR_FAIL"
    [] op.name = "init" /\ name = "AT" /\ outcome = "hal" -> "ERR_HAL_FAIL"
    [] name = "AT" -> "GSM_MODULE_NOT_ALIVE"
    [] name = "CHECK_SIM" -> "GSM_SIM_NOT_FOUND"
    [] name = "CHECK_REG" -> "GSM_SIM_NOT_REGISTERED"
    [] name = "CHECK_SIGNAL" -> "GSM_BAD_NETWORK_CONN"
    [] name = "TEXT" /\ outcome = "bad" -> "GSM_SMS_SEND_FAIL"
    [] OTHER -> "ERR_FAIL"

Results ==
  {"none", "NONE", "ERR_INVALID_STATE", "ERR_INVALID_ARG", "ERR_TIMEOUT", "ERR_FAIL",
   "ERR_HAL_FAIL", "GSM_MODULE_NOT_ALIVE", "GSM_SIM_NOT_FOUND", "GSM_SIM_NOT_REGISTERED",
   "GSM_BAD_NETWORK_CONN", "GSM_SMS_SEND_FAIL"}
-----------------------------------------------------------------------------
(* State *)

VARIABLES
  initialized,  \* g_is_initialized
  mutexExists,  \* g_task_mutex has been created and not deleted
  mutexOwner,   \* its holder
  mutexDepth,   \* how many times the holder has taken it: it is recursive
  callingTask,  \* g_calling_task_handle
  idleSize,     \* g_rx_idle_line_size, in bytes
  notified,     \* the notification count of each task
  rx,           \* reception: "ready", or armed into a "live" or a "dead" buffer
  buf,          \* the responses DMA has written to the armed buffer
  half,         \* the half-transfer interrupt of this reception has fired
  tx,           \* the command being transmitted, or NoCmd
  pc,           \* where each task is
  op,           \* the operation it executes
  todo,         \* the commands it has left to send
  tries,        \* init(): attempts left in the loop it is in
  outcome,      \* what became of its last command
  result,       \* what its last operation returned
  calls,        \* how many calls it has made
  mode,         \* module: the number whose text it collects, or NoNumber
  inbox,        \* module: commands received and not yet answered
  out,          \* module: responses sent since its last pause
  urcs,         \* module: unsolicited messages so far
  accepted,     \* module: the texts it accepted, and for which number
  fault         \* a task has used the mutex or the UART after deinit() took them down

taskVars == <<pc, op, todo, tries, outcome, result, calls>>
mutexVars == <<mutexExists, mutexOwner, mutexDepth>>
isrVars == <<callingTask, idleSize, notified>>
uartVars == <<rx, buf, half, tx>>
moduleVars == <<mode, inbox, out, urcs, accepted>>
vars == <<initialized, fault, taskVars, mutexVars, isrVars, uartVars, moduleVars>>

\* A reception armed into a buffer of a transact() that has returned is "dead":
\* DMA still writes to that stack frame.
RxStates == {"ready", "live", "dead"}

PcValues ==
  {"idle", "take", "next", "arm", "send", "wait", "view", "abort", "clean1", "clean2",
   "judge", "sleep", "teardown", "give", "delete", "clear"}

Init ==
  /\ initialized = StartInitialized
  /\ mutexExists = StartInitialized
  /\ mutexOwner = NoTask /\ mutexDepth = 0
  /\ callingTask = NoTask /\ idleSize = 0
  /\ notified = [t \in Tasks |-> 0]
  /\ rx = "ready" /\ buf = <<>> /\ half = FALSE /\ tx = NoCmd
  /\ pc = [t \in Tasks |-> "idle"]
  /\ op = [t \in Tasks |-> NoOp]
  /\ todo = [t \in Tasks |-> <<>>]
  /\ tries = [t \in Tasks |-> 0]
  /\ outcome = [t \in Tasks |-> "ok"]
  /\ result = [t \in Tasks |-> "none"]
  /\ calls = [t \in Tasks |-> 0]
  /\ mode = NoNumber /\ inbox = <<>> /\ out = <<>> /\ urcs = 0 /\ accepted = {}
  /\ fault = FALSE

Goto(t, label) == pc' = [pc EXCEPT ![t] = label]
-----------------------------------------------------------------------------
(* Entering and leaving an operation *)

\* The header documents init() and deinit() as not thread safe.  init() runs
\* alone, before anybody uses the driver; deinit() does too if DeinitAlone.
MayCall(t, o) ==
  \A u \in Tasks \ {t} :
    \/ pc[u] = "idle"
    \/ /\ "init" \notin {o.name, op[u].name}
       /\ DeinitAlone => "deinit" \notin {o.name, op[u].name}

\* The checks every operation makes before it touches anything shared.
Refusal(o) ==
  CASE o.name = "init" /\ initialized -> "ERR_INVALID_STATE"
    [] o.name # "init" /\ ~initialized -> "ERR_INVALID_STATE"
    [] o.name = "send_sms" /\ o.num = NoNumber -> "ERR_INVALID_ARG"
    [] OTHER -> "none"

CallRefused(t, o) ==
  /\ pc[t] = "idle" /\ calls[t] < MaxCalls /\ MayCall(t, o)
  /\ Refusal(o) # "none"
  /\ result' = [result EXCEPT ![t] = Refusal(o)]
  /\ calls' = [calls EXCEPT ![t] = @ + 1]
  /\ UNCHANGED <<initialized, fault, pc, op, todo, tries, outcome, mutexVars, isrVars,
                 uartVars, moduleVars>>

\* An operation that passes its checks goes on to take the mutex, without
\* holding anything yet.  init() sets the UART and its DMA channels up instead.
Call(t, o) ==
  /\ pc[t] = "idle" /\ calls[t] < MaxCalls /\ MayCall(t, o)
  /\ Refusal(o) = "none"
  /\ op' = [op EXCEPT ![t] = o]
  /\ todo' = [todo EXCEPT ![t] = Plan(o, t, calls[t] + 1)]
  /\ calls' = [calls EXCEPT ![t] = @ + 1]
  /\ result' = [result EXCEPT ![t] = "none"]
  /\ IF o.name = "init"
     THEN /\ tries' = [tries EXCEPT ![t] = AtTries]
          /\ rx' = "ready" /\ tx' = NoCmd
          /\ Goto(t, "next")
     ELSE /\ Goto(t, "take")
          /\ UNCHANGED <<tries, rx, tx>>
  /\ UNCHANGED <<initialized, fault, outcome, mutexVars, isrVars, buf, half, moduleVars>>

\* deinit() has taken the UART down and given the mutex, but is not done yet.
TornDown == \E u \in Tasks : pc[u] \in {"delete", "clear"}

\* Mutant: the mutex keeps nobody out.
MutexFree_Ignored == mutexExists /\ ~TornDown
MutexFree == mutexExists /\ ~TornDown /\ mutexOwner = NoTask

\* xSemaphoreTakeRecursive() in scoped_mutex_t
TakeMutex(t) ==
  /\ pc[t] = "take" /\ MutexFree
  /\ mutexOwner' = t /\ mutexDepth' = 1
  /\ Goto(t, "next")
  /\ UNCHANGED <<initialized, fault, mutexExists, op, todo, tries, outcome, result, calls,
                 isrVars, uartVars, moduleVars>>

\* It gives up after TIMEOUT_MS, except in deinit(), which waits for ever.
TakeTimeout(t) ==
  /\ pc[t] = "take" /\ mutexExists /\ mutexOwner # NoTask
  /\ op[t].name # "deinit"
  /\ result' = [result EXCEPT ![t] = "ERR_TIMEOUT"]
  /\ Goto(t, "idle")
  /\ UNCHANGED <<initialized, fault, op, todo, tries, outcome, calls, mutexVars, isrVars,
                 uartVars, moduleVars>>

\* The task passed the check of g_is_initialized, but deinit() has taken the
\* UART down or deleted the mutex since.  It goes on to use them: nothing is
\* defined any more, and its run ends here.
TakeDeleted(t) ==
  /\ pc[t] = "take" /\ (~mutexExists \/ TornDown)
  /\ fault' = TRUE
  /\ Goto(t, "idle")
  /\ UNCHANGED <<initialized, op, todo, tries, outcome, result, calls, mutexVars, isrVars,
                 uartVars, moduleVars>>

\* send_sms() calls get_sim_status(), which takes the mutex again; the take by
\* its holder cannot fail.
InStatusCheck(t) == op[t].name = "send_sms" /\ op[t].check /\ Len(todo[t]) > 2

\* Mutant: the nested call takes the mutex again before every command.
NotNested_PerCommand == TRUE
NotNested == mutexDepth = 1

NestedTake(t) ==
  /\ pc[t] = "next" /\ InStatusCheck(t) /\ NotNested
  /\ mutexDepth' = mutexDepth + 1
  /\ UNCHANGED <<initialized, fault, mutexExists, mutexOwner, taskVars, isrVars, uartVars,
                 moduleVars>>

NestedGive(t) ==
  /\ pc[t] = "next" /\ ~InStatusCheck(t) /\ mutexDepth = 2
  /\ mutexDepth' = 1
  /\ UNCHANGED <<initialized, fault, mutexExists, mutexOwner, taskVars, isrVars, uartVars,
                 moduleVars>>

\* Mutant: one give releases a mutex taken twice.
LastGive_AtAnyDepth == TRUE

\* The destructors of the nested and of the outer scoped_mutex_t.
LastGive == mutexDepth = 1

Give(t) ==
  /\ pc[t] = "give"
  /\ mutexDepth' = mutexDepth - 1
  /\ IF LastGive
     THEN /\ mutexOwner' = NoTask
          /\ Goto(t, IF op[t].name = "deinit" THEN "delete" ELSE "idle")
     ELSE UNCHANGED <<mutexOwner, pc>>
  /\ UNCHANGED <<initialized, fault, mutexExists, op, todo, tries, outcome, result, calls,
                 isrVars, uartVars, moduleVars>>
-----------------------------------------------------------------------------
(* transact(), and the AT loop of send_init_sequence(), which does the same  *)

\* Remember the task that the interrupt handler is to notify.
Begin(t) ==
  /\ pc[t] = "next"
  /\ op[t].name = "send_sms" /\ op[t].check => mutexDepth = IF InStatusCheck(t) THEN 2 ELSE 1
  /\ callingTask' = t
  /\ Goto(t, "arm")
  /\ UNCHANGED <<initialized, fault, idleSize, notified, op, todo, tries, outcome, result, calls,
                 mutexVars, uartVars, moduleVars>>

\* HAL_UARTEx_ReceiveToIdle_DMA() into a new buffer on the stack
Arm(t) ==
  /\ pc[t] = "arm" /\ rx = "ready"
  /\ rx' = "live" /\ buf' = <<>> /\ half' = FALSE
  /\ Goto(t, "send")
  /\ UNCHANGED <<initialized, fault, tx, op, todo, tries, outcome, result, calls, mutexVars,
                 isrVars, moduleVars>>

\* HAL_BUSY when a reception is under way; HAL_ERROR when a line error strikes
\* at once.  Either way transact() returns.
ArmFails(t) ==
  /\ pc[t] = "arm"
  /\ outcome' = [outcome EXCEPT ![t] = "hal"]
  /\ Goto(t, "clean1")
  /\ UNCHANGED <<initialized, fault, op, todo, tries, result, calls, mutexVars, isrVars,
                 uartVars, moduleVars>>

\* HAL_UART_Transmit_DMA()
Send(t) ==
  /\ pc[t] = "send" /\ tx = NoCmd
  /\ tx' = Head(todo[t])
  /\ Goto(t, "wait")
  /\ UNCHANGED <<initialized, fault, rx, buf, half, op, todo, tries, outcome, result, calls,
                 mutexVars, isrVars, moduleVars>>

\* HAL_BUSY: an earlier transmission is still under way.  transact() returns
\* without ending the reception it has just armed.
SendFails(t) ==
  /\ pc[t] = "send" /\ tx # NoCmd
  /\ outcome' = [outcome EXCEPT ![t] = "hal"]
  /\ Goto(t, "clean1")
  /\ UNCHANGED <<initialized, fault, op, todo, tries, result, calls, mutexVars, isrVars,
                 uartVars, moduleVars>>

\* ulTaskNotifyTake(pdTRUE, ...) returns a count and clears it.
TakeNotification(t) ==
  /\ pc[t] = "wait" /\ notified[t] > 0
  /\ notified' = [notified EXCEPT ![t] = 0]
  /\ Goto(t, "view")
  /\ UNCHANGED <<initialized, fault, callingTask, idleSize, op, todo, tries, outcome, result,
                 calls, mutexVars, uartVars, moduleVars>>

\* Mutant: the wait has no timeout of its own.
TimedOut_IfReceived(t) == notified[t] = 0 /\ tx = NoCmd /\ rx = "ready"

\* It returns 0 after the timeout.  At 57600 baud the longest command (256
\* bytes, 44 ms) has left the UART by then.
TimedOut(t) == notified[t] = 0 /\ tx = NoCmd

\* The AT loop of init() sends again while it has attempts left.
WaitTimeout(t) ==
  /\ pc[t] = "wait" /\ TimedOut(t)
  /\ IF op[t].name = "init" /\ Head(todo[t]).name = "AT" /\ tries[t] > 1
     THEN tries' = [tries EXCEPT ![t] = @ - 1] /\ Goto(t, "send")
     ELSE Goto(t, "abort") /\ UNCHANGED tries
  /\ UNCHANGED <<initialized, fault, op, todo, outcome, result, calls, mutexVars, isrVars,
                 uartVars, moduleVars>>

\* HAL_UART_Abort()
Abort(t) ==
  /\ pc[t] = "abort"
  /\ rx' = "ready" /\ tx' = NoCmd
  /\ outcome' = [outcome EXCEPT ![t] = "silent"]
  /\ Goto(t, "clean1")
  /\ UNCHANGED <<initialized, fault, buf, half, op, todo, tries, result, calls, mutexVars, isrVars,
                 moduleVars>>

\* A view of the first g_rx_idle_line_size bytes of the buffer, and the verdict.
View(t) ==
  /\ pc[t] = "view"
  /\ outcome' = [outcome EXCEPT ![t] =
       IF Accepts(Head(todo[t]).name, Within(buf, idleSize), idleSize) THEN "ok" ELSE "bad"]
  /\ Goto(t, "clean1")
  /\ UNCHANGED <<initialized, fault, op, todo, tries, result, calls, mutexVars, isrVars,
                 uartVars, moduleVars>>

\* ~cleanup_t(): first the size, then the handle.
Clean1(t) ==
  /\ pc[t] = "clean1"
  /\ idleSize' = 0
  /\ Goto(t, "clean2")
  /\ UNCHANGED <<initialized, fault, callingTask, notified, op, todo, tries, outcome, result,
                 calls, mutexVars, uartVars, moduleVars>>

\* Mutant: the handle is not cleared.
Clean2_KeepsHandle(t) ==
  /\ pc[t] = "clean2"
  /\ rx' = IF rx = "live" THEN "dead" ELSE rx
  /\ Goto(t, "judge")
  /\ UNCHANGED <<initialized, fault, isrVars, buf, half, tx, op, todo, tries, outcome, result,
                 calls, mutexVars, moduleVars>>

Clean2(t) ==
  /\ pc[t] = "clean2"
  /\ callingTask' = NoTask
  /\ rx' = IF rx = "live" THEN "dead" ELSE rx
  /\ Goto(t, "judge")
  /\ UNCHANGED <<initialized, fault, idleSize, notified, buf, half, tx, op, todo, tries, outcome,
                 result, calls, mutexVars, moduleVars>>
-----------------------------------------------------------------------------
(* What an operation makes of the verdict *)

\* Leave with the given result.  init() holds no mutex; it creates it on success.
Leave(t, res) ==
  /\ result' = [result EXCEPT ![t] = res]
  /\ todo' = [todo EXCEPT ![t] = <<>>]
  /\ IF op[t].name = "init"
     THEN /\ initialized' = (res = "NONE")
          /\ mutexExists' = IF res = "NONE" THEN TRUE ELSE mutexExists
          /\ Goto(t, "idle")
     ELSE /\ UNCHANGED <<initialized, mutexExists>>
          /\ Goto(t, "give")

\* The next command, or the end of the operation.
JudgeOk(t) ==
  /\ pc[t] = "judge" /\ outcome[t] = "ok" /\ op[t].name # "deinit"
  /\ IF Len(todo[t]) = 1
     THEN Leave(t, "NONE") /\ UNCHANGED tries
     ELSE /\ todo' = [todo EXCEPT ![t] = Tail(@)]
          /\ tries' = [tries EXCEPT ![t] = IF op[t].name = "init" THEN SignalPolls ELSE 0]
          /\ Goto(t, "next")
          /\ UNCHANGED <<initialized, mutexExists, result>>
  /\ UNCHANGED <<fault, op, outcome, calls, mutexOwner, mutexDepth, isrVars, uartVars, moduleVars>>

\* init() polls the signal strength, with a delay after each failure.
PollsSignal(t) == op[t].name = "init" /\ Head(todo[t]).name = "CHECK_SIGNAL"

JudgeFailed(t) ==
  /\ pc[t] = "judge" /\ outcome[t] # "ok" /\ op[t].name # "deinit"
  /\ IF PollsSignal(t)
     THEN Goto(t, "sleep") /\ UNCHANGED <<initialized, mutexExists, result, todo>>
     ELSE Leave(t, ErrorOf(op[t], Head(todo[t]).name, outcome[t]))
  /\ UNCHANGED <<fault, op, tries, outcome, calls, mutexOwner, mutexDepth, isrVars, uartVars,
                 moduleVars>>

\* vTaskDelay(WAIT_BETWEEN_SIG_CHECK_MS)
Sleep(t) ==
  /\ pc[t] = "sleep"
  /\ tries' = [tries EXCEPT ![t] = @ - 1]
  /\ IF tries[t] > 1
     THEN Goto(t, "next") /\ UNCHANGED <<initialized, mutexExists, result, todo>>
     ELSE Leave(t, "GSM_BAD_NETWORK_CONN")
  /\ UNCHANGED <<fault, op, outcome, calls, mutexOwner, mutexDepth, isrVars, uartVars, moduleVars>>

\* deinit() ignores the verdict, takes the UART and its DMA channels down...
JudgeDeinit(t) ==
  /\ pc[t] = "judge" /\ op[t].name = "deinit"
  /\ Goto(t, "teardown")
  /\ UNCHANGED <<initialized, fault, op, todo, tries, outcome, result, calls, mutexVars, isrVars,
                 uartVars, moduleVars>>

Teardown(t) ==
  /\ pc[t] = "teardown"
  /\ rx' = "ready" /\ tx' = NoCmd
  /\ callingTask' = NoTask /\ idleSize' = 0
  /\ Goto(t, "give")
  /\ UNCHANGED <<initialized, fault, notified, buf, half, op, todo, tries, outcome, result, calls,
                 mutexVars, moduleVars>>

\* ... gives the mutex (Give), deletes it, and only then clears
\* g_is_initialized.
DeleteMutex(t) ==
  /\ pc[t] = "delete"
  /\ mutexExists' = FALSE
  /\ Goto(t, "clear")
  /\ UNCHANGED <<initialized, fault, mutexOwner, mutexDepth, op, todo, tries, outcome, result,
                 calls, isrVars, uartVars, moduleVars>>

ClearInitialized(t) ==
  /\ pc[t] = "clear"
  /\ initialized' = FALSE
  /\ result' = [result EXCEPT ![t] = "NONE"]
  /\ todo' = [todo EXCEPT ![t] = <<>>]
  /\ Goto(t, "idle")
  /\ UNCHANGED <<fault, op, tries, outcome, calls, mutexVars, isrVars, uartVars, moduleVars>>
-----------------------------------------------------------------------------
(* Interrupts *)

\* HAL_UARTEx_RxEventCallback(): nothing when no task is remembered, or else
\* store the size and notify the task.
RxEventCallback(size) ==
  IF callingTask = NoTask
  THEN UNCHANGED <<idleSize, notified>>
  ELSE /\ idleSize' = size
       /\ notified' = [notified EXCEPT ![callingTask] = @ + 1]

\* UART_EndTransmit_IT(): gState is ready again.
EndTransmit == tx' = NoCmd

\* The DMA has moved the last byte and the transmission is complete: the module
\* has the command.  A module that lags MaxBacklog commands behind drops it.
TxDone ==
  /\ tx # NoCmd
  /\ EndTransmit
  /\ inbox' = IF Len(inbox) < MaxBacklog THEN Append(inbox, tx) ELSE inbox
  /\ UNCHANGED <<initialized, fault, taskVars, mutexVars, isrVars, rx, buf, half, mode, out, urcs,
                 accepted>>

\* Half of the receive buffer is full.  The reception goes on, but the
\* callback runs as it does at the end.
RxHalf ==
  LET all == buf \o out
      first == Within(all, RxBufSize \div 2)
  IN /\ rx # "ready" /\ ~half
     /\ Bytes(all) >= RxBufSize \div 2
     /\ half' = TRUE
     /\ buf' = first
     /\ out' = SubSeq(all, Len(first) + 1, Len(all))
     /\ RxEventCallback(RxBufSize \div 2)
     /\ UNCHANGED <<initialized, fault, taskVars, mutexVars, callingTask, rx, tx, mode, inbox, urcs,
                    accepted>>

\* Mutant: the end of a reception leaves it armed.
EndedRx_StillArmed == rx

\* What HAL_UART_IRQHandler() leaves of a reception that has ended.
EndedRx == "ready"

\* The line goes idle after a burst, or the buffer is full: the reception ends.
\* What the module sent before it was armed is missing.  The half-transfer
\* interrupt has come first if it had to.
RxEnd ==
  /\ rx # "ready"
  /\ \E missed \in 0..Len(out) :
       LET all == buf \o SubSeq(out, missed + 1, Len(out))
           size == Bytes(all)
       IN /\ all # <<>> \/ half
          /\ size >= RxBufSize \div 2 => half
          /\ buf' = Within(all, RxBufSize)
          /\ RxEventCallback(IF size < RxBufSize THEN size ELSE RxBufSize)
  /\ out' = <<>>
  /\ rx' = EndedRx
  /\ UNCHANGED <<initialized, fault, taskVars, mutexVars, callingTask, half, tx, mode, inbox, urcs,
                 accepted>>

\* A framing, noise or overrun error ends the reception and calls nobody.
RxError ==
  /\ rx # "ready" /\ out # <<>>
  /\ rx' = "ready" /\ out' = <<>>
  /\ UNCHANGED <<initialized, fault, taskVars, mutexVars, isrVars, buf, half, tx, mode, inbox, urcs,
                 accepted>>

\* A burst that no reception is armed for is lost.
BurstLost ==
  /\ rx = "ready" /\ out # <<>>
  /\ out' = <<>>
  /\ UNCHANGED <<initialized, fault, taskVars, mutexVars, isrVars, uartVars, mode, inbox, urcs,
                 accepted>>
-----------------------------------------------------------------------------
(* The module, as far as the driver's commands assume it: it answers the     *)
(* commands it receives in order, each with one response, after any delay.   *)

Answers(name) ==
  CASE name = "CHECK_SIM" -> {"CPIN", "ERROR"}
    [] name = "CHECK_REG" -> {"CREG_1", "CREG_0"}
    [] name = "CHECK_SIGNAL" -> {"CSQ_20", "CSQ_99"}
    [] name = "GET_IMSI" -> {"IMSI", "ERROR"}
    [] name = "DEINIT" -> {"DOWN"}
    [] name = "TEXT" -> {"ERROR"}
    [] OTHER -> {"OK", "ERROR"}

\* A command received while no text is being collected
AnswerCommand(c) ==
  \/ /\ c.name # "CMGS"
     /\ \E r \in Answers(c.name) : out' = Append(out, r)
     /\ UNCHANGED <<mode, accepted>>
  \/ /\ c.name = "CMGS"
     /\ mode' = c.num
     /\ out' = Append(out, "PROMPT")
     /\ UNCHANGED accepted
  \/ /\ c.name = "CMGS"
     /\ out' = Append(out, "ERROR")
     /\ UNCHANGED <<mode, accepted>>

\* After the prompt everything up to Ctrl-Z is text.
CollectText(c) ==
  \/ /\ c.name # "TEXT"
     /\ out' = out \/ out' = Append(out, "PROMPT")
     /\ UNCHANGED <<mode, accepted>>
  \/ /\ c.name = "TEXT"
     /\ mode' = NoNumber
     /\ accepted' = accepted \cup {[by |-> c.by, id |-> c.id, meant |-> c.num, sent |-> mode]}
     /\ out' = Append(out, "CMGS")
  \/ /\ c.name = "TEXT"
     /\ mode' = NoNumber
     /\ out' = Append(out, "ERROR")
     /\ UNCHANGED accepted

ModuleAnswers ==
  /\ inbox # <<>> /\ Len(out) < MaxBurst
  /\ inbox' = Tail(inbox)
  /\ IF mode = NoNumber THEN AnswerCommand(Head(inbox)) ELSE CollectText(Head(inbox))
  /\ UNCHANGED <<initialized, fault, taskVars, mutexVars, isrVars, uartVars, urcs>>

ModuleSpeaks ==
  /\ urcs < MaxUrc /\ Len(out) < MaxBurst
  /\ urcs' = urcs + 1
  /\ out' = Append(out, "URC")
  /\ UNCHANGED <<initialized, fault, taskVars, mutexVars, isrVars, uartVars, mode, inbox, accepted>>
-----------------------------------------------------------------------------
Enter(t) == \E o \in Workload : Call(t, o) \/ CallRefused(t, o)

Locking(t) ==
  \/ TakeMutex(t) \/ TakeTimeout(t) \/ TakeDeleted(t)
  \/ NestedTake(t) \/ NestedGive(t) \/ Give(t)

Transact(t) ==
  \/ Begin(t) \/ Arm(t) \/ ArmFails(t) \/ Send(t) \/ SendFails(t)
  \/ TakeNotification(t) \/ WaitTimeout(t) \/ Abort(t) \/ View(t)
  \/ Clean1(t) \/ Clean2(t)

Decide(t) ==
  \/ JudgeOk(t) \/ JudgeFailed(t) \/ Sleep(t)
  \/ JudgeDeinit(t) \/ Teardown(t) \/ DeleteMutex(t) \/ ClearInitialized(t)

Proceed(t) == Locking(t) \/ Transact(t) \/ Decide(t)

Interrupt == TxDone \/ RxHalf \/ RxEnd \/ RxError
Module == ModuleAnswers \/ ModuleSpeaks \/ BurstLost

Next == (\E t \in Tasks : Enter(t) \/ Proceed(t)) \/ Interrupt \/ Module

Spec == Init /\ [][Next]_vars

\* The scheduler runs every task that is ready, a timeout expires, and a DMA
\* transmission ends.  The module owes nothing.
FairSpec == Spec /\ (\A t \in Tasks : WF_vars(Proceed(t))) /\ WF_vars(TxDone)

\* A module that answers every command it receives
FairModuleSpec == FairSpec /\ WF_vars(ModuleAnswers) /\ WF_vars(RxEnd \/ RxError)
-----------------------------------------------------------------------------
(* Properties *)

InTransact(t) == pc[t] \in {"arm", "send", "wait", "view", "abort", "clean1", "clean2"}

TypeOK ==
  /\ initialized \in BOOLEAN /\ fault \in BOOLEAN
  /\ mutexExists \in BOOLEAN
  /\ mutexOwner \in Tasks \cup {NoTask}
  /\ mutexDepth \in 0..2
  /\ callingTask \in Tasks \cup {NoTask}
  /\ notified \in [Tasks -> Nat]
  /\ rx \in RxStates /\ half \in BOOLEAN
  /\ tx \in Command \cup {NoCmd}
  /\ pc \in [Tasks -> PcValues]
  /\ op \in [Tasks -> Operations \cup {NoOp}]
  /\ todo \in [Tasks -> Seq(Command)]
  /\ tries \in [Tasks -> Int]
  /\ outcome \in [Tasks -> Outcomes]
  /\ result \in [Tasks -> Results]
  /\ calls \in [Tasks -> 0..MaxCalls]

\* At most one task is between remembering itself in g_calling_task_handle and
\* clearing it again, and the interrupt handler notifies that task: no caller
\* is woken by, or steals, the reception of another.
OneTransaction ==
  \A t \in Tasks : InTransact(t) =>
    /\ callingTask = t
    /\ \A u \in Tasks : InTransact(u) => u = t

\* However an operation ends, on every early return and at either depth of the
\* recursive mutex, its task leaves with the mutex given back; and the mutex is
\* held by nobody else than a task inside an operation.
NoLockLeak ==
  /\ \A t \in Tasks : pc[t] \in {"idle", "take", "delete", "clear"} => mutexOwner # t
  /\ mutexDepth = 0 <=> mutexOwner = NoTask

\* An SMS that the module accepts goes to the number it was meant for.
SmsReachesItsNumber == \A a \in accepted : a.sent = a.meant

\* send_sms() returns NONE only if the module has accepted the text of this call.
SmsNoneMeansAccepted ==
  \A t \in Tasks :
    op[t].name = "send_sms" /\ result[t] = "NONE" =>
      \E a \in accepted : a.by = t /\ a.id = calls[t]

\* A transaction starts with no notification and no size left from an earlier one.
NothingLeaksIn == \A t \in Tasks : pc[t] = "arm" => notified[t] = 0 /\ idleSize = 0

\* Whoever calls the driver gets an answer: every wait in it is bounded, on a
\* silent module as on a talking one, and nobody waits for ever for the mutex.
EveryCallReturns == \A t \in Tasks : pc[t] # "idle" ~> pc[t] = "idle"

\* A reception left armed into a stack buffer that is gone ends again, if the
\* module answers the commands it receives.
DeadReceptionEnds == rx = "dead" ~> rx # "dead"
-----------------------------------------------------------------------------
(* The abstraction: sessions that exclude each other *)

\* The task a session belongs to: the holder of the mutex or, before there is
\* one, the task that executes init().
InInit(t) == op[t].name = "init" /\ pc[t] # "idle"
SessionHolder ==
  IF \E t \in Tasks : InInit(t) THEN CHOOSE t \in Tasks : InInit(t) ELSE mutexOwner

Session == INSTANCE GsmSession WITH holder <- SessionHolder, caller <- callingTask

\* The driver implements exclusive sessions: a task talks to the module only
\* inside a session of its own, and ends each exchange before the session.
ImplementsSession == Session!Spec
=============================================================================
