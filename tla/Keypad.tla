------------------------------- MODULE Keypad -------------------------------
(***************************************************************************)
(* The keypad, class template keypad_t of components/drivers/inc/          *)
(* keypad.hpp, and the switches of switch.hpp as far as they meet it in    *)
(* the interrupt masks.                                                    *)
(*                                                                         *)
(* All rows are low, so that a contact that closes pulls its column low.   *)
(* The edge sets the pending bit of the column in the EXTI, masked or not; *)
(* a pending bit that is not masked makes the NVIC run irq_handler(), which *)
(* masks all columns and starts a timer.  Debounced, the timer task scans  *)
(* the rows, sends the first key it finds to a queue and unmasks the       *)
(* columns.  Handlers run before tasks, and the timer task, which has the  *)
(* highest priority, before the application's.                             *)
(*                                                                         *)
(* A contact bounces for a while after it is pressed or released, and for  *)
(* less than DEBOUNCE_TIME_MS: when the timer expires, only contacts that  *)
(* were touched after it was started can still bounce.                     *)
(***************************************************************************)
EXTENDS Integers, Sequences, FiniteSets

CONSTANTS
  ROWS, COLUMNS,    \* the size of the matrix
  Vectors,          \* the interrupt vectors of the column pins
  VectorOf,         \* which of them each column has
  NoKey,            \* no key
  QueueLength,      \* queue_length
  TimerQueueLength, \* configTIMER_QUEUE_LENGTH
  PressedKeys,      \* bound: the keys that are pressed
  MaxPresses,       \* bound: how often keys are pressed
  MaxCalls          \* bound: calls of init() and deinit()

Rows == 1..ROWS
Columns == 1..COLUMNS
Keys == Rows \X Columns

\* Three vectors and five commands: EXTI3, EXTI4 and EXTI9_5 of PB3, PB4, PB5 and PB8
ASSUME ConstantsAssumption ==
  /\ ROWS \in Nat \ {0} /\ COLUMNS \in Nat \ {0}
  /\ IsFiniteSet(Vectors) /\ VectorOf \in [Columns -> Vectors]
  /\ NoKey \notin Keys
  /\ QueueLength \in Nat \ {0}
  /\ TimerQueueLength \in Nat /\ TimerQueueLength > Cardinality(Vectors)
  /\ PressedKeys \subseteq Keys /\ MaxPresses \in Nat /\ MaxCalls \in Nat

VARIABLES
  finger,      \* keys that are held down
  closed,      \* keys whose contact is closed
  bouncing,    \* keys whose contact still bounces
  lowRows,     \* rows driven low
  analog,      \* the columns are analog, not inputs with interrupts
  pr,          \* EXTI->PR: columns with a pending edge
  imr,         \* EXTI->IMR: columns that are not masked
  nvic,        \* vectors whose interrupt is pending
  irqs,        \* the application has enabled the vectors
  isr,         \* where irq_handler() is
  configured,  \* m_config, m_row_pins and m_col_pins are set
  initialized, \* m_is_initialized
  queue,       \* m_event_queue
  timer,       \* m_debounce_timer: none, dormant or running
  touched,     \* keys pressed or released since the timer was started
  commands,    \* start commands in the timer command queue
  cb,          \* where debounce_timer_cb() is
  row, hit,    \* the row it reads next, and the key it has found
  pc,          \* where the application's task is in init() or deinit()
  copy,        \* the masks it has read from EXTI->IMR
  alone,       \* ghost: the last key pressed, if the keypad listened, no other was down,
               \* and it was not dropped
  told,        \* ghost: how often that press was sent to the queue, up to twice
  steady,      \* ghost: no contact has changed since the scan began
  causes,      \* ghost: what may have left the columns masked for ever
  fault,       \* the callback has used what deinit() has cleared
  presses, calls

contactVars == <<finger, closed, bouncing, presses>>
pinVars == <<lowRows, analog>>
extiVars == <<pr, imr, nvic>>
appVars == <<irqs, configured, initialized, pc, copy, calls>>
cbVars == <<cb, row, hit>>
timerVars == <<timer, touched, commands>>
ghostVars == <<alone, told, steady, causes, fault>>
vars == <<contactVars, pinVars, extiVars, appVars, isr, queue, timerVars, cbVars, ghostVars>>

CbSteps == {"high", "scan", "send", "low", "clear", "unmask"}
InitSteps == {"columns", "rows", "create", "done"}
DeinitSteps == {"float", "forget", "drop", "stop", "delete"}

\* Out of reset, with nobody at the keypad
Init ==
  /\ finger = {} /\ closed = {} /\ bouncing = {} /\ presses = 0
  /\ lowRows = {} /\ analog = TRUE
  /\ pr = {} /\ imr = {} /\ nvic = {}
  /\ irqs = FALSE /\ configured = FALSE /\ initialized = FALSE
  /\ pc = "idle" /\ copy = {} /\ calls = 0
  /\ isr = "none" /\ queue = <<>>
  /\ timer = "none" /\ touched = {} /\ commands = 0
  /\ cb = "idle" /\ row = 1 /\ hit = NoKey
  /\ alone = NoKey /\ told = 0 /\ steady = TRUE /\ causes = {} /\ fault = FALSE
-----------------------------------------------------------------------------
(* Pins, edges and interrupts *)

\* An analog pin reads as 0.
Low(c, rows, contacts) == analog \/ \E r \in rows : <<r, c>> \in contacts

Edges(rows, contacts) ==
  {c \in Columns : ~Low(c, lowRows, closed) /\ Low(c, rows, contacts)}

\* The pending bits and the masks change; what is newly pending and not masked
\* raises its vector.
Signal(pending, unmasked) ==
  /\ pr' = pending /\ imr' = unmasked
  /\ nvic' = nvic \cup {VectorOf[c] : c \in (pending \cap unmasked) \ (pr \cap imr)}

DriveRows(rows) ==
  /\ lowRows' = rows /\ UNCHANGED analog
  /\ Signal(pr \cup Edges(rows, closed), imr)

SetContacts(contacts) ==
  /\ closed' = contacts
  /\ steady' = (steady /\ (contacts = closed \/ cb \notin {"scan", "send"}))
  /\ Signal(pr \cup Edges(lowRows, contacts), imr)

\* A handler runs before any task, and the timer task before the application's.
HandlersDone == ~fault /\ isr = "none" /\ (irqs => nvic = {})
TimerTaskWaits == HandlersDone /\ cb = "idle" /\ commands = 0

ColPins == IF configured THEN Columns ELSE {}
RowPins == IF configured THEN Rows ELSE {}
-----------------------------------------------------------------------------
(* Fingers and contacts *)

\* The keypad waits for an edge, and no contact can make one but by a press.
Listens ==
  /\ initialized /\ pc = "idle" /\ irqs /\ TimerTaskWaits
  /\ imr = Columns /\ timer = "dormant"
  /\ finger = {} /\ bouncing = {}

Touch(k) ==
  /\ bouncing' = bouncing \cup {k}
  /\ touched' = IF timer = "running" \/ commands > 0 THEN touched \cup {k} ELSE touched
  /\ UNCHANGED <<closed, pinVars, extiVars, appVars, isr, queue, timer, commands, cbVars,
                 steady, causes, fault>>

Press(k) ==
  /\ k \notin finger /\ presses < MaxPresses
  /\ presses' = presses + 1
  /\ finger' = finger \cup {k}
  /\ alone' = IF Listens THEN k ELSE NoKey
  /\ told' = 0
  /\ Touch(k)

Release(k) ==
  /\ k \in finger
  /\ finger' = finger \ {k}
  /\ UNCHANGED <<presses, alone, told>>
  /\ Touch(k)

Bounce(k) ==
  /\ k \in bouncing
  /\ SetContacts(IF k \in closed THEN closed \ {k} ELSE closed \cup {k})
  /\ UNCHANGED <<finger, bouncing, presses, pinVars, appVars, isr, queue, timerVars, cbVars,
                 alone, told, causes, fault>>

Settle(k) ==
  /\ k \in bouncing
  /\ bouncing' = bouncing \ {k}
  /\ SetContacts(IF k \in finger THEN closed \cup {k} ELSE closed \ {k})
  /\ UNCHANGED <<finger, presses, pinVars, appVars, isr, queue, timerVars, cbVars,
                 alone, told, causes, fault>>
-----------------------------------------------------------------------------
(* irq_handler() *)

IsrRest == <<contactVars, pinVars, appVars, queue, timer, cbVars, alone, told, steady, fault>>

Enter(v) ==
  /\ ~fault /\ irqs /\ isr = "none" /\ v \in nvic
  /\ nvic' = nvic \ {v} /\ isr' = "clear"
  /\ UNCHANGED <<IsrRest, pr, imr, touched, commands, causes>>

ClearPending ==
  /\ isr = "clear" /\ isr' = "mask"
  /\ Signal(pr \ ColPins, imr)
  /\ UNCHANGED <<IsrRest, touched, commands, causes>>

\* Mutant: the columns are not masked.
MaskColumns_Missing ==
  /\ isr = "mask" /\ isr' = "start"
  /\ UNCHANGED <<IsrRest, extiVars, touched, commands, causes>>

MaskColumns ==
  /\ isr = "mask" /\ isr' = "start"
  /\ Signal(pr, imr \ ColPins)
  /\ UNCHANGED <<IsrRest, touched, commands, causes>>

\* A command for a timer that does not exist yet or does not fit into the queue
\* is not sent, and nobody looks at what xTimerStartFromISR() returns.
StartTimer ==
  /\ isr = "start" /\ isr' = "none"
  /\ causes' = IF timer = "none" THEN causes \cup {"no timer"} ELSE causes
  /\ IF timer # "none" /\ commands < TimerQueueLength
     THEN commands' = commands + 1 /\ touched' = {}
     ELSE UNCHANGED <<commands, touched>>
  /\ UNCHANGED <<IsrRest, extiVars>>
-----------------------------------------------------------------------------
(* The timer task *)

TimerRest == <<contactVars, appVars, isr>>

ProcessCommand ==
  /\ HandlersDone /\ cb = "idle" /\ commands > 0
  /\ commands' = commands - 1 /\ timer' = "running"
  /\ UNCHANGED <<TimerRest, pinVars, extiVars, queue, touched, cbVars, alone, told, steady, causes, fault>>

\* Debounced.  The timer task looks at the time before it looks at the queue, but
\* a restart that waits while the timer is due was sent by an interrupt of columns
\* that should be masked ("masks overwritten"); it is taken to come first.
\* The callback of a keypad that deinit() has cleared writes to pins that do not
\* exist and sends to a queue that does not: nothing is defined after that.
Expire ==
  /\ TimerTaskWaits /\ timer = "running" /\ bouncing \subseteq touched
  /\ timer' = "dormant" /\ touched' = {}
  /\ IF configured THEN cb' = "high" /\ UNCHANGED fault
                   ELSE fault' = TRUE /\ UNCHANGED cb
  /\ UNCHANGED <<TimerRest, pinVars, extiVars, queue, commands, row, hit, alone, told, steady, causes>>

\* What a step of the callback leaves alone
CbRest == <<TimerRest, timerVars, alone, causes, fault>>

\* Mutant: the rows stay low for the scan.
RowsHigh_Missing ==
  /\ HandlersDone /\ cb = "high" /\ cb' = "scan"
  /\ UNCHANGED <<CbRest, pinVars, extiVars, queue, row, hit, told, steady>>

RowsHigh ==
  /\ HandlersDone /\ cb = "high" /\ cb' = "scan"
  /\ DriveRows(lowRows \ RowPins)
  /\ UNCHANGED <<CbRest, queue, row, hit, told, steady>>

\* Mutant: the loop runs once too often.
ScanRow_OffByOne ==
  /\ HandlersDone /\ cb = "scan"
  /\ DriveRows(lowRows \cup {row})
  /\ \/ \E c \in Columns :
          /\ Low(c, lowRows', closed) /\ \A d \in Columns : d < c => ~Low(d, lowRows', closed)
          /\ hit' = <<row, c>> /\ cb' = "send" /\ UNCHANGED row
     \/ /\ \A c \in Columns : ~Low(c, lowRows', closed)
        /\ IF row <= ROWS THEN row' = row + 1 /\ UNCHANGED cb ELSE cb' = "low" /\ UNCHANGED row
        /\ UNCHANGED hit
  /\ UNCHANGED <<CbRest, queue, told, steady>>

\* The row goes low, and those before it still are; the columns are read in order,
\* in one step: a contact that changes between two of them gives what it gives when
\* it changes before the first or after the last.
ScanRow ==
  /\ HandlersDone /\ cb = "scan"
  /\ DriveRows(lowRows \cup {row})
  /\ \/ \E c \in Columns :
          /\ Low(c, lowRows', closed) /\ \A d \in Columns : d < c => ~Low(d, lowRows', closed)
          /\ hit' = <<row, c>> /\ cb' = "send" /\ UNCHANGED row
     \/ /\ \A c \in Columns : ~Low(c, lowRows', closed)
        /\ IF row < ROWS THEN row' = row + 1 /\ UNCHANGED cb ELSE cb' = "low" /\ UNCHANGED row
        /\ UNCHANGED hit
  /\ UNCHANGED <<CbRest, queue, told, steady>>

\* Mutant: the callback returns when the queue is full.
Send_ReturnsIfFull ==
  /\ HandlersDone /\ cb = "send"
  /\ IF Len(queue) < QueueLength
     THEN /\ queue' = Append(queue, hit) /\ cb' = "low"
          /\ told' = IF hit = alone /\ told < 2 THEN told + 1 ELSE told
     ELSE cb' = "idle" /\ UNCHANGED <<queue, told>>
  /\ UNCHANGED <<CbRest, pinVars, extiVars, row, hit, steady>>

\* A key is dropped when the queue is full.
Send ==
  /\ HandlersDone /\ cb = "send" /\ cb' = "low"
  /\ IF Len(queue) < QueueLength
     THEN /\ queue' = Append(queue, hit)
          /\ told' = IF hit = alone /\ told < 2 THEN told + 1 ELSE told
          /\ UNCHANGED alone
     ELSE /\ alone' = IF hit = alone THEN NoKey ELSE alone
          /\ UNCHANGED <<queue, told>>
  /\ UNCHANGED <<TimerRest, timerVars, causes, fault, pinVars, extiVars, row, hit, steady>>

\* Mutant: the rows are not taken back to low.
RowsLow_Missing ==
  /\ HandlersDone /\ cb = "low" /\ cb' = "clear"
  /\ DriveRows(lowRows \ RowPins)
  /\ UNCHANGED <<CbRest, queue, row, hit, told, steady>>

RowsLow ==
  /\ HandlersDone /\ cb = "low" /\ cb' = "clear"
  /\ DriveRows(lowRows \cup RowPins)
  /\ UNCHANGED <<CbRest, queue, row, hit, told, steady>>

\* Mutant: the edges the scan has made are left pending.
ClearEdges_Missing ==
  /\ HandlersDone /\ cb = "clear" /\ cb' = "unmask"
  /\ UNCHANGED <<CbRest, pinVars, extiVars, queue, row, hit, told, steady>>

ClearEdges ==
  /\ HandlersDone /\ cb = "clear" /\ cb' = "unmask"
  /\ Signal(pr \ ColPins, imr)
  /\ UNCHANGED <<CbRest, pinVars, queue, row, hit, told, steady>>

UnmaskColumns ==
  /\ HandlersDone /\ cb = "unmask" /\ cb' = "idle"
  /\ Signal(pr, imr \cup ColPins)
  /\ row' = 1 /\ hit' = NoKey /\ steady' = TRUE
  /\ UNCHANGED <<CbRest, pinVars, queue, told>>
-----------------------------------------------------------------------------
(* The application: init() and deinit() of the keypad and of a switch *)

AppRest == <<contactVars, isr, cbVars, told, steady, causes, fault>>

Goto(from, to) == TimerTaskWaits /\ pc = from /\ pc' = to

\* init() and deinit() return at once when m_is_initialized is not as they need it.
\* The clocks can be enabled: gpio_enable_clk() knows the ports the pins are on.
InitKeypad ==
  /\ Goto("idle", "columns") /\ ~initialized
  /\ calls < MaxCalls /\ calls' = calls + 1
  /\ configured' = TRUE
  /\ UNCHANGED <<AppRest, pinVars, extiVars, queue, timerVars, alone, irqs, initialized, copy>>

\* HAL_GPIO_Init() of the columns, which goes pin by pin in the code.  An interrupt
\* between two pins finds no timer, as one after the last does (StartTimer).
SetColumns ==
  /\ Goto("columns", "rows")
  /\ analog' = FALSE /\ UNCHANGED lowRows
  /\ Signal(pr, imr \cup ColPins)
  /\ UNCHANGED <<AppRest, queue, timerVars, alone, irqs, configured, initialized, copy, calls>>

\* HAL_GPIO_Init() of the rows makes them outputs, which are low already.
SetRows ==
  /\ Goto("rows", "create")
  /\ DriveRows(RowPins)
  /\ UNCHANGED <<AppRest, queue, timerVars, alone, irqs, configured, initialized, copy, calls>>

Create ==
  /\ Goto("create", "done")
  /\ queue' = <<>> /\ timer' = "dormant"
  /\ UNCHANGED <<AppRest, pinVars, extiVars, touched, commands, alone, irqs, configured,
                 initialized, copy, calls>>

InitDone ==
  /\ Goto("done", "idle")
  /\ initialized' = TRUE
  /\ UNCHANGED <<AppRest, pinVars, extiVars, queue, timerVars, alone, irqs, configured, copy, calls>>

\* The application enables the vectors after the first init(), for good.
EnableIrqs ==
  /\ Goto("idle", "idle") /\ initialized /\ ~irqs
  /\ irqs' = TRUE
  /\ UNCHANGED <<AppRest, pinVars, extiVars, queue, timerVars, alone, configured, initialized,
                 copy, calls>>

\* init() of a switch: HAL_GPIO_Init() reads EXTI->IMR, sets the bit of the
\* switch and writes the rest back as it was read.
InitSwitch ==
  /\ Goto("idle", "mask")
  /\ calls < MaxCalls /\ calls' = calls + 1
  /\ copy' = imr
  /\ UNCHANGED <<AppRest, pinVars, extiVars, queue, timerVars, alone, irqs, configured, initialized>>

WriteMasks ==
  /\ Goto("mask", "idle")
  /\ Signal(pr, copy)
  /\ causes' = IF copy # imr THEN causes \cup {"masks overwritten"} ELSE causes
  /\ copy' = {}
  /\ UNCHANGED <<contactVars, isr, cbVars, told, steady, fault, pinVars, queue, timerVars, alone,
                 irqs, configured, initialized, calls>>

\* Mutant: the columns keep their mode.
Deinit_KeepsColumns ==
  /\ Goto("idle", "float") /\ initialized
  /\ calls < MaxCalls /\ calls' = calls + 1
  /\ alone' = NoKey
  /\ UNCHANGED <<AppRest, pinVars, extiVars, queue, timerVars, irqs, configured, initialized, copy>>

\* deinit() makes the columns analog; a column that was high may show an edge.
Deinit ==
  /\ Goto("idle", "float") /\ initialized
  /\ calls < MaxCalls /\ calls' = calls + 1
  /\ analog' = TRUE /\ UNCHANGED lowRows
  /\ \E falls \in SUBSET {c \in Columns : ~Low(c, lowRows, closed)} : Signal(pr \cup falls, imr)
  /\ alone' = NoKey
  /\ UNCHANGED <<AppRest, queue, timerVars, irqs, configured, initialized, copy>>

FloatRows ==
  /\ Goto("float", "forget")
  /\ DriveRows({})
  /\ UNCHANGED <<AppRest, queue, timerVars, alone, irqs, configured, initialized, copy, calls>>

ForgetConfig ==
  /\ Goto("forget", "drop")
  /\ configured' = FALSE
  /\ UNCHANGED <<AppRest, pinVars, extiVars, queue, timerVars, alone, irqs, initialized, copy, calls>>

DeleteQueue ==
  /\ Goto("drop", "stop")
  /\ queue' = <<>>
  /\ UNCHANGED <<AppRest, pinVars, extiVars, timerVars, alone, irqs, configured, initialized,
                 copy, calls>>

\* The timer task executes the command before xTimerStop() returns.
StopTimer ==
  /\ Goto("stop", "delete")
  /\ timer' = "dormant" /\ touched' = {}
  /\ UNCHANGED <<AppRest, pinVars, extiVars, queue, commands, alone, irqs, configured,
                 initialized, copy, calls>>

DeleteTimer ==
  /\ Goto("delete", "idle")
  /\ timer' = "none" /\ initialized' = FALSE
  /\ UNCHANGED <<AppRest, pinVars, extiVars, queue, touched, commands, alone, irqs, configured,
                 copy, calls>>

\* The reader of the queue
Receive ==
  /\ TimerTaskWaits /\ queue # <<>>
  /\ queue' = Tail(queue)
  /\ UNCHANGED <<AppRest, pinVars, extiVars, timerVars, alone, appVars>>
-----------------------------------------------------------------------------
(* The specification *)

Person == \E k \in PressedKeys : Press(k) \/ Release(k)
Contacts == \E k \in PressedKeys : Bounce(k) \/ Settle(k)
Handler == (\E v \in Vectors : Enter(v)) \/ ClearPending \/ MaskColumns \/ StartTimer
TimerTask ==
  \/ ProcessCommand \/ Expire
  \/ RowsHigh \/ ScanRow \/ Send \/ RowsLow \/ ClearEdges \/ UnmaskColumns
Application ==
  \/ InitKeypad \/ SetColumns \/ SetRows \/ Create \/ InitDone \/ EnableIrqs
  \/ InitSwitch \/ WriteMasks
  \/ Deinit \/ FloatRows \/ ForgetConfig \/ DeleteQueue \/ StopTimer \/ DeleteTimer
  \/ Receive

Next == Person \/ Contacts \/ Handler \/ TimerTask \/ Application
Spec == Init /\ [][Next]_vars

\* Contacts settle, handlers run and return, and so does the timer task.  Nobody
\* must press a key, read the queue or call anything.
Fairness ==
  /\ \A k \in PressedKeys : WF_vars(Settle(k))
  /\ WF_vars(Handler)
  /\ WF_vars(TimerTask)
FairSpec == Spec /\ Fairness
-----------------------------------------------------------------------------
(* Properties *)

ContactTypes ==
  finger \subseteq Keys /\ closed \subseteq Keys /\ bouncing \subseteq Keys /\ presses \in Nat
ExtiTypes ==
  /\ lowRows \subseteq Rows
  /\ pr \subseteq Columns /\ imr \subseteq Columns /\ nvic \subseteq Vectors /\ copy \subseteq Columns
FlagTypes ==
  /\ analog \in BOOLEAN /\ irqs \in BOOLEAN /\ configured \in BOOLEAN
  /\ initialized \in BOOLEAN /\ steady \in BOOLEAN /\ fault \in BOOLEAN
PlaceTypes ==
  /\ isr \in {"none", "clear", "mask", "start"}
  /\ cb \in {"idle"} \cup CbSteps
  /\ pc \in {"idle", "mask"} \cup InitSteps \cup DeinitSteps /\ calls \in Nat
ScanTypes == row \in Rows /\ hit \in Keys \cup {NoKey} /\ (cb = "send" => hit \in Keys)
QueueTypes == queue \in Seq(Keys) /\ Len(queue) <= QueueLength
TimerTypes ==
  /\ timer \in {"none", "dormant", "running"} /\ touched \subseteq Keys
  /\ commands \in 0..TimerQueueLength
GhostTypes ==
  /\ alone \in Keys \cup {NoKey} /\ told \in 0..2
  /\ causes \subseteq {"no timer", "masks overwritten"}

\* The types of the variables
TypeOK ==
  /\ ContactTypes /\ ExtiTypes /\ FlagTypes /\ PlaceTypes
  /\ ScanTypes /\ QueueTypes /\ TimerTypes /\ GhostTypes

\* Masked columns of an initialised keypad are on their way to being unmasked: a
\* handler, a command, the timer or the callback will do it.  There are just two
\* ways to go deaf for good, an interrupt between the rows and the timer in
\* init(), and HAL_GPIO_Init() of another pin, which writes back an old mask.
MasksEnd ==
  initialized /\ pc \in {"idle", "mask"} /\ imr # Columns =>
    isr # "none" \/ commands > 0 \/ timer = "running" \/ cb # "idle" \/ causes # {}

\* xTimerStartFromISR(), whose result irq_handler() ignores, finds room in the
\* command queue however the columns bounce and their vectors fire.
CommandFits ==
  isr = "start" /\ timer # "none" /\ causes = {} => commands < TimerQueueLength

\* A key that is pressed while the keypad listens, and no other key while it is
\* down, is sent to the queue once at most, however it bounces and however the
\* rows move under it.
ReportedOnce == causes = {} => told <= 1

\* While no contact changes, the scan finds a key that is closed, and the first
\* one row by row, although the rows before it stay low.
FindsFirst ==
  cb = "send" /\ steady /\ ~analog =>
    /\ hit \in closed
    /\ \A k \in closed : hit[1] < k[1] \/ (hit[1] = k[1] /\ hit[2] <= k[2])

\* When deinit() has returned, no callback and no handler is left to run.  The one
\* place where a callback can use what deinit() has cleared is between the clearing
\* of the pins and the stop of the timer.
DeinitIsFinal ==
  /\ ~initialized /\ pc = "idle" =>
       /\ isr = "none" /\ cb = "idle" /\ commands = 0 /\ timer = "none"
       /\ irqs => nvic = {}
  /\ fault => pc \in {"drop", "stop"}

\* A key that is pressed and held while the keypad listens, and no other key, is
\* sent to the queue, unless that is full then or the keypad deinitialised.
PressArrives ==
  \A k \in PressedKeys :
    alone = k /\ k \in finger ~> told > 0 \/ alone # k \/ k \notin finger \/ causes # {}
=============================================================================
