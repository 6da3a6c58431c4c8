---------------------------- MODULE KeypadProofs ----------------------------
(***************************************************************************)
(* Proofs about Keypad, for every matrix, assignment of vectors, length of *)
(* the queues and bound.                                                   *)
(***************************************************************************)
EXTENDS Keypad, FiniteSetTheorems, TLAPS

(* Types *)

\* The registers of the EXTI stay sets of columns and of vectors.
LEMMA SignalTyped ==
  ASSUME ExtiTypes, NEW P, NEW U, P \subseteq Columns, U \subseteq Columns, Signal(P, U)
  PROVE  pr' \subseteq Columns /\ imr' \subseteq Columns /\ nvic' \subseteq Vectors
<1>1. \A c \in Columns : VectorOf[c] \in Vectors
  BY ConstantsAssumption
<1>2. nvic' = nvic \cup {VectorOf[c] : c \in (P \cap U) \ (pr \cap imr)}
  BY DEF Signal
<1> QED
  BY <1>1, <1>2 DEF Signal, ExtiTypes

LEMMA DriveTyped ==
  ASSUME ExtiTypes, FlagTypes, NEW R, R \subseteq Rows, DriveRows(R), UNCHANGED copy
  PROVE  ExtiTypes'
<1>1. pr \cup Edges(R, closed) \subseteq Columns /\ imr \subseteq Columns
  BY DEF Edges, ExtiTypes
<1>2. Signal(pr \cup Edges(R, closed), imr) /\ lowRows' = R
  BY DEF DriveRows
<1>3. pr' \subseteq Columns /\ imr' \subseteq Columns /\ nvic' \subseteq Vectors
  BY <1>1, <1>2, SignalTyped
<1> QED
  BY <1>2, <1>3 DEF ExtiTypes

LEMMA InitTyped == Init => TypeOK
<1> SUFFICES ASSUME Init PROVE TypeOK
  OBVIOUS
<1>1. ContactTypes /\ ExtiTypes
  BY DEF Init, ContactTypes, ExtiTypes
<1>2. FlagTypes
  BY Zenon DEF Init, FlagTypes
<1>3. PlaceTypes
  BY DEF Init, PlaceTypes
<1>4. ScanTypes
  BY ConstantsAssumption DEF Init, ScanTypes, Rows
<1>5. QueueTypes
  BY ConstantsAssumption DEF Init, QueueTypes
<1>6. TimerTypes /\ GhostTypes
  BY ConstantsAssumption DEF Init, TimerTypes, GhostTypes
<1> QED
  BY <1>1, <1>2, <1>3, <1>4, <1>5, <1>6 DEF TypeOK

\* What a step leaves alone keeps its type.
LEMMA Frames ==
  ASSUME TypeOK
  PROVE  /\ UNCHANGED contactVars => ContactTypes'
         /\ UNCHANGED <<pinVars, extiVars, copy>> => ExtiTypes'
         /\ UNCHANGED <<analog, irqs, configured, initialized, steady, fault>> => FlagTypes'
         /\ UNCHANGED <<isr, cb, pc, calls>> => PlaceTypes'
         /\ UNCHANGED cbVars => ScanTypes'
         /\ UNCHANGED queue => QueueTypes'
         /\ UNCHANGED timerVars => TimerTypes'
         /\ UNCHANGED <<alone, told, causes>> => GhostTypes'
<1>1. UNCHANGED contactVars => ContactTypes'
  BY DEF TypeOK, ContactTypes, contactVars
<1>2. UNCHANGED <<pinVars, extiVars, copy>> => ExtiTypes'
  BY DEF TypeOK, ExtiTypes, pinVars, extiVars
<1>3. UNCHANGED <<analog, irqs, configured, initialized, steady, fault>> => FlagTypes'
  BY DEF TypeOK, FlagTypes
<1>4. UNCHANGED <<isr, cb, pc, calls>> => PlaceTypes'
  BY DEF TypeOK, PlaceTypes
<1>5. UNCHANGED cbVars => ScanTypes'
  BY DEF TypeOK, ScanTypes, cbVars
<1>6. UNCHANGED queue => QueueTypes'
  BY DEF TypeOK, QueueTypes
<1>7. UNCHANGED timerVars => TimerTypes'
  BY DEF TypeOK, TimerTypes, timerVars
<1>8. UNCHANGED <<alone, told, causes>> => GhostTypes'
  BY DEF TypeOK, GhostTypes
<1> QED
  BY <1>1, <1>2, <1>3, <1>4, <1>5, <1>6, <1>7, <1>8

\* What a person and the contacts do is well typed.
LEMMA OutsideTyped ==
  ASSUME TypeOK, Person \/ Contacts
  PROVE  TypeOK'
<1> USE DEF contactVars, pinVars, extiVars, appVars, timerVars, cbVars
<1>1. ASSUME NEW k \in PressedKeys, Press(k) \/ Release(k)
      PROVE  TypeOK'
  <2>1. k \in Keys
    BY ConstantsAssumption
  <2>2. /\ UNCHANGED <<closed, pinVars, extiVars, appVars, isr, queue, timer, commands, cbVars>>
        /\ UNCHANGED <<steady, causes, fault>>
        /\ bouncing' = bouncing \cup {k} /\ touched' \in {touched, touched \cup {k}}
    BY <1>1 DEF Press, Release, Touch
  <2>3. finger' \in {finger \cup {k}, finger \ {k}} /\ presses' \in {presses, presses + 1}
    BY <1>1 DEF Press, Release
  <2>4. alone' \in {k, NoKey, alone} /\ told' \in {0, told} /\ causes' = causes
    BY <1>1 DEF Press, Release, Touch
  <2>5. ContactTypes'
    BY <2>1, <2>2, <2>3 DEF TypeOK, ContactTypes
  <2>6. TimerTypes'
    BY <2>1, <2>2 DEF TypeOK, TimerTypes
  <2>7. GhostTypes'
    <3>1. alone \in Keys \cup {NoKey} /\ told \in 0..2
      BY DEF TypeOK, GhostTypes
    <3>2. alone' \in Keys \cup {NoKey}
      BY <2>1, <2>4, <3>1
    <3>3. told' \in 0..2
      BY <2>4, <3>1
    <3> QED
      BY <2>4, <3>2, <3>3 DEF TypeOK, GhostTypes
  <2> QED
    BY <2>2, <2>5, <2>6, <2>7, Frames DEF TypeOK
<1>2. ASSUME NEW k \in PressedKeys, Bounce(k) \/ Settle(k)
      PROVE  TypeOK'
  <2>1. k \in Keys
    BY ConstantsAssumption
  <2>2. /\ UNCHANGED <<finger, presses, pinVars, appVars, isr, queue, timerVars, cbVars>>
        /\ UNCHANGED <<alone, told, causes, fault>>
        /\ bouncing' \in {bouncing, bouncing \ {k}}
    BY <1>2 DEF Bounce, Settle
  <2>3. PICK C : SetContacts(C) /\ C \subseteq Keys
    BY <1>2, <2>1 DEF Bounce, Settle, TypeOK, ContactTypes
  <2>4. pr \cup Edges(lowRows, C) \subseteq Columns /\ imr \subseteq Columns
    BY DEF Edges, TypeOK, ExtiTypes
  <2>5. pr' \subseteq Columns /\ imr' \subseteq Columns /\ nvic' \subseteq Vectors
    BY <2>3, <2>4, SignalTyped DEF SetContacts, TypeOK
  <2>6. ExtiTypes'
    BY <2>2, <2>5 DEF TypeOK, ExtiTypes
  <2>7. ContactTypes'
    BY <2>2, <2>3 DEF SetContacts, TypeOK, ContactTypes
  <2>8. steady' \in BOOLEAN
    BY <2>3 DEF SetContacts
  <2>9. FlagTypes'
    BY <2>2, <2>8 DEF TypeOK, FlagTypes
  <2> QED
    BY <2>2, <2>6, <2>7, <2>9, Frames DEF TypeOK
<1> QED
  BY <1>1, <1>2 DEF Person, Contacts

LEMMA HandlerTyped ==
  ASSUME TypeOK, Handler
  PROVE  TypeOK'
<1> USE DEF IsrRest, contactVars, pinVars, extiVars, appVars, timerVars, cbVars
<1>1. ASSUME NEW v \in Vectors, Enter(v)
      PROVE  TypeOK'
  <2>1. ExtiTypes' /\ PlaceTypes'
    BY <1>1 DEF Enter, TypeOK, ExtiTypes, PlaceTypes
  <2> QED
    BY <1>1, <2>1, Frames DEF Enter, TypeOK
<1>2. ASSUME ClearPending \/ MaskColumns
      PROVE  TypeOK'
  <2>1. PICK P, U : Signal(P, U) /\ P \subseteq Columns /\ U \subseteq Columns
    BY <1>2 DEF ClearPending, MaskColumns, TypeOK, ExtiTypes
  <2>2. pr' \subseteq Columns /\ imr' \subseteq Columns /\ nvic' \subseteq Vectors
    BY <2>1, SignalTyped DEF TypeOK
  <2>3. UNCHANGED <<IsrRest, touched, commands, causes>> /\ isr' \in {"mask", "start"}
    BY <1>2 DEF ClearPending, MaskColumns
  <2>4. ExtiTypes' /\ PlaceTypes'
    BY <2>2, <2>3 DEF TypeOK, ExtiTypes, PlaceTypes
  <2> QED
    BY <2>3, <2>4, Frames DEF TypeOK
<1>3. CASE StartTimer
  <2>1. \/ commands < TimerQueueLength /\ commands' = commands + 1 /\ touched' = {}
        \/ commands' = commands /\ touched' = touched
    BY <1>3 DEF StartTimer
  <2>2. TimerTypes' /\ PlaceTypes'
    <3>1. commands \in 0..TimerQueueLength /\ TimerQueueLength \in Nat
      BY ConstantsAssumption DEF TypeOK, TimerTypes
    <3>2. commands' \in 0..TimerQueueLength
      BY <2>1, <3>1
    <3>3. TimerTypes'
      BY <1>3, <2>1, <3>2 DEF StartTimer, TypeOK, TimerTypes
    <3>4. PlaceTypes'
      BY <1>3 DEF StartTimer, TypeOK, PlaceTypes
    <3> QED
      BY <3>3, <3>4
  <2>3. GhostTypes'
    BY <1>3 DEF StartTimer, TypeOK, GhostTypes
  <2> QED
    BY <1>3, <2>2, <2>3, Frames DEF StartTimer, TypeOK
<1> QED
  BY <1>1, <1>2, <1>3 DEF Handler

LEMMA TimerTaskTyped ==
  ASSUME TypeOK, TimerTask
  PROVE  TypeOK'
<1> USE DEF CbRest, TimerRest, contactVars, pinVars, extiVars, appVars, timerVars, cbVars
<1>1. CASE ProcessCommand
  <2>1. TimerTypes'
    BY <1>1, ConstantsAssumption DEF ProcessCommand, TypeOK, TimerTypes
  <2> QED
    BY <1>1, <2>1, Frames DEF ProcessCommand, TypeOK
<1>2. CASE Expire
  <2>1. cb' \in {cb, "high"} /\ fault' \in {fault, TRUE} /\ (cb' = "send" => cb = "send")
    BY <1>2 DEF Expire
  <2>2. PlaceTypes' /\ ScanTypes'
    BY <1>2, <2>1 DEF Expire, TypeOK, PlaceTypes, ScanTypes, CbSteps
  <2>3. TimerTypes'
    BY <1>2 DEF Expire, TypeOK, TimerTypes
  <2>4. FlagTypes'
    BY <1>2, <2>1 DEF Expire, TypeOK, FlagTypes
  <2> QED
    BY <1>2, <2>2, <2>3, <2>4, Frames DEF Expire, TypeOK
<1>3. CASE RowsHigh
  <2>1. ExtiTypes'
    BY <1>3, DriveTyped DEF RowsHigh, TypeOK, ExtiTypes
  <2>2. PlaceTypes' /\ ScanTypes'
    BY <1>3 DEF RowsHigh, TypeOK, PlaceTypes, ScanTypes, CbSteps
  <2> QED
    BY <1>3, <2>1, <2>2, Frames DEF RowsHigh, DriveRows, TypeOK
<1>4. CASE ScanRow
  <2>1. lowRows \cup {row} \subseteq Rows
    BY DEF TypeOK, ExtiTypes, ScanTypes
  <2>2. ExtiTypes'
    BY <1>4, <2>1, DriveTyped DEF ScanRow, TypeOK
  <2>3. \/ \E c \in Columns : hit' = <<row, c>> /\ cb' = "send" /\ row' = row
        \/ row < ROWS /\ row' = row + 1 /\ cb' = cb /\ hit' = hit
        \/ row' = row /\ cb' = "low" /\ hit' = hit
    BY <1>4 DEF ScanRow
  <2>4. row \in 1..ROWS /\ cb = "scan"
    BY <1>4 DEF ScanRow, TypeOK, ScanTypes, Rows
  <2>5. row' \in Rows
    BY <2>3, <2>4, ConstantsAssumption DEF Rows
  <2>6. PlaceTypes' /\ ScanTypes'
    BY <1>4, <2>3, <2>4, <2>5 DEF ScanRow, TypeOK, PlaceTypes, ScanTypes, CbSteps, Keys, Rows
  <2> QED
    BY <1>4, <2>2, <2>6, Frames DEF ScanRow, DriveRows, TypeOK
<1>5. CASE Send
  <2>1. hit \in Keys /\ queue \in Seq(Keys) /\ Len(queue) <= QueueLength
    BY <1>5 DEF Send, TypeOK, ScanTypes, QueueTypes
  <2>2. QueueTypes'
    <3>1. CASE Len(queue) < QueueLength
      <4>1. queue' = Append(queue, hit)
        BY <1>5, <3>1 DEF Send
      <4>2. queue' \in Seq(Keys) /\ Len(queue') = Len(queue) + 1
        BY <2>1, <4>1
      <4> QED
        BY <2>1, <3>1, <4>2, ConstantsAssumption DEF QueueTypes
    <3>2. CASE ~(Len(queue) < QueueLength)
      BY <1>5, <2>1, <3>2 DEF Send, QueueTypes
    <3> QED
      BY <3>1, <3>2
  <2>3. /\ told' = told \/ (told < 2 /\ told' = told + 1)
        /\ alone' = alone \/ alone' = NoKey
        /\ causes' = causes
    <3>1. CASE Len(queue) < QueueLength
      BY <1>5, <3>1 DEF Send
    <3>2. CASE ~(Len(queue) < QueueLength)
      BY <1>5, <3>2 DEF Send
    <3> QED
      BY <3>1, <3>2
  <2>4. GhostTypes'
    <3>1. alone \in Keys \cup {NoKey} /\ told \in 0..2
      BY DEF TypeOK, GhostTypes
    <3>2. told' \in 0..2
      BY <2>3, <3>1
    <3> QED
      BY <2>3, <3>1, <3>2 DEF TypeOK, GhostTypes
  <2>5. PlaceTypes' /\ ScanTypes'
    BY <1>5 DEF Send, TypeOK, PlaceTypes, ScanTypes, CbSteps
  <2> QED
    BY <1>5, <2>2, <2>4, <2>5, Frames DEF Send, TypeOK
<1>6. CASE RowsLow
  <2>1. lowRows \cup RowPins \subseteq Rows
    BY DEF RowPins, TypeOK, ExtiTypes
  <2>2. ExtiTypes'
    BY <1>6, <2>1, DriveTyped DEF RowsLow, TypeOK
  <2>3. PlaceTypes' /\ ScanTypes'
    BY <1>6 DEF RowsLow, TypeOK, PlaceTypes, ScanTypes, CbSteps
  <2> QED
    BY <1>6, <2>2, <2>3, Frames DEF RowsLow, DriveRows, TypeOK
<1>7. ASSUME ClearEdges \/ UnmaskColumns
      PROVE  TypeOK'
  <2>1. PICK P, U : Signal(P, U) /\ P \subseteq Columns /\ U \subseteq Columns
    BY <1>7 DEF ClearEdges, UnmaskColumns, ColPins, TypeOK, ExtiTypes
  <2>2. pr' \subseteq Columns /\ imr' \subseteq Columns /\ nvic' \subseteq Vectors
    BY <2>1, SignalTyped DEF TypeOK
  <2>3. /\ UNCHANGED <<CbRest, pinVars, queue, told>> /\ cb' \in {"unmask", "idle"}
        /\ \/ row' = row /\ hit' = hit /\ steady' = steady
           \/ row' = 1 /\ hit' = NoKey /\ steady' = TRUE
    BY <1>7 DEF ClearEdges, UnmaskColumns
  <2>4. ExtiTypes'
    BY <2>2, <2>3 DEF TypeOK, ExtiTypes
  <2>5. PlaceTypes'
    BY <2>3 DEF TypeOK, PlaceTypes, CbSteps
  <2>6. ScanTypes'
    BY <2>3, ConstantsAssumption DEF TypeOK, ScanTypes, Rows
  <2>7. FlagTypes'
    BY <2>3 DEF TypeOK, FlagTypes
  <2> QED
    BY <2>3, <2>4, <2>5, <2>6, <2>7, Frames DEF TypeOK
<1> QED
  BY <1>1, <1>2, <1>3, <1>4, <1>5, <1>6, <1>7 DEF TimerTask

\* What the application does is well typed.
LEMMA ApplicationTyped ==
  ASSUME TypeOK, Application
  PROVE  TypeOK'
<1> USE DEF AppRest, contactVars, pinVars, extiVars, appVars, timerVars, cbVars
<1>1. ASSUME NEW to \in {"idle", "mask"} \cup InitSteps \cup DeinitSteps, pc' = to,
             calls' \in {calls, calls + 1}, UNCHANGED <<isr, cb>>
      PROVE  PlaceTypes'
  BY <1>1 DEF TypeOK, PlaceTypes
<1>2. ASSUME InitKeypad \/ InitDone \/ EnableIrqs \/ ForgetConfig
      PROVE  TypeOK'
  <2>1. /\ UNCHANGED <<AppRest, pinVars, extiVars, queue, timerVars, alone, copy>>
        /\ configured' \in {configured, TRUE, FALSE} /\ irqs' \in {irqs, TRUE}
        /\ initialized' \in {initialized, TRUE}
    BY <1>2 DEF InitKeypad, InitDone, EnableIrqs, ForgetConfig
  <2>2. pc' \in {"columns", "idle", "drop"} /\ calls' \in {calls, calls + 1}
    BY <1>2 DEF InitKeypad, InitDone, EnableIrqs, ForgetConfig, Goto
  <2>3. PlaceTypes'
    BY <1>1, <2>1, <2>2 DEF InitSteps, DeinitSteps
  <2>4. FlagTypes'
    BY <2>1 DEF TypeOK, FlagTypes
  <2> QED
    BY <2>1, <2>3, <2>4, Frames DEF TypeOK
<1>3. CASE SetColumns
  <2>1. pr \subseteq Columns /\ imr \cup ColPins \subseteq Columns
    BY DEF ColPins, TypeOK, ExtiTypes
  <2>2. pr' \subseteq Columns /\ imr' \subseteq Columns /\ nvic' \subseteq Vectors
    BY <1>3, <2>1, SignalTyped DEF SetColumns, TypeOK
  <2>3. ExtiTypes'
    BY <1>3, <2>2 DEF SetColumns, TypeOK, ExtiTypes
  <2>4. PlaceTypes'
    BY <1>1, <1>3 DEF SetColumns, Goto, InitSteps
  <2>5. FlagTypes'
    BY <1>3 DEF SetColumns, TypeOK, FlagTypes
  <2> QED
    BY <1>3, <2>3, <2>4, <2>5, Frames DEF SetColumns, TypeOK
<1>4. ASSUME SetRows \/ FloatRows
      PROVE  TypeOK'
  <2>1. PICK R : DriveRows(R) /\ R \subseteq Rows
    BY <1>4 DEF SetRows, FloatRows, RowPins
  <2>2. /\ UNCHANGED <<AppRest, queue, timerVars, alone, irqs, configured, initialized, copy, calls>>
        /\ pc' \in {"create", "forget"}
    BY <1>4 DEF SetRows, FloatRows, Goto
  <2>3. ExtiTypes'
    BY <2>1, <2>2, DriveTyped DEF TypeOK
  <2>4. PlaceTypes'
    BY <1>1, <2>2 DEF InitSteps, DeinitSteps
  <2>5. FlagTypes'
    BY <2>1, <2>2 DEF DriveRows, TypeOK, FlagTypes
  <2> QED
    BY <2>2, <2>3, <2>4, <2>5, Frames DEF TypeOK
<1>5. ASSUME Create \/ DeleteQueue
      PROVE  TypeOK'
  <2>1. /\ UNCHANGED <<AppRest, pinVars, extiVars, touched, commands, alone, irqs, configured>>
        /\ UNCHANGED <<initialized, copy, calls>>
        /\ queue' = <<>> /\ timer' \in {timer, "dormant"} /\ pc' \in {"done", "stop"}
    BY <1>5 DEF Create, DeleteQueue, Goto
  <2>2. QueueTypes'
    BY <2>1, ConstantsAssumption DEF QueueTypes
  <2>3. TimerTypes'
    BY <2>1 DEF TypeOK, TimerTypes
  <2>4. PlaceTypes'
    BY <1>1, <2>1 DEF InitSteps, DeinitSteps
  <2> QED
    BY <2>1, <2>2, <2>3, <2>4, Frames DEF TypeOK
<1>6. CASE InitSwitch
  <2>1. ExtiTypes'
    BY <1>6 DEF InitSwitch, TypeOK, ExtiTypes
  <2>2. PlaceTypes'
    BY <1>1, <1>6 DEF InitSwitch, Goto
  <2> QED
    BY <1>6, <2>1, <2>2, Frames DEF InitSwitch, TypeOK
<1>7. CASE WriteMasks
  <2>1. pr \subseteq Columns /\ copy \subseteq Columns
    BY DEF TypeOK, ExtiTypes
  <2>2. pr' \subseteq Columns /\ imr' \subseteq Columns /\ nvic' \subseteq Vectors
    BY <1>7, <2>1, SignalTyped DEF WriteMasks, TypeOK
  <2>3. ExtiTypes'
    BY <1>7, <2>2 DEF WriteMasks, TypeOK, ExtiTypes
  <2>4. PlaceTypes'
    BY <1>1, <1>7 DEF WriteMasks, Goto
  <2>5. GhostTypes'
    BY <1>7 DEF WriteMasks, TypeOK, GhostTypes
  <2> QED
    BY <1>7, <2>3, <2>4, <2>5, Frames DEF WriteMasks, TypeOK
<1>8. CASE Deinit
  <2>1. PICK falls \in SUBSET {c \in Columns : ~Low(c, lowRows, closed)} : Signal(pr \cup falls, imr)
    BY <1>8 DEF Deinit
  <2>2. pr \cup falls \subseteq Columns /\ imr \subseteq Columns
    BY <2>1 DEF TypeOK, ExtiTypes
  <2>3. pr' \subseteq Columns /\ imr' \subseteq Columns /\ nvic' \subseteq Vectors
    BY <2>1, <2>2, SignalTyped DEF TypeOK
  <2>4. ExtiTypes'
    BY <1>8, <2>3 DEF Deinit, TypeOK, ExtiTypes
  <2>5. PlaceTypes'
    BY <1>1, <1>8 DEF Deinit, Goto, DeinitSteps
  <2>6. FlagTypes'
    BY <1>8 DEF Deinit, TypeOK, FlagTypes
  <2>7. GhostTypes'
    BY <1>8 DEF Deinit, TypeOK, GhostTypes
  <2> QED
    BY <1>8, <2>4, <2>5, <2>6, <2>7, Frames DEF Deinit, TypeOK
<1>9. ASSUME StopTimer \/ DeleteTimer
      PROVE  TypeOK'
  <2>1. /\ UNCHANGED <<AppRest, pinVars, extiVars, queue, commands, alone, irqs, configured, copy, calls>>
        /\ timer' \in {"dormant", "none"} /\ touched' \in {touched, {}}
        /\ initialized' \in {initialized, FALSE} /\ pc' \in {"delete", "idle"}
    BY <1>9 DEF StopTimer, DeleteTimer, Goto
  <2>2. TimerTypes'
    BY <2>1 DEF TypeOK, TimerTypes
  <2>3. PlaceTypes'
    BY <1>1, <2>1 DEF DeinitSteps
  <2>4. FlagTypes'
    BY <2>1 DEF TypeOK, FlagTypes
  <2> QED
    BY <2>1, <2>2, <2>3, <2>4, Frames DEF TypeOK
<1>10. CASE Receive
  <2>1. queue \in Seq(Keys) /\ queue # <<>> /\ queue' = Tail(queue) /\ Len(queue) <= QueueLength
    BY <1>10 DEF Receive, TypeOK, QueueTypes
  <2>2. queue' \in Seq(Keys) /\ Len(queue') = Len(queue) - 1
    BY <2>1
  <2>3. QueueTypes'
    BY <2>1, <2>2, ConstantsAssumption DEF QueueTypes
  <2> QED
    BY <1>10, <2>3, Frames DEF Receive, TypeOK
<1> QED
  BY <1>2, <1>3, <1>4, <1>5, <1>6, <1>7, <1>8, <1>9, <1>10 DEF Application

LEMMA TypeStep == TypeOK /\ [Next]_vars => TypeOK'
<1> SUFFICES ASSUME TypeOK, [Next]_vars PROVE TypeOK'
  OBVIOUS
<1>1. CASE UNCHANGED vars
  <2>1. /\ UNCHANGED <<contactVars, pinVars, extiVars, appVars, isr, queue, timerVars, cbVars>>
        /\ UNCHANGED <<alone, told, steady, causes, fault>>
    BY <1>1 DEF vars, ghostVars
  <2> QED
    BY <2>1, Frames DEF TypeOK, pinVars, appVars, cbVars
<1> QED
  BY <1>1, OutsideTyped, HandlerTyped, TimerTaskTyped, ApplicationTyped DEF Next

\* Every variable keeps its type.
THEOREM TypeCorrect == Spec => []TypeOK
<1>1. Init => TypeOK
  BY InitTyped
<1>2. TypeOK /\ [Next]_vars => TypeOK'
  BY TypeStep
<1> QED
  BY <1>1, <1>2, PTL DEF Spec
-----------------------------------------------------------------------------
(* The life of a keypad *)

\* How far the keypad is set up, by where init() or deinit() is, and that nothing
\* is under way once deinit() has cleared the pins: its columns, analog since
\* then, make no edges.
Life ==
  /\ initialized => pc \in {"idle", "mask"} \cup DeinitSteps
  /\ pc \in DeinitSteps => initialized
  /\ timer # "none" <=> initialized \/ pc = "done"
  /\ configured <=> pc \in InitSteps \cup {"float", "forget"} \/ (pc \in {"idle", "mask"} /\ initialized)
  /\ ~analog <=> pc \in {"rows", "create", "done"} \/ (pc \in {"idle", "mask"} /\ initialized)

Quiet ==
  /\ ~configured => isr = "none" /\ cb = "idle" /\ commands = 0 /\ (irqs => nvic = {})
  /\ pc = "mask" /\ ~configured => copy = imr
  /\ commands > 0 => timer # "none"
  /\ pc = "delete" => timer = "dormant"
  /\ fault => pc \in {"drop", "stop"}

LifeInv == TypeOK /\ Life /\ Quiet

LEMMA SignalOfNothing ==
  ASSUME Signal(pr, imr)
  PROVE  pr' = pr /\ imr' = imr /\ nvic' = nvic
BY DEF Signal

LEMMA AnalogMakesNoEdges ==
  ASSUME NEW R, NEW C, analog
  PROVE  Edges(R, C) = {}
BY DEF Edges, Low

\* Contacts that change leave the interrupts alone while the columns are analog.
LEMMA ContactsQuiet ==
  ASSUME LifeInv, Person \/ Contacts
  PROVE  Life' /\ Quiet'
<1>1. UNCHANGED <<pinVars, appVars, isr, timer, commands, cb, fault>>
  BY DEF Person, Contacts, Press, Release, Touch, Bounce, Settle, timerVars, cbVars
<1>2. imr' = imr /\ (~configured => nvic' = nvic)
  <2>1. CASE Person
    BY <2>1 DEF Person, Press, Release, Touch, extiVars
  <2>2. CASE Contacts
    <3>1. PICK C : SetContacts(C)
      BY <2>2 DEF Contacts, Bounce, Settle
    <3>2. ASSUME ~configured PROVE Edges(lowRows, C) = {}
      <4>1. analog
        BY <3>2 DEF LifeInv, Life, InitSteps
      <4> QED
        BY <4>1, AnalogMakesNoEdges
    <3>3. imr' = imr
      BY <3>1 DEF SetContacts, Signal
    <3>4. ASSUME ~configured PROVE nvic' = nvic
      <4>1. pr \cup Edges(lowRows, C) = pr
        BY <3>2, <3>4
      <4> QED
        BY <3>1, <4>1, SignalOfNothing DEF SetContacts
    <3> QED
      BY <3>3, <3>4
  <2> QED
    BY <2>1, <2>2
<1>3. Life'
  BY <1>1 DEF LifeInv, Life, pinVars, appVars
<1>4. Quiet'
  BY <1>1, <1>2 DEF LifeInv, Quiet, appVars
<1> QED
  BY <1>3, <1>4

LEMMA HandlerQuiet ==
  ASSUME LifeInv, Handler
  PROVE  Life' /\ Quiet'
<1>1. UNCHANGED <<pinVars, appVars, timer, cb, fault>>
  BY DEF Handler, Enter, ClearPending, MaskColumns, StartTimer, IsrRest, cbVars
<1>2. Life'
  BY <1>1 DEF LifeInv, Life, pinVars, appVars
<1>3. configured
  BY DEF LifeInv, Quiet, Handler, Enter, ClearPending, MaskColumns, StartTimer
<1>4. commands' > 0 => timer # "none"
  BY DEF LifeInv, Quiet, TypeOK, TimerTypes, Handler, Enter, ClearPending, MaskColumns, StartTimer
<1>5. Quiet'
  BY <1>1, <1>3, <1>4 DEF LifeInv, Quiet, appVars
<1> QED
  BY <1>2, <1>5

LEMMA TimerTaskQuiet ==
  ASSUME LifeInv, TimerTask
  PROVE  Life' /\ Quiet'
<1>1. UNCHANGED appVars /\ isr' = isr /\ analog' = analog
  BY DEF TimerTask, ProcessCommand, Expire, RowsHigh, ScanRow, Send, RowsLow, ClearEdges,
     UnmaskColumns, CbRest, TimerRest, DriveRows, pinVars
<1>2. CASE ProcessCommand
  <2>1. /\ UNCHANGED <<cb, fault, extiVars>> /\ timer' = "running" /\ commands' = commands - 1
        /\ commands > 0
    BY <1>2 DEF ProcessCommand, cbVars
  <2>2. timer # "none" /\ configured
    BY <2>1 DEF LifeInv, Quiet
  <2>3. Life'
    BY <1>1, <2>1, <2>2 DEF LifeInv, Life, appVars
  <2>4. Quiet'
    BY <1>1, <2>1, <2>2 DEF LifeInv, Quiet, Life, appVars, InitSteps
  <2> QED
    BY <2>3, <2>4
<1>3. CASE Expire
  <2>1. /\ UNCHANGED <<extiVars, commands>> /\ timer = "running" /\ timer' = "dormant"
        /\ configured => cb' = "high" /\ fault' = fault
        /\ ~configured => cb' = cb /\ fault' = TRUE
    BY <1>3 DEF Expire
  <2>2. Life'
    BY <1>1, <2>1 DEF LifeInv, Life, appVars
  <2>3. ~configured => pc \in {"drop", "stop"}
    BY <2>1 DEF LifeInv, Life, Quiet, InitSteps, DeinitSteps
  <2>4. Quiet'
    BY <1>1, <2>1, <2>3 DEF LifeInv, Quiet, appVars, extiVars
  <2> QED
    BY <2>2, <2>4
<1>4. ASSUME RowsHigh \/ ScanRow \/ Send \/ RowsLow \/ ClearEdges \/ UnmaskColumns
      PROVE  Life' /\ Quiet'
  <2>1. UNCHANGED <<timer, commands, fault>> /\ cb # "idle"
    BY <1>4 DEF RowsHigh, ScanRow, Send, RowsLow, ClearEdges, UnmaskColumns, CbRest, timerVars
  <2>2. configured
    BY <2>1 DEF LifeInv, Quiet
  <2>3. Life'
    BY <1>1, <2>1 DEF LifeInv, Life, appVars
  <2>4. Quiet'
    BY <1>1, <2>1, <2>2 DEF LifeInv, Quiet, appVars
  <2> QED
    BY <2>3, <2>4
<1> QED
  BY <1>2, <1>3, <1>4 DEF TimerTask

LEMMA ApplicationQuiet ==
  ASSUME LifeInv, Application
  PROVE  Life' /\ Quiet'
<1>1. /\ TimerTaskWaits /\ ~fault /\ isr = "none" /\ cb = "idle" /\ commands = 0
      /\ (irqs => nvic = {})
  BY DEF Application, InitKeypad, SetColumns, SetRows, Create, InitDone, EnableIrqs, InitSwitch,
     WriteMasks, Deinit, FloatRows, ForgetConfig, DeleteQueue, StopTimer, DeleteTimer, Receive,
     Goto, TimerTaskWaits, HandlersDone
<1>2. UNCHANGED <<isr, cb, commands, fault>>
  BY DEF Application, InitKeypad, SetColumns, SetRows, Create, InitDone, EnableIrqs, InitSwitch,
     WriteMasks, Deinit, FloatRows, ForgetConfig, DeleteQueue, StopTimer, DeleteTimer, Receive,
     AppRest, timerVars, cbVars
<1>3. CASE InitKeypad
  BY <1>1, <1>2, <1>3 DEF InitKeypad, Goto, LifeInv, Life, Quiet, InitSteps, DeinitSteps, pinVars, timerVars
<1>4. CASE SetColumns
  BY <1>1, <1>2, <1>4 DEF SetColumns, Goto, LifeInv, Life, Quiet, InitSteps, DeinitSteps, timerVars
<1>5. CASE SetRows
  BY <1>1, <1>2, <1>5 DEF SetRows, DriveRows, Goto, LifeInv, Life, Quiet, InitSteps, DeinitSteps, timerVars
<1>6. CASE Create
  BY <1>1, <1>2, <1>6 DEF Create, Goto, LifeInv, Life, Quiet, InitSteps, DeinitSteps, pinVars
<1>7. CASE InitDone
  BY <1>1, <1>2, <1>7 DEF InitDone, Goto, LifeInv, Life, Quiet, InitSteps, DeinitSteps, pinVars, timerVars
<1>8. CASE EnableIrqs
  BY <1>1, <1>2, <1>8 DEF EnableIrqs, Goto, LifeInv, Life, Quiet, InitSteps, DeinitSteps, pinVars, timerVars
<1>9. CASE InitSwitch
  BY <1>1, <1>2, <1>9 DEF InitSwitch, Goto, LifeInv, Life, Quiet, InitSteps, DeinitSteps,
     pinVars, timerVars, extiVars
<1>10. CASE WriteMasks
  <2>1. pc = "mask" /\ pc' = "idle" /\ Signal(pr, copy)
        /\ UNCHANGED <<pinVars, timerVars, irqs, configured, initialized>>
    BY <1>10 DEF WriteMasks, Goto
  <2>2. ~configured => nvic' = nvic
    BY <2>1, SignalOfNothing DEF LifeInv, Quiet
  <2>3. Life'
    BY <2>1 DEF LifeInv, Life, InitSteps, DeinitSteps, pinVars, timerVars
  <2>4. Quiet'
    BY <1>1, <1>2, <2>1, <2>2 DEF LifeInv, Quiet
  <2> QED
    BY <2>3, <2>4
<1>11. CASE Deinit
  BY <1>1, <1>2, <1>11 DEF Deinit, Goto, LifeInv, Life, Quiet, InitSteps, DeinitSteps, timerVars
<1>12. CASE FloatRows
  BY <1>1, <1>2, <1>12 DEF FloatRows, DriveRows, Goto, LifeInv, Life, Quiet, InitSteps, DeinitSteps, timerVars
<1>13. CASE ForgetConfig
  BY <1>1, <1>2, <1>13 DEF ForgetConfig, Goto, LifeInv, Life, Quiet, InitSteps, DeinitSteps,
     pinVars, timerVars, extiVars
<1>14. CASE DeleteQueue
  BY <1>1, <1>2, <1>14 DEF DeleteQueue, Goto, LifeInv, Life, Quiet, InitSteps, DeinitSteps,
     pinVars, timerVars, extiVars
<1>15. CASE StopTimer
  BY <1>1, <1>2, <1>15 DEF StopTimer, Goto, LifeInv, Life, Quiet, InitSteps, DeinitSteps,
     pinVars, extiVars
<1>16. CASE DeleteTimer
  BY <1>1, <1>2, <1>16 DEF DeleteTimer, Goto, LifeInv, Life, Quiet, InitSteps, DeinitSteps,
     pinVars, extiVars
<1>17. CASE Receive
  BY <1>1, <1>2, <1>17 DEF Receive, LifeInv, Life, Quiet, appVars, pinVars, timerVars, extiVars
<1> QED
  BY <1>3, <1>4, <1>5, <1>6, <1>7, <1>8, <1>9, <1>10, <1>11, <1>12, <1>13, <1>14, <1>15, <1>16,
     <1>17 DEF Application

LEMMA LifeStep == LifeInv /\ [Next]_vars => LifeInv'
<1> SUFFICES ASSUME LifeInv, [Next]_vars PROVE Life' /\ Quiet'
  BY TypeStep DEF LifeInv
<1>1. CASE UNCHANGED vars
  BY <1>1 DEF LifeInv, Life, Quiet, vars, pinVars, extiVars, appVars, timerVars, cbVars, ghostVars
<1> QED
  BY <1>1, ContactsQuiet, HandlerQuiet, TimerTaskQuiet, ApplicationQuiet DEF Next

LEMMA InitLife == Init => LifeInv
<1> SUFFICES ASSUME Init PROVE Life /\ Quiet
  BY InitTyped DEF LifeInv
<1>1. Life
  BY DEF Init, Life, InitSteps, DeinitSteps
<1>2. Quiet
  BY DEF Init, Quiet
<1> QED
  BY <1>1, <1>2

THEOREM LifeInvariant == Spec => []LifeInv
<1> QED
  BY InitLife, LifeStep, PTL DEF Spec

\* Once deinit() has returned, no handler and no callback of the keypad runs, and
\* only between the clearing of the pins and the stop of the timer can one have
\* used what deinit() cleared.
THEOREM NothingLeftRunning == Spec => []DeinitIsFinal
<1>1. LifeInv => DeinitIsFinal
  <2> SUFFICES ASSUME LifeInv PROVE DeinitIsFinal
    OBVIOUS
  <2>1. ASSUME ~initialized, pc = "idle"
        PROVE  /\ isr = "none" /\ cb = "idle" /\ commands = 0 /\ timer = "none"
               /\ irqs => nvic = {}
    <3>1. ~configured /\ timer = "none"
      BY <2>1 DEF LifeInv, Life, InitSteps
    <3> QED
      BY <2>1, <3>1 DEF LifeInv, Quiet
  <2>2. fault => pc \in {"drop", "stop"}
    BY DEF LifeInv, Life, Quiet
  <2> QED
    BY <2>1, <2>2 DEF DeinitIsFinal
<1> QED
  BY <1>1, LifeInvariant, PTL
-----------------------------------------------------------------------------
(* Bursts of interrupts, and masks *)

\* The columns are masked together.  From the first interrupt until the callback
\* unmasks them, no vector becomes pending again: what is pending, running and
\* sent comes to one command for each vector, and one more.
InHandler == IF isr = "none" THEN 0 ELSE 1

Together == imr = {} \/ imr = Columns
Unmasked == imr # {} => commands = 0 /\ cb = "idle" /\ isr # "start" /\ timer # "running"
Alone == cb # "idle" => commands = 0 /\ isr = "none" /\ (irqs => nvic = {}) /\ imr = {} /\ timer = "dormant"
Counted == imr = {} => commands + Cardinality(nvic) + InHandler <= Cardinality(Vectors) + 1

\* Somebody will unmask them.
Underway == isr # "none" \/ commands > 0 \/ timer = "running" \/ cb # "idle"
Open ==
  configured /\ pc \in {"rows", "create", "done", "idle", "mask", "float", "forget"} /\ imr # Columns =>
    Underway

\* The mask that init() of a switch has read is still the one it will write.
Burst == Together /\ Unmasked /\ Alone /\ Counted /\ Open
BurstInv == LifeInv /\ (causes = {} => Burst)

LEMMA SomeColumn == Columns # {}
<1>1. 1 \in Columns
  BY ConstantsAssumption DEF Columns
<1> QED
  BY <1>1

LEMMA FiniteVectors ==
  ASSUME NEW S, S \subseteq Vectors
  PROVE  IsFiniteSet(S) /\ Cardinality(S) \in Nat /\ Cardinality(S) <= Cardinality(Vectors)
BY ConstantsAssumption, FS_Subset, FS_CardinalityType

\* A signal that unmasks nothing raises nothing while the columns are masked, and
\* none leaves the columns half masked.
LEMMA MaskedSignal ==
  ASSUME NEW P, Signal(P, imr)
  PROVE  imr' = imr /\ (imr = {} => nvic' = nvic)
BY DEF Signal

\* What leaves the masks and whatever may unmask them alone preserves Burst.
LEMMA BurstFrame ==
  ASSUME Burst, imr' = imr, imr = {} => nvic' = nvic, UNCHANGED <<commands, isr, cb, timer, irqs>>,
         configured' /\ pc' \in {"rows", "create", "done", "idle", "mask", "float", "forget"} =>
           \/ configured /\ pc \in {"rows", "create", "done", "idle", "mask", "float", "forget"}
           \/ imr = Columns
  PROVE  Burst'
<1>1. Together' /\ Unmasked' /\ Alone'
  BY DEF Burst, Together, Unmasked, Alone
<1>2. Counted'
  BY DEF Burst, Counted, InHandler
<1>3. Open'
  BY DEF Burst, Open, Underway
<1> QED
  BY <1>1, <1>2, <1>3 DEF Burst

LEMMA ContactsBurst ==
  ASSUME BurstInv, Burst, Person \/ Contacts
  PROVE  Burst'
<1>1. UNCHANGED <<appVars, isr, timer, commands, cb>>
  BY DEF Person, Contacts, Press, Release, Touch, Bounce, Settle, timerVars, cbVars
<1>2. imr' = imr /\ (imr = {} => nvic' = nvic)
  <2>1. CASE Person
    BY <2>1 DEF Person, Press, Release, Touch, extiVars
  <2>2. CASE Contacts
    <3>1. PICK C : SetContacts(C)
      BY <2>2 DEF Contacts, Bounce, Settle
    <3> QED
      BY <3>1, MaskedSignal DEF SetContacts
  <2> QED
    BY <2>1, <2>2
<1> QED
  BY <1>1, <1>2, BurstFrame DEF appVars

LEMMA HandlerBurst ==
  ASSUME BurstInv, Burst, Handler, causes' = {}
  PROVE  Burst'
<1> USE DEF IsrRest, appVars, cbVars, timerVars
<1>1. /\ UNCHANGED <<appVars, timer, cb>>
      /\ configured /\ ColPins = Columns
  BY DEF BurstInv, LifeInv, Quiet, Handler, Enter, ClearPending, MaskColumns, StartTimer, ColPins
<1>2. /\ IsFiniteSet(nvic) /\ Cardinality(nvic) \in Nat /\ Cardinality(Vectors) \in Nat
      /\ Cardinality(nvic) <= Cardinality(Vectors) /\ commands \in 0..TimerQueueLength
  BY FiniteVectors DEF BurstInv, LifeInv, TypeOK, ExtiTypes, TimerTypes
<1>3. ASSUME NEW v \in Vectors, Enter(v)
      PROVE  Burst'
  <2>1. /\ isr = "none" /\ isr' = "clear" /\ v \in nvic /\ nvic' = nvic \ {v} /\ irqs
        /\ UNCHANGED <<imr, commands>>
    BY <1>3 DEF Enter
  <2>2. Together' /\ Unmasked' /\ Open'
    BY <1>1, <2>1 DEF Burst, Together, Unmasked, Open, Underway
  <2>3. Alone'
    BY <1>1, <2>1 DEF Burst, Alone
  <2>4. Cardinality(nvic') = Cardinality(nvic) - 1
    BY <1>2, <2>1, FS_RemoveElement
  <2>5. InHandler = 0 /\ InHandler' = 1
    BY <2>1 DEF InHandler
  <2>6. Counted'
    BY <1>2, <2>1, <2>4, <2>5 DEF Burst, Counted
  <2> QED
    BY <2>2, <2>3, <2>6 DEF Burst
<1>4. CASE ClearPending
  <2>1. isr = "clear" /\ isr' = "mask" /\ commands' = commands /\ imr' = imr /\ (imr = {} => nvic' = nvic)
    BY <1>4, MaskedSignal DEF ClearPending
  <2>2. Together' /\ Unmasked' /\ Open' /\ Alone'
    BY <1>1, <2>1 DEF Burst, Together, Unmasked, Open, Underway, Alone
  <2>3. Counted'
    BY <2>1 DEF Burst, Counted, InHandler
  <2> QED
    BY <2>2, <2>3 DEF Burst
<1>5. CASE MaskColumns
  <2>1. isr = "mask" /\ isr' = "start" /\ commands' = commands
    BY <1>5 DEF MaskColumns
  <2>2. imr \ ColPins = {}
    BY <1>1 DEF BurstInv, LifeInv, TypeOK, ExtiTypes
  <2>3. imr' = {} /\ nvic' = nvic
    BY <1>5, <2>2 DEF MaskColumns, Signal
  <2>4. Together' /\ Unmasked' /\ Open'
    BY <2>1, <2>3 DEF Together, Unmasked, Open, Underway
  <2>5. Alone'
    BY <1>1, <2>1 DEF Burst, Alone
  <2>6. InHandler = 1 /\ InHandler' = 1
    BY <2>1 DEF InHandler
  <2>7. Counted'
    <3>1. CASE imr = {}
      BY <2>1, <2>3, <2>6, <3>1 DEF Burst, Counted
    <3>2. CASE imr # {}
      <4>1. commands = 0
        BY <3>2 DEF Burst, Unmasked
      <4> QED
        BY <1>2, <2>1, <2>3, <2>6, <4>1 DEF Counted
    <3> QED
      BY <3>1, <3>2
  <2> QED
    BY <2>4, <2>5, <2>7 DEF Burst
<1>6. CASE StartTimer
  <2>1. isr = "start" /\ isr' = "none" /\ UNCHANGED extiVars
    BY <1>6 DEF StartTimer
  <2>2. imr = {} /\ cb = "idle"
    BY <2>1 DEF Burst, Unmasked, Alone
  <2>3. InHandler = 1 /\ InHandler' = 0
    BY <2>1 DEF InHandler
  <2>4. commands + Cardinality(nvic) + 1 <= Cardinality(Vectors) + 1
    BY <2>2, <2>3 DEF Burst, Counted
  <2>5. commands < TimerQueueLength
    BY <1>2, <2>4, ConstantsAssumption
  <2>6. timer # "none"
    BY <1>6 DEF StartTimer
  <2>7. commands' = commands + 1
    BY <1>6, <2>5, <2>6 DEF StartTimer
  <2>8. commands' > 0
    BY <1>2, <2>7
  <2>9. Together' /\ Unmasked' /\ Alone' /\ Open'
    BY <1>1, <2>1, <2>2, <2>8 DEF Together, Unmasked, Alone, Open, Underway, extiVars
  <2>10. Counted'
    BY <1>2, <2>1, <2>3, <2>4, <2>7 DEF Counted, extiVars
  <2> QED
    BY <2>9, <2>10 DEF Burst
<1> QED
  BY <1>3, <1>4, <1>5, <1>6 DEF Handler

LEMMA TimerTaskBurst ==
  ASSUME BurstInv, Burst, TimerTask
  PROVE  Burst'
<1> USE DEF CbRest, TimerRest, appVars, cbVars, timerVars
<1>1. UNCHANGED appVars /\ isr' = isr /\ isr = "none" /\ (irqs => nvic = {})
  BY DEF TimerTask, ProcessCommand, Expire, RowsHigh, ScanRow, Send, RowsLow, ClearEdges,
     UnmaskColumns, TimerTaskWaits, HandlersDone
<1>2. /\ IsFiniteSet(nvic) /\ Cardinality(nvic) \in Nat /\ Cardinality(Vectors) \in Nat
      /\ Cardinality(nvic) <= Cardinality(Vectors) /\ commands \in 0..TimerQueueLength
  BY FiniteVectors DEF BurstInv, LifeInv, TypeOK, ExtiTypes, TimerTypes
<1>3. CASE ProcessCommand
  <2>1. /\ cb = "idle" /\ cb' = "idle" /\ UNCHANGED extiVars
        /\ timer' = "running" /\ commands' = commands - 1 /\ commands > 0
    BY <1>3 DEF ProcessCommand
  <2>2. imr = {}
    BY <2>1 DEF Burst, Unmasked
  <2>3. Together' /\ Unmasked' /\ Alone' /\ Open'
    BY <2>1, <2>2 DEF Together, Unmasked, Alone, Open, Underway, extiVars
  <2>4. Counted'
    BY <1>1, <1>2, <2>1, <2>2 DEF Burst, Counted, InHandler, extiVars
  <2> QED
    BY <2>3, <2>4 DEF Burst
<1>4. CASE Expire
  <2>1. /\ commands = 0 /\ timer = "running" /\ timer' = "dormant" /\ UNCHANGED <<extiVars, commands>>
        /\ configured => cb' = "high"
    BY <1>4 DEF Expire, TimerTaskWaits
  <2>2. imr = {}
    BY <2>1 DEF Burst, Unmasked
  <2>3. Together' /\ Unmasked' /\ Alone' /\ Open'
    BY <1>1, <2>1, <2>2 DEF Together, Unmasked, Alone, Open, Underway, extiVars
  <2>4. Counted'
    BY <1>1, <2>1, <2>2 DEF Burst, Counted, InHandler, extiVars
  <2> QED
    BY <2>3, <2>4 DEF Burst
<1>5. ASSUME RowsHigh \/ ScanRow \/ Send \/ RowsLow \/ ClearEdges
      PROVE  Burst'
  <2>1. UNCHANGED <<timer, commands>> /\ cb # "idle" /\ cb' # "idle"
    BY <1>5 DEF RowsHigh, ScanRow, Send, RowsLow, ClearEdges
  <2>2. imr = {} /\ timer = "dormant" /\ commands = 0
    BY <2>1 DEF Burst, Alone
  <2>3. imr' = imr /\ nvic' = nvic
    BY <1>5, <2>2, MaskedSignal
    DEF RowsHigh, ScanRow, Send, RowsLow, ClearEdges, DriveRows, extiVars
  <2>4. Together' /\ Unmasked' /\ Alone' /\ Open'
    BY <1>1, <2>1, <2>2, <2>3 DEF Together, Unmasked, Alone, Open, Underway
  <2>5. Counted'
    BY <1>1, <2>1, <2>2, <2>3 DEF Burst, Counted, InHandler
  <2> QED
    BY <2>4, <2>5 DEF Burst
<1>6. CASE UnmaskColumns
  <2>1. UNCHANGED <<timer, commands>> /\ cb = "unmask" /\ cb' = "idle" /\ imr' = imr \cup ColPins
    BY <1>6 DEF UnmaskColumns, Signal
  <2>2. imr = {} /\ timer = "dormant" /\ commands = 0
    BY <2>1 DEF Burst, Alone
  <2>3. ColPins = Columns
    BY <2>1 DEF ColPins, BurstInv, LifeInv, Quiet
  <2>4. imr' = Columns /\ Columns # {}
    BY <2>1, <2>2, <2>3, SomeColumn
  <2> QED
    BY <1>1, <2>1, <2>2, <2>4 DEF Burst, Together, Unmasked, Alone, Open, Counted
<1> QED
  BY <1>3, <1>4, <1>5, <1>6 DEF TimerTask

LEMMA ApplicationBurst ==
  ASSUME BurstInv, Burst, Application, causes' = {}
  PROVE  Burst'
<1> USE DEF AppRest, appVars, cbVars, timerVars, extiVars, pinVars
<1>1. /\ isr = "none" /\ cb = "idle" /\ commands = 0 /\ (irqs => nvic = {})
      /\ UNCHANGED <<isr, cb, commands>>
  BY DEF Application, InitKeypad, SetColumns, SetRows, Create, InitDone, EnableIrqs, InitSwitch,
     WriteMasks, Deinit, FloatRows, ForgetConfig, DeleteQueue, StopTimer, DeleteTimer, Receive,
     Goto, TimerTaskWaits, HandlersDone
<1>2. /\ IsFiniteSet(nvic) /\ Cardinality(nvic) \in Nat /\ Cardinality(Vectors) \in Nat
      /\ Cardinality(nvic) <= Cardinality(Vectors)
  BY FiniteVectors DEF BurstInv, LifeInv, TypeOK, ExtiTypes
<1>3. ASSUME InitKeypad \/ InitDone \/ InitSwitch \/ ForgetConfig \/ DeleteQueue \/ Receive
      PROVE  Burst'
  <2>1. UNCHANGED <<imr, nvic, timer, irqs>>
    BY <1>3 DEF InitKeypad, InitDone, InitSwitch, ForgetConfig, DeleteQueue, Receive
  <2>2. configured' /\ pc' \in {"rows", "create", "done", "idle", "mask", "float", "forget"} =>
          configured /\ pc \in {"rows", "create", "done", "idle", "mask", "float", "forget"}
    BY <1>3 DEF InitKeypad, InitDone, InitSwitch, ForgetConfig, DeleteQueue, Receive, Goto
  <2> QED
    BY <1>1, <2>1, <2>2, BurstFrame
<1>4. CASE EnableIrqs
  <2>1. UNCHANGED <<imr, nvic, timer, pc, configured>>
    BY <1>4 DEF EnableIrqs, Goto
  <2> QED
    BY <1>1, <2>1 DEF Burst, Together, Unmasked, Alone, Counted, InHandler, Open, Underway
<1>5. CASE SetColumns
  <2>1. configured /\ timer = "none"
    BY <1>5 DEF SetColumns, Goto, BurstInv, LifeInv, Life, InitSteps, DeinitSteps
  <2>2. ColPins = Columns /\ imr \cup Columns = Columns
    BY <2>1 DEF ColPins, BurstInv, LifeInv, TypeOK, ExtiTypes
  <2>3. imr' = Columns /\ Columns # {} /\ timer' = timer
    BY <1>5, <2>2, SomeColumn DEF SetColumns, Signal
  <2> QED
    BY <1>1, <2>1, <2>3 DEF Burst, Together, Unmasked, Alone, Open, Counted
<1>6. ASSUME SetRows \/ FloatRows \/ Deinit
      PROVE  Burst'
  <2>1. PICK P : Signal(P, imr)
    BY <1>6 DEF SetRows, FloatRows, Deinit, DriveRows
  <2>2. imr' = imr /\ (imr = {} => nvic' = nvic) /\ UNCHANGED <<timer, irqs, configured>>
    BY <1>6, <2>1, MaskedSignal DEF SetRows, FloatRows, Deinit
  <2>3. pc \in {"rows", "create", "done", "idle", "mask", "float", "forget"}
    BY <1>6 DEF SetRows, FloatRows, Deinit, Goto
  <2> QED
    BY <1>1, <2>2, <2>3, BurstFrame
<1>7. CASE WriteMasks
  <2>1. copy = imr
    BY <1>7 DEF WriteMasks
  <2>2. Signal(pr, imr) /\ UNCHANGED <<timer, irqs, configured>> /\ pc = "mask" /\ pc' = "idle"
    BY <1>7, <2>1 DEF WriteMasks, Goto
  <2>3. imr' = imr /\ nvic' = nvic
    BY <2>2, SignalOfNothing
  <2> QED
    BY <1>1, <2>2, <2>3, BurstFrame
<1>8. ASSUME Create \/ StopTimer \/ DeleteTimer
      PROVE  Burst'
  <2>1. UNCHANGED <<imr, nvic, irqs, configured>> /\ timer' \in {"dormant", "none"}
    BY <1>8 DEF Create, StopTimer, DeleteTimer
  <2>2. timer # "running" \/ ~configured
    BY <1>8 DEF Create, StopTimer, DeleteTimer, Goto, BurstInv, LifeInv, Life, InitSteps, DeinitSteps
  <2>3. ~configured' \/ (pc = "create" /\ configured)
    BY <1>8, <2>1 DEF Create, StopTimer, DeleteTimer, Goto, BurstInv, LifeInv, Life, InitSteps, DeinitSteps
  <2>4. Together' /\ Unmasked' /\ Alone'
    BY <1>1, <2>1 DEF Burst, Together, Unmasked, Alone
  <2>5. Counted'
    BY <1>1, <2>1 DEF Burst, Counted, InHandler
  <2>6. Open'
    BY <1>1, <2>1, <2>2, <2>3 DEF Burst, Open, Underway
  <2> QED
    BY <2>4, <2>5, <2>6 DEF Burst
<1> QED
  BY <1>3, <1>4, <1>5, <1>6, <1>7, <1>8 DEF Application

LEMMA CausesGrow ==
  ASSUME [Next]_vars, causes' = {}
  PROVE  causes = {}
<1>1. CASE UNCHANGED vars
  BY <1>1 DEF vars, ghostVars
<1>2. CASE Person \/ Contacts
  BY <1>2 DEF Person, Contacts, Press, Release, Touch, Bounce, Settle
<1>3. CASE Handler
  BY <1>3 DEF Handler, Enter, ClearPending, MaskColumns, StartTimer
<1>4. CASE TimerTask
  BY <1>4 DEF TimerTask, ProcessCommand, Expire, RowsHigh, ScanRow, Send, RowsLow, ClearEdges,
     UnmaskColumns, CbRest
<1>5. CASE Application
  BY <1>5 DEF Application, InitKeypad, SetColumns, SetRows, Create, InitDone, EnableIrqs, InitSwitch,
     WriteMasks, Deinit, FloatRows, ForgetConfig, DeleteQueue, StopTimer, DeleteTimer, Receive,
     AppRest
<1> QED
  BY <1>1, <1>2, <1>3, <1>4, <1>5 DEF Next

LEMMA BurstStep == BurstInv /\ [Next]_vars => BurstInv'
<1> SUFFICES ASSUME BurstInv, [Next]_vars, causes' = {} PROVE Burst'
  BY LifeStep DEF BurstInv
<1>1. causes = {} /\ Burst
  BY CausesGrow DEF BurstInv
<1>2. CASE UNCHANGED vars
  <2>1. UNCHANGED <<imr, nvic, commands, isr, cb, timer, irqs, configured, pc>>
    BY <1>2 DEF vars, extiVars, appVars, timerVars, cbVars
  <2> QED
    BY <1>1, <2>1, BurstFrame
<1> QED
  BY <1>1, <1>2, ContactsBurst, HandlerBurst, TimerTaskBurst, ApplicationBurst DEF Next

LEMMA InitBurst == Init => BurstInv
<1> SUFFICES ASSUME Init PROVE LifeInv /\ Burst
  BY DEF BurstInv
<1>1. LifeInv
  BY InitLife
<1>2. Cardinality(nvic) = 0 /\ Cardinality(Vectors) \in Nat
  BY ConstantsAssumption, FS_EmptySet, FS_CardinalityType DEF Init
<1>3. Burst
  BY <1>2 DEF Init, Burst, Together, Unmasked, Alone, Counted, InHandler, Open
<1> QED
  BY <1>1, <1>3

THEOREM BurstInvariant == Spec => []BurstInv
<1> QED
  BY InitBurst, BurstStep, PTL DEF Spec

\* The command queue has room for every start command.
THEOREM CommandsFit == Spec => []CommandFits
<1>1. BurstInv => CommandFits
  <2> SUFFICES ASSUME BurstInv, isr = "start", causes = {} PROVE commands < TimerQueueLength
    BY DEF CommandFits
  <2>1. imr = {} /\ InHandler = 1
    BY DEF BurstInv, Burst, Unmasked, InHandler
  <2>2. commands + Cardinality(nvic) + 1 <= Cardinality(Vectors) + 1
    BY <2>1 DEF BurstInv, Burst, Counted
  <2>3. Cardinality(nvic) \in Nat /\ commands \in 0..TimerQueueLength /\ Cardinality(Vectors) \in Nat
    BY FiniteVectors DEF BurstInv, LifeInv, TypeOK, ExtiTypes, TimerTypes
  <2> QED
    BY <2>2, <2>3, ConstantsAssumption
<1> QED
  BY <1>1, BurstInvariant, PTL

\* Columns do not stay masked but by the two causes.
THEOREM MasksOpen == Spec => []MasksEnd
<1>1. BurstInv => MasksEnd
  BY DEF BurstInv, LifeInv, Life, Burst, Open, Underway, MasksEnd
<1> QED
  BY <1>1, BurstInvariant, PTL
-----------------------------------------------------------------------------
(* The scan *)

\* The rows before the one that is read next are low, and no contact that is
\* closed is in one of them.
Scanned ==
  /\ cb \in {"idle", "high"} => steady /\ row = 1
  /\ cb = "scan" /\ steady /\ ~analog =>
       lowRows = 1..(row - 1) /\ \A k \in closed : k[1] >= row

ScanInv == LifeInv /\ Scanned /\ FindsFirst

\* What leaves the contacts and the callback alone preserves them.
LEMMA ScanFrame ==
  ASSUME Scanned, FindsFirst, cb = "idle" \/ UNCHANGED <<lowRows, analog>>,
         UNCHANGED <<closed, cbVars, steady>>
  PROVE  Scanned' /\ FindsFirst'
BY DEF Scanned, FindsFirst, cbVars

LEMMA OutsideScan ==
  ASSUME ScanInv, Person \/ Contacts
  PROVE  Scanned' /\ FindsFirst'
<1> USE DEF ScanInv, pinVars, cbVars
<1>1. CASE Person
  BY <1>1, ScanFrame DEF Person, Press, Release, Touch
<1>2. CASE Contacts
  <2>1. PICK C : SetContacts(C) /\ UNCHANGED <<pinVars, cbVars>>
    BY <1>2 DEF Contacts, Bounce, Settle
  <2>2. closed' = C /\ (steady' <=> steady /\ (C = closed \/ cb \notin {"scan", "send"}))
    BY <2>1 DEF SetContacts
  <2>3. Scanned'
    BY <2>1, <2>2 DEF Scanned
  <2>4. FindsFirst'
    BY <2>1, <2>2 DEF FindsFirst
  <2> QED
    BY <2>3, <2>4
<1> QED
  BY <1>1, <1>2

\* The first row that pulls a column low holds the first key.
LEMMA ScanRowFinds ==
  ASSUME ScanInv, ScanRow, steady, ~analog
  PROVE  /\ cb' = "send" => FindsFirst'
         /\ cb' = "scan" => lowRows' = 1..(row' - 1) /\ \A k \in closed : k[1] >= row'
<1>1. /\ cb = "scan" /\ lowRows' = lowRows \cup {row} /\ analog' = analog /\ closed' = closed
  BY DEF ScanRow, DriveRows, CbRest, TimerRest, contactVars
<1>2. /\ lowRows = 1..(row - 1) /\ row \in 1..ROWS /\ ROWS \in Nat
      /\ closed \subseteq Keys /\ \A k \in closed : k[1] >= row
  BY <1>1, ConstantsAssumption
  DEF ScanInv, Scanned, LifeInv, TypeOK, ContactTypes, ScanTypes, Rows
<1>3. lowRows' = 1..row
  BY <1>1, <1>2
<1>4. \A k \in closed : k = <<k[1], k[2]>> /\ k[1] \in Int /\ k[2] \in Int /\ k[2] \in Columns
  BY <1>2 DEF Keys, Rows, Columns
<1>5. \A c \in Columns : Low(c, lowRows', closed) <=> <<row, c>> \in closed
  <2> TAKE c \in Columns
  <2>1. ASSUME NEW r \in lowRows', <<r, c>> \in closed
        PROVE  r = row
    <3>1. r \in 1..row /\ <<r, c>>[1] >= row
      BY <1>2, <1>3, <2>1
    <3> QED
      BY <1>2, <3>1
  <2>2. row \in lowRows'
    BY <1>1
  <2> QED
    BY <2>1, <2>2 DEF Low
<1>6. CASE \E c \in Columns :
        /\ Low(c, lowRows', closed) /\ \A d \in Columns : d < c => ~Low(d, lowRows', closed)
        /\ hit' = <<row, c>> /\ cb' = "send" /\ UNCHANGED row
  <2>1. PICK c \in Columns :
          /\ Low(c, lowRows', closed) /\ \A d \in Columns : d < c => ~Low(d, lowRows', closed)
          /\ hit' = <<row, c>> /\ cb' = "send"
    BY <1>6
  <2>2. hit' \in closed /\ hit'[1] = row /\ hit'[2] = c
    BY <1>5, <2>1
  <2>3. ASSUME NEW k \in closed
        PROVE  row < k[1] \/ (row = k[1] /\ c <= k[2])
    <3>1. k[1] >= row /\ k[1] \in Int /\ k[2] \in Int /\ k[2] \in Columns /\ c \in Int
      BY <1>2, <1>4 DEF Columns
    <3>2. CASE k[1] = row
      <4>1. <<row, k[2]>> \in closed
        BY <1>4, <3>2
      <4>2. ~(k[2] < c)
        BY <1>5, <2>1, <3>1, <4>1
      <4> QED
        BY <3>1, <3>2, <4>2
    <3>3. CASE k[1] # row
      BY <1>2, <3>1, <3>3
    <3> QED
      BY <3>2, <3>3
  <2>4. FindsFirst'
    BY <1>1, <2>2, <2>3 DEF FindsFirst
  <2> QED
    BY <2>1, <2>4
<1>7. CASE /\ \A c \in Columns : ~Low(c, lowRows', closed)
           /\ IF row < ROWS THEN row' = row + 1 /\ UNCHANGED cb ELSE cb' = "low" /\ UNCHANGED row
  <2>1. ASSUME NEW k \in closed
        PROVE  k[1] >= row + 1
    <3>1. k[1] # row
      BY <1>4, <1>5, <1>7
    <3> QED
      BY <1>2, <1>4, <3>1
  <2>2. cb' = "low" \/ (cb' = "scan" /\ row' = row + 1)
    BY <1>1, <1>7
  <2>3. ASSUME row' = row + 1 PROVE lowRows' = 1..(row' - 1)
    <3>1. row' - 1 = row
      BY <1>2, <2>3
    <3>2. 1..(row' - 1) = 1..row
      BY Zenon, <3>1
    <3> QED
      BY Zenon, <1>3, <3>2
  <2>4. row' = row + 1 => \A k \in closed : k[1] >= row'
    BY <2>1
  <2>5. cb' # "send"
    BY <2>2
  <2> QED
    BY <2>2, <2>3, <2>4, <2>5
<1> QED
  BY <1>6, <1>7 DEF ScanRow

LEMMA TimerTaskScan ==
  ASSUME ScanInv, TimerTask
  PROVE  Scanned' /\ FindsFirst'
<1> USE DEF ScanInv, pinVars, cbVars, CbRest, TimerRest, contactVars
<1>1. CASE ProcessCommand
  BY <1>1, ScanFrame DEF ProcessCommand
<1>2. CASE Expire
  BY <1>2 DEF Expire, TimerTaskWaits, Scanned, FindsFirst
<1>3. CASE RowsHigh
  <2>1. configured /\ closed \subseteq Keys /\ lowRows \subseteq Rows
    BY <1>3 DEF RowsHigh, LifeInv, Quiet, TypeOK, ContactTypes, ExtiTypes
  <2>2. /\ cb' = "scan" /\ row = 1 /\ UNCHANGED <<row, closed>>
        /\ lowRows' = lowRows \ RowPins
    BY <1>3 DEF RowsHigh, DriveRows, Scanned
  <2>3. lowRows' = {}
    BY <2>1, <2>2 DEF RowPins
  <2>4. 1..(row - 1) = {}
    BY <2>2
  <2>5. \A k \in closed : k[1] >= row
    BY <2>1, <2>2 DEF Keys, Rows
  <2>6. Scanned'
    BY <2>2, <2>3, <2>4, <2>5 DEF Scanned
  <2> QED
    BY <2>2, <2>6 DEF FindsFirst
<1>4. CASE ScanRow
  <2>1. cb' \in {"scan", "send", "low"} /\ UNCHANGED <<closed, steady, analog>>
    BY <1>4 DEF ScanRow, DriveRows
  <2>2. CASE steady /\ ~analog
    BY <1>4, <2>1, <2>2, ScanRowFinds DEF Scanned, FindsFirst
  <2>3. CASE ~(steady /\ ~analog)
    BY <2>1, <2>3 DEF Scanned, FindsFirst
  <2> QED
    BY <2>2, <2>3
<1>5. CASE Send
  BY <1>5 DEF Send, Scanned, FindsFirst
<1>6. ASSUME RowsLow \/ ClearEdges
      PROVE  Scanned' /\ FindsFirst'
  BY <1>6 DEF RowsLow, ClearEdges, Scanned, FindsFirst
<1>7. CASE UnmaskColumns
  BY <1>7 DEF UnmaskColumns, Scanned, FindsFirst
<1> QED
  BY <1>1, <1>2, <1>3, <1>4, <1>5, <1>6, <1>7 DEF TimerTask

LEMMA ScanStep == ScanInv /\ [Next]_vars => ScanInv'
<1> SUFFICES ASSUME ScanInv, [Next]_vars PROVE Scanned' /\ FindsFirst'
  BY LifeStep DEF ScanInv
<1> USE DEF ScanInv, pinVars, cbVars, contactVars
<1>1. CASE UNCHANGED vars
  BY <1>1, ScanFrame DEF vars, ghostVars
<1>2. CASE Handler
  <2>1. UNCHANGED <<lowRows, analog, closed, cbVars, steady>>
    BY <1>2 DEF Handler, Enter, ClearPending, MaskColumns, StartTimer, IsrRest
  <2> QED
    BY <2>1, ScanFrame
<1>3. CASE Application
  <2>1. cb = "idle" /\ UNCHANGED <<closed, cbVars, steady>>
    BY <1>3 DEF Application, InitKeypad, SetColumns, SetRows, Create, InitDone, EnableIrqs,
       InitSwitch, WriteMasks, Deinit, FloatRows, ForgetConfig, DeleteQueue, StopTimer,
       DeleteTimer, Receive, Goto, TimerTaskWaits, AppRest
  <2> QED
    BY <2>1, ScanFrame
<1> QED
  BY <1>1, <1>2, <1>3, OutsideScan, TimerTaskScan DEF Next

\* What the callback finds is closed, and the first key that is.
THEOREM FirstFound == Spec => []FindsFirst
<1>1. Init => ScanInv
  BY InitLife DEF Init, ScanInv, Scanned, FindsFirst
<1>2. ScanInv => FindsFirst
  BY DEF ScanInv
<1> QED
  BY <1>1, <1>2, ScanStep, PTL DEF Spec
-----------------------------------------------------------------------------
(* Every press is sent once *)

\* What a key that was pressed alone may find: nobody else touches the keypad;
\* while it is down it has not been touched since the timer was started, so that
\* its contact has settled when the callback runs; once it is sent and still
\* down, no edge is left that could start the timer again; and once it is
\* released, the callback runs when the contact is open for good.
Untouched == timer # "running" /\ commands = 0 => touched = {}
Settled == \A k \in Keys : k \in bouncing \/ (k \in closed <=> k \in finger)

OnlyOne ==
  alone # NoKey =>
    /\ finger \subseteq {alone} /\ bouncing \subseteq {alone}
    /\ initialized /\ irqs /\ pc \in {"idle", "mask"}
Held ==
  alone # NoKey /\ alone \in finger =>
    alone \notin touched /\ (cb # "idle" => alone \notin bouncing)
Told ==
  alone # NoKey /\ told >= 1 =>
    /\ alone \notin touched /\ cb # "send"
    /\ alone \notin finger /\ cb \in {"high", "scan"} => alone \notin bouncing
Resting ==
  alone # NoKey /\ told >= 1 /\ alone \in finger =>
    /\ alone \notin bouncing /\ isr = "none" /\ nvic = {} /\ commands = 0 /\ timer = "dormant"
    /\ cb \in {"idle", "low", "clear", "unmask"} /\ (cb \in {"idle", "unmask"} => pr = {})

Once == told <= 1 /\ OnlyOne /\ Held /\ Told /\ Resting
OnceInv == BurstInv /\ Untouched /\ Settled /\ (causes = {} => Once)

LEMMA UntouchedStep ==
  ASSUME LifeInv, Untouched, [Next]_vars
  PROVE  Untouched'
<1>1. commands \in Nat
  BY ConstantsAssumption DEF LifeInv, TypeOK, TimerTypes
<1>2. CASE Person \/ Contacts
  <2>1. UNCHANGED <<timer, commands>>
    BY <1>2 DEF Person, Contacts, Press, Release, Touch, Bounce, Settle, timerVars
  <2>2. touched' = touched \/ timer = "running" \/ commands > 0
    BY <1>2 DEF Person, Contacts, Press, Release, Touch, Bounce, Settle, timerVars
  <2> QED
    BY <1>1, <2>1, <2>2 DEF Untouched
<1>3. CASE Handler
  <2>1. timer' = timer
    BY <1>3 DEF Handler, Enter, ClearPending, MaskColumns, StartTimer, IsrRest
  <2>2. UNCHANGED <<commands, touched>> \/ touched' = {}
    BY <1>3 DEF Handler, Enter, ClearPending, MaskColumns, StartTimer
  <2> QED
    BY <2>1, <2>2 DEF Untouched
<1>4. CASE TimerTask
  BY <1>4 DEF TimerTask, ProcessCommand, Expire, RowsHigh, ScanRow, Send, RowsLow, ClearEdges,
     UnmaskColumns, CbRest, timerVars, Untouched
<1>5. CASE Application
  <2>1. commands' = commands
    BY <1>5 DEF Application, InitKeypad, SetColumns, SetRows, Create, InitDone, EnableIrqs,
       InitSwitch, WriteMasks, Deinit, FloatRows, ForgetConfig, DeleteQueue, StopTimer,
       DeleteTimer, Receive, timerVars
  <2>2. UNCHANGED <<timer, touched>> \/ touched' = {} \/ (touched' = touched /\ timer # "running")
    <3>1. CASE Create
      BY <1>5, <3>1 DEF Create, Goto, LifeInv, Life, InitSteps, DeinitSteps
    <3>2. CASE DeleteTimer
      BY <3>2 DEF DeleteTimer, Goto, LifeInv, Quiet
    <3>3. CASE ~Create /\ ~DeleteTimer
      BY <1>5, <3>3 DEF Application, InitKeypad, SetColumns, SetRows, InitDone, EnableIrqs,
         InitSwitch, WriteMasks, Deinit, FloatRows, ForgetConfig, DeleteQueue, StopTimer,
         Receive, timerVars
    <3> QED
      BY <3>1, <3>2, <3>3
  <2> QED
    BY <2>1, <2>2 DEF Untouched
<1>6. CASE UNCHANGED vars
  BY <1>6 DEF vars, timerVars, Untouched
<1> QED
  BY <1>2, <1>3, <1>4, <1>5, <1>6 DEF Next

LEMMA SettledStep ==
  ASSUME LifeInv, Settled, [Next]_vars
  PROVE  Settled'
<1> USE DEF contactVars
<1>1. CASE Person
  <2>1. PICK k \in PressedKeys : Press(k) \/ Release(k)
    BY <1>1 DEF Person
  <2> QED
    BY <2>1 DEF Press, Release, Touch, Settled
<1>2. CASE Contacts
  <2>1. PICK k \in PressedKeys : Bounce(k) \/ Settle(k)
    BY <1>2 DEF Contacts
  <2>2. CASE Bounce(k)
    <3>1. k \in bouncing /\ UNCHANGED <<bouncing, finger>>
          /\ closed' \in {closed \ {k}, closed \cup {k}}
      BY <2>2 DEF Bounce, SetContacts
    <3> QED
      BY <3>1 DEF Settled
  <2>3. CASE Settle(k)
    <3>1. bouncing' = bouncing \ {k} /\ finger' = finger
      BY <2>3 DEF Settle
    <3>2. /\ k \in finger => closed' = closed \cup {k}
          /\ k \notin finger => closed' = closed \ {k}
      BY <2>3 DEF Settle, SetContacts
    <3> QED
      BY <3>1, <3>2 DEF Settled
  <2> QED
    BY <2>1, <2>2, <2>3
<1>3. CASE Handler \/ TimerTask \/ Application \/ UNCHANGED vars
  <2>1. UNCHANGED <<finger, closed, bouncing>>
    BY <1>3 DEF Handler, Enter, ClearPending, MaskColumns, StartTimer, IsrRest, TimerTask,
       ProcessCommand, Expire, RowsHigh, ScanRow, Send, RowsLow, ClearEdges, UnmaskColumns, CbRest,
       TimerRest, Application, InitKeypad, SetColumns, SetRows, Create, InitDone, EnableIrqs,
       InitSwitch, WriteMasks, Deinit, FloatRows, ForgetConfig, DeleteQueue, StopTimer,
       DeleteTimer, Receive, AppRest, vars
  <2> QED
    BY <2>1 DEF Settled
<1> QED
  BY <1>1, <1>2, <1>3 DEF Next

\* What a press or a release, and a contact, does to the key pressed alone.
LEMMA OutsideOnce ==
  ASSUME OnceInv, Once, Burst, Person \/ Contacts
  PROVE  Once'
<1> USE DEF appVars, timerVars, cbVars
<1>1. UNCHANGED <<initialized, irqs, pc, cb, isr, timer, commands>>
  BY DEF Person, Contacts, Press, Release, Touch, Bounce, Settle
<1>2. ASSUME NEW k \in PressedKeys, Press(k)
      PROVE  Once'
  <2>1. told' = 0 /\ (alone' # NoKey => Listens /\ alone' = k)
    BY <1>2 DEF Press
  <2>2. Told' /\ Resting' /\ told' <= 1
    BY <2>1 DEF Told, Resting
  <2>3. CASE alone' = NoKey
    BY <2>2, <2>3 DEF Once, OnlyOne, Held
  <2>4. CASE alone' # NoKey
    <3>1. /\ finger = {} /\ bouncing = {} /\ cb = "idle" /\ timer = "dormant" /\ commands = 0
          /\ initialized /\ irqs /\ pc = "idle"
      BY <2>1, <2>4 DEF Listens, TimerTaskWaits
    <3>2. touched' = {}
      BY <1>2, <3>1 DEF Press, Touch, OnceInv, Untouched
    <3>3. finger' = {k} /\ bouncing' = {k}
      BY <1>2, <3>1 DEF Press, Touch
    <3>4. OnlyOne'
      BY <1>1, <2>1, <2>4, <3>1, <3>3 DEF OnlyOne
    <3>5. Held'
      BY <1>1, <3>1, <3>2 DEF Held
    <3> QED
      BY <2>2, <3>4, <3>5 DEF Once
  <2> QED
    BY <2>3, <2>4
<1>3. ASSUME NEW k \in PressedKeys, Release(k), alone # NoKey
      PROVE  Once'
  <2>1. k = alone /\ k \in finger /\ finger' = finger \ {k} /\ UNCHANGED <<alone, told>>
        /\ bouncing' = bouncing \cup {k}
    BY <1>3 DEF Release, Touch, Once, OnlyOne
  <2>2. OnlyOne' /\ Held' /\ Resting' /\ told' <= 1
    BY <1>1, <2>1 DEF Once, OnlyOne, Held, Resting
  <2>3. ASSUME told >= 1
        PROVE  timer = "dormant" /\ commands = 0 /\ cb \in {"idle", "low", "clear", "unmask"}
               /\ alone \notin touched
    BY <1>3, <2>1, <2>3 DEF Once, Told, Resting
  <2>4. told >= 1 => touched' = touched
    BY <1>3, <2>3 DEF Release, Touch
  <2>5. Told'
    BY <1>1, <2>1, <2>3, <2>4 DEF Told
  <2> QED
    BY <2>2, <2>5 DEF Once
<1>4. ASSUME NEW k \in PressedKeys, Bounce(k) \/ Settle(k), alone # NoKey
      PROVE  Once'
  <2>1. /\ k \in bouncing /\ bouncing' \subseteq bouncing
        /\ UNCHANGED <<finger, touched, alone, told>>
    BY <1>4 DEF Bounce, Settle
  <2>2. k = alone
    BY <1>4, <2>1 DEF Once, OnlyOne
  <2>3. ~(told >= 1 /\ alone \in finger)
    BY <1>4, <2>1, <2>2 DEF Once, Resting
  <2> QED
    BY <1>1, <2>1, <2>3 DEF Once, OnlyOne, Held, Told, Resting
<1>5. ASSUME alone' = NoKey, told' = told
      PROVE  Once'
  BY <1>5 DEF Once, OnlyOne, Held, Told, Resting
<1> QED
  BY <1>2, <1>3, <1>4, <1>5 DEF Person, Contacts, Release, Bounce, Settle

LEMMA HandlerOnce ==
  ASSUME OnceInv, Once, Burst, Handler
  PROVE  Once'
<1>1. /\ UNCHANGED <<finger, bouncing, initialized, irqs, pc, cb, timer, alone, told>>
      /\ touched' \in {touched, {}}
  BY DEF Handler, Enter, ClearPending, MaskColumns, StartTimer, IsrRest, contactVars, appVars,
     cbVars
<1>2. isr # "none" \/ nvic # {}
  BY DEF Handler, Enter, ClearPending, MaskColumns, StartTimer
<1>3. OnlyOne' /\ Held' /\ Told' /\ told' <= 1
  BY <1>1 DEF Once, OnlyOne, Held, Told
<1>4. ~(alone # NoKey /\ told >= 1 /\ alone \in finger)
  BY <1>2 DEF Once, Resting
<1>5. Resting'
  BY <1>1, <1>4 DEF Resting
<1> QED
  BY <1>3, <1>5 DEF Once

\* Nothing is found of a key that has been sent.
LEMMA SentKeyIsOpen ==
  ASSUME OnceInv, Once, ScanRow, alone # NoKey, told >= 1
  PROVE  cb' # "send"
<1>1. cb = "scan" /\ closed' = closed
  BY DEF ScanRow, CbRest, TimerRest, contactVars
<1>2. alone \notin finger
  BY <1>1 DEF Once, Resting
<1>3. finger = {} /\ bouncing = {}
  BY <1>1, <1>2 DEF Once, OnlyOne, Told
<1>4. closed = {}
  BY <1>3 DEF OnceInv, Settled, BurstInv, LifeInv, TypeOK, ContactTypes
<1>5. ~analog
  BY DEF Once, OnlyOne, OnceInv, BurstInv, LifeInv, Life
<1>6. \A c \in Columns : ~Low(c, lowRows', closed)
  BY <1>4, <1>5 DEF Low
<1> QED
  BY <1>1, <1>6 DEF ScanRow

LEMMA TimerTaskOnce ==
  ASSUME OnceInv, Once, Burst, TimerTask
  PROVE  Once'
<1> USE DEF CbRest, TimerRest, contactVars, appVars, timerVars, cbVars
<1>1. /\ UNCHANGED <<finger, bouncing, initialized, irqs, pc, isr>>
      /\ isr = "none" /\ (irqs => nvic = {}) /\ told \in 0..2
  <2>1. UNCHANGED <<finger, bouncing, initialized, irqs, pc, isr>>
    BY DEF TimerTask, ProcessCommand, Expire, RowsHigh, ScanRow, Send, RowsLow, ClearEdges,
       UnmaskColumns
  <2>2. isr = "none" /\ (irqs => nvic = {})
    BY DEF TimerTask, ProcessCommand, Expire, RowsHigh, ScanRow, Send, RowsLow, ClearEdges,
       UnmaskColumns, TimerTaskWaits, HandlersDone
  <2>3. told \in 0..2
    BY DEF OnceInv, BurstInv, LifeInv, TypeOK, GhostTypes
  <2> QED
    BY <2>1, <2>2, <2>3
<1>2. ASSUME alone' = NoKey, told' = told
      PROVE  Once'
  BY <1>2 DEF Once, OnlyOne, Held, Told, Resting
<1>3. ASSUME alone # NoKey, ProcessCommand
      PROVE  Once'
  <2>1. commands > 0 /\ UNCHANGED <<alone, told, touched, cb>>
    BY <1>3 DEF ProcessCommand
  <2>2. ~(told >= 1 /\ alone \in finger)
    BY <1>3, <2>1 DEF Once, Resting
  <2> QED
    BY <1>1, <2>1, <2>2 DEF Once, OnlyOne, Held, Told, Resting
<1>4. ASSUME alone # NoKey, Expire
      PROVE  Once'
  <2>1. /\ timer = "running" /\ bouncing \subseteq touched /\ touched' = {} /\ UNCHANGED <<alone, told>>
        /\ cb = "idle" /\ cb' \in {"idle", "high"}
    BY <1>4 DEF Expire, TimerTaskWaits
  <2>2. ~(told >= 1 /\ alone \in finger)
    BY <1>4, <2>1 DEF Once, Resting
  <2>3. told >= 1 \/ alone \in finger => alone \notin bouncing
    BY <1>4, <2>1 DEF Once, Held, Told
  <2> QED
    BY <1>1, <2>1, <2>2, <2>3 DEF Once, OnlyOne, Held, Told, Resting
<1>5. ASSUME cb # "idle"
      PROVE  timer = "dormant" /\ commands = 0 /\ touched = {} /\ imr = {}
  BY <1>5 DEF Burst, Alone, OnceInv, Untouched
<1>6. ASSUME alone # NoKey, RowsHigh
      PROVE  Once'
  <2>1. cb = "high" /\ cb' = "scan" /\ UNCHANGED <<alone, told, touched>>
    BY <1>6 DEF RowsHigh
  <2>2. ~(told >= 1 /\ alone \in finger)
    BY <1>6, <2>1 DEF Once, Resting
  <2> QED
    BY <1>1, <2>1, <2>2 DEF Once, OnlyOne, Held, Told, Resting
<1>7. ASSUME alone # NoKey, ScanRow
      PROVE  Once'
  <2>1. cb = "scan" /\ cb' \in {"scan", "send", "low"} /\ UNCHANGED <<alone, told, touched>>
    BY <1>7 DEF ScanRow
  <2>2. ~(told >= 1 /\ alone \in finger)
    BY <1>7, <2>1 DEF Once, Resting
  <2>3. told >= 1 => cb' # "send"
    BY <1>7, SentKeyIsOpen
  <2> QED
    BY <1>1, <2>1, <2>2, <2>3 DEF Once, OnlyOne, Held, Told, Resting
<1>8. ASSUME alone # NoKey, alone' # NoKey, Send
      PROVE  Once'
  <2>1. /\ cb = "send" /\ cb' = "low" /\ alone' = alone /\ told' \in {told, told + 1}
        /\ UNCHANGED <<timer, commands, touched, nvic>>
    <3>1. CASE Len(queue) < QueueLength
      BY <1>8, <3>1 DEF Send, extiVars
    <3>2. CASE ~(Len(queue) < QueueLength)
      BY <1>8, <3>2 DEF Send, extiVars
    <3> QED
      BY <3>1, <3>2
  <2>2. told = 0
    BY <1>1, <1>8, <2>1 DEF Once, Told
  <2>3. touched = {} /\ timer = "dormant" /\ commands = 0
    BY <1>5, <2>1
  <2>4. alone \in finger => alone \notin bouncing
    BY <1>8, <2>1 DEF Once, Held
  <2>5. nvic = {}
    BY <1>1, <1>8 DEF Once, OnlyOne
  <2>6. told' <= 1 /\ OnlyOne' /\ Held'
    BY <1>1, <2>1, <2>2, <2>3, <2>4 DEF Once, OnlyOne, Held
  <2>7. Told' /\ Resting'
    BY <1>1, <2>1, <2>3, <2>4, <2>5 DEF Told, Resting
  <2> QED
    BY <2>6, <2>7 DEF Once
<1>9. ASSUME alone # NoKey, RowsLow \/ ClearEdges \/ UnmaskColumns
      PROVE  Once'
  <2>1. /\ UNCHANGED <<alone, told, touched, timer, commands>>
        /\ cb \in {"low", "clear", "unmask"} /\ cb' \in {"clear", "unmask", "idle"}
    BY <1>9 DEF RowsLow, ClearEdges, UnmaskColumns
  <2>2. imr = {} /\ configured
    BY <1>5, <2>1 DEF OnceInv, BurstInv, LifeInv, Quiet
  <2>3. CASE RowsLow
    <3>1. nvic' = nvic /\ cb' = "clear"
      BY <2>2, <2>3, MaskedSignal DEF RowsLow, DriveRows
    <3> QED
      BY <1>1, <2>1, <3>1 DEF Once, OnlyOne, Held, Told, Resting
  <2>4. CASE ClearEdges
    <3>1. nvic' = nvic
      BY <2>2, <2>4, MaskedSignal DEF ClearEdges
    <3>2. pr' = {}
      BY <2>2, <2>4 DEF ClearEdges, Signal, ColPins, OnceInv, BurstInv, LifeInv, TypeOK, ExtiTypes
    <3> QED
      BY <1>1, <2>1, <3>1, <3>2 DEF Once, OnlyOne, Held, Told, Resting
  <2>5. CASE UnmaskColumns
    <3>1. cb = "unmask" /\ cb' = "idle" /\ pr' = pr
      BY <2>5 DEF UnmaskColumns, Signal
    <3>2. pr = {} => nvic' = nvic
      BY <2>5 DEF UnmaskColumns, Signal
    <3> QED
      BY <1>1, <2>1, <3>1, <3>2 DEF Once, OnlyOne, Held, Told, Resting
  <2> QED
    BY <1>9, <2>3, <2>4, <2>5
<1>10. alone = NoKey => alone' = NoKey
  BY DEF TimerTask, ProcessCommand, Expire, RowsHigh, ScanRow, Send, RowsLow, ClearEdges,
     UnmaskColumns
<1>11. alone' = NoKey => told' = told
  <2>1. CASE Send
    <3>1. hit # NoKey
      BY <2>1, ConstantsAssumption DEF Send, OnceInv, BurstInv, LifeInv, TypeOK, ScanTypes
    <3> QED
      BY <2>1, <3>1 DEF Send
  <2>2. CASE ~Send
    BY <2>2 DEF TimerTask, ProcessCommand, Expire, RowsHigh, ScanRow, RowsLow, ClearEdges,
       UnmaskColumns
  <2> QED
    BY <2>1, <2>2
<1> QED
  BY <1>2, <1>3, <1>4, <1>6, <1>7, <1>8, <1>9, <1>10, <1>11 DEF TimerTask

LEMMA ApplicationOnce ==
  ASSUME OnceInv, Once, Burst, Application, causes' = {}
  PROVE  Once'
<1> USE DEF AppRest, contactVars, appVars, timerVars, cbVars
<1>1. /\ UNCHANGED <<finger, bouncing, cb, isr, told>> /\ alone' \in {alone, NoKey}
  BY DEF Application, InitKeypad, SetColumns, SetRows, Create, InitDone, EnableIrqs, InitSwitch,
     WriteMasks, Deinit, FloatRows, ForgetConfig, DeleteQueue, StopTimer, DeleteTimer, Receive
<1>2. ASSUME alone' = NoKey
      PROVE  Once'
  BY <1>1, <1>2 DEF Once, OnlyOne, Held, Told, Resting
<1>3. ASSUME alone' # NoKey
      PROVE  Once'
  <2>1. alone' = alone /\ alone # NoKey
    BY <1>1, <1>3
  <2>2. initialized /\ irqs /\ pc \in {"idle", "mask"}
    BY <2>1 DEF Once, OnlyOne
  <2>3. InitSwitch \/ WriteMasks \/ Receive
    BY <1>3, <2>2 DEF Application, InitKeypad, SetColumns, SetRows, Create, InitDone, EnableIrqs,
       Deinit, FloatRows, ForgetConfig, DeleteQueue, StopTimer, DeleteTimer, Goto
  <2>4. /\ UNCHANGED <<initialized, irqs, touched, timer, commands>> /\ pc' \in {"idle", "mask"}
    BY <2>2, <2>3 DEF InitSwitch, WriteMasks, Receive, Goto
  <2>5. UNCHANGED <<pr, nvic>>
    <3>1. CASE WriteMasks
      <4>1. copy = imr
        BY <3>1 DEF WriteMasks
      <4> QED
        BY <3>1, <4>1, SignalOfNothing DEF WriteMasks
    <3>2. CASE InitSwitch \/ Receive
      BY <3>2 DEF InitSwitch, Receive, extiVars
    <3> QED
      BY <2>3, <3>1, <3>2
  <2> QED
    BY <1>1, <2>1, <2>4, <2>5 DEF Once, OnlyOne, Held, Told, Resting
<1> QED
  BY <1>2, <1>3

LEMMA OnceStep == OnceInv /\ [Next]_vars => OnceInv'
<1> SUFFICES ASSUME OnceInv, [Next]_vars PROVE OnceInv'
  OBVIOUS
<1>1. BurstInv' /\ Untouched' /\ Settled'
  BY BurstStep, UntouchedStep, SettledStep DEF OnceInv, BurstInv
<1>2. ASSUME causes' = {}
      PROVE  Once'
  <2>1. causes = {} /\ Once /\ Burst
    BY <1>2, CausesGrow DEF OnceInv, BurstInv
  <2>2. CASE UNCHANGED vars
    BY <2>1, <2>2 DEF vars, contactVars, extiVars, appVars, timerVars, cbVars, ghostVars,
       Once, OnlyOne, Held, Told, Resting
  <2> QED
    BY <1>2, <2>1, <2>2, OutsideOnce, HandlerOnce, TimerTaskOnce, ApplicationOnce DEF Next
<1> QED
  BY <1>1, <1>2 DEF OnceInv

LEMMA InitOnce == Init => OnceInv
<1> SUFFICES ASSUME Init PROVE OnceInv
  OBVIOUS
<1>1. BurstInv
  BY InitBurst
<1>2. Untouched /\ Settled
  BY DEF Init, Untouched, Settled
<1>3. Once
  BY DEF Init, Once, OnlyOne, Held, Told, Resting
<1> QED
  BY <1>1, <1>2, <1>3 DEF OnceInv

\* A press of one key is sent once.
THEOREM SentOnce == Spec => []ReportedOnce
<1>1. OnceInv => ReportedOnce
  BY DEF OnceInv, Once, ReportedOnce
<1> QED
  BY <1>1, InitOnce, OnceStep, PTL DEF Spec
=============================================================================
