--------------------------- MODULE FileStoreProofs ---------------------------
(***************************************************************************)
(* Proofs about the file driver, for every set of tasks, parts and values, *)
(* every workload and every value of the bounds: its types, that one task  *)
(* at a time is inside littlefs, that no two sessions have the same boot   *)
(* count, that NONE means saved, and that the driver implements            *)
(* DurableStore.                                                           *)
(***************************************************************************)
EXTENDS FileStore, TLAPS

InitPcs == {"mount", "format", "count", "save", "open"}
LockedPcs == {"seek", "io", "close", "give"}

\* Nobody is inside the driver together with init().
InitAlone == \A t, u \in Tasks : pc[t] \in InitPcs /\ u # t => pc[u] = "idle"

\* A task is only where its operation leads it.
OpFits ==
  \A t \in Tasks :
    /\ pc[t] = "idle" => op[t] = NoOp
    /\ pc[t] # "idle" => op[t] \in Operations \ {BadOp}
    /\ pc[t] \in InitPcs <=> op[t].name = "init"
    /\ pc[t] = "seek" => op[t].name \in {"write", "read"}
    /\ pc[t] = "io" => op[t].name \in {"write", "read", "sync"}
    /\ pc[t] \in {"close", "delete", "clear"} => op[t].name = "deinit"

LockedIsOwner == \A t \in Tasks : pc[t] \in LockedPcs => mutexOwner = t

LockDiscipline == InitAlone /\ OpFits /\ LockedIsOwner

\* The counts of earlier sessions are on flash, and the count of the one that
\* init() prepares exceeds them before it is saved and after.
CountsSaved ==
  /\ \A c \in announced : formatted /\ c <= savedCount
  /\ \A t \in Tasks :
       /\ pc[t] \in InitPcs \ {"mount", "format"} => formatted
       /\ pc[t] = "format" \/ (pc[t] = "count" /\ firstBoot) => announced = {}
       /\ pc[t] \in {"save", "open"} => \A c \in announced : bootCount > c
       /\ pc[t] = "open" => savedCount = bootCount

\* Before the partition is formatted nothing is on it, and no file is open.
BlankBeforeFormat ==
  /\ ~formatted => \A f \in Files : disk[f] = Empty
  /\ opened # {} => formatted
  /\ \A t \in Tasks : pc[t] = "format" => ~formatted /\ opened = {}

\* What the callers know of a file is in RAM while it is open, or on flash.
KnownInRam(f) == \A p \in Parts : written[f][p] \in {view[f][p], Torn}
FileKept(f) ==
  IF f \in opened
  THEN KnownInRam(f) /\ (broken[f] \/ (~erred[f] /\ (dirty[f] \/ view[f] = disk[f])))
  ELSE broken[f] \/ Saved(f)

\* No file has unsaved data when init() may mount the partition anew.
NothingToLose ==
  /\ \A t \in Tasks : pc[t] \in InitPcs => ~initialized
  /\ ~initialized => \A f \in opened : ~dirty[f] /\ ~erred[f]
  /\ \A t \in Tasks : pc[t] \notin InitPcs \cup {"idle"} /\ ~initialized => opened = {}

\* deinit() has yet to close the files that are open, and none is open after.
ClosesAll ==
  \A t \in Tasks :
    /\ pc[t] = "take" /\ op[t].name = "deinit" => left[t] = CloseOrder
    /\ pc[t] = "close" => \A f \in opened : \E i \in 1..Len(left[t]) : left[t][i] = f
    /\ pc[t] = "give" /\ op[t].name = "deinit" /\ result[t] = "none" => opened = {}
    /\ pc[t] \in {"delete", "clear"} => opened = {}

FilesKept ==
  /\ \A f \in Files : FileKept(f)
  /\ NothingToLose /\ ClosesAll
  /\ NoneMeansSaved

IInv == TypeOK /\ LockDiscipline /\ CountsSaved /\ BlankBeforeFormat /\ FilesKept
-----------------------------------------------------------------------------
(* Frames: what the steps of each kind leave alone *)

\* A step of t that only moves it, from one label to another.
Moves(t, from, to) == pc[t] \in from /\ pc' = [pc EXCEPT ![t] = to] /\ UNCHANGED op

\* A step of t that ends its operation.
Leaves(t, from) ==
  /\ pc[t] \in from
  /\ pc' = [pc EXCEPT ![t] = "idle"] /\ op' = [op EXCEPT ![t] = NoOp]

\* A halted task and a refused call move nobody.
Unmoved == UNCHANGED <<pc, op, mutexOwner>>

\* Everything but the tasks: what a call, and the taking of the mutex, leave alone.
Untouched == UNCHANGED <<flashVars, initialized, countVars, fileVars, ghostVars>>

LEMMA OperationFacts ==
  /\ InitOp \in Operations \ {BadOp} /\ InitOp.name = "init"
  /\ NoOp \notin Operations /\ NoOp.name = "none"
  /\ \A o \in Operations \ {BadOp} : o.name \in {"write", "read", "sync"} => o.file \in Files
  /\ \A o \in Operations : o.name = "write" => o.part \in Parts /\ o.value \in Values
  /\ \A o \in Operations : o.name \in {"init", "deinit", "write", "read", "sync"}
<1> USE DEF Op, Plain, InitOp, DeinitOp, BadOp, NoOp, WriteOp, ReadOp, SyncOp
<1>1. ASSUME NEW o \in Operations
      PROVE  /\ o.name \in {"init", "deinit", "write", "read", "sync"}
             /\ o = BadOp \/ (o.name \in {"write", "read", "sync"} => o.file \in Files)
             /\ o.name = "write" => o.part \in Parts /\ o.value \in Values
  <2>1. CASE o \in {InitOp, DeinitOp, BadOp}
    BY <2>1
  <2>2. CASE \E f \in Files, q \in Parts, v \in Values : o = WriteOp(f, q, v)
    BY <2>2
  <2>3. CASE \E f \in Files : o = ReadOp(f) \/ o = SyncOp(f)
    BY <2>3
  <2> QED BY <1>1, <2>1, <2>2, <2>3 DEF Operations
<1>2. InitOp \in Operations /\ InitOp.name = "init" /\ BadOp.name = "sync" /\ NoOp.name = "none"
  BY DEF Operations
<1> HIDE DEF Op, Plain, InitOp, DeinitOp, BadOp, NoOp, WriteOp, ReadOp, SyncOp
<1> QED BY <1>1, <1>2
-----------------------------------------------------------------------------
(* The lock discipline *)

LEMMA DisciplineInit == Init => LockDiscipline
BY OperationFacts DEF Init, PoweredUp, LockDiscipline, InitAlone, OpFits, LockedIsOwner, InitPcs,
   LockedPcs

LEMMA DisciplineStep ==
  ASSUME TypeOK, LockDiscipline, [Next]_vars
  PROVE  LockDiscipline'
<1> USE ConstantsAssumption
<1>0. /\ pc \in [Tasks -> PcValues] /\ op \in [Tasks -> Operations \cup {NoOp}]
      /\ InitAlone /\ OpFits /\ LockedIsOwner
  BY DEF TypeOK, LockDiscipline
<1>1. ASSUME Unmoved PROVE LockDiscipline'
  BY <1>0, <1>1 DEF Unmoved, LockDiscipline, InitAlone, OpFits, LockedIsOwner
<1>2. CASE UNCHANGED vars
  BY <1>1, <1>2 DEF vars, taskVars, mutexVars, Unmoved
<1>3. CASE Crash
  BY <1>3, OperationFacts DEF Crash, LockDiscipline, InitAlone, OpFits, LockedIsOwner, InitPcs,
     LockedPcs
<1>4. ASSUME NEW t \in Tasks, NEW from, NEW to \in PcValues, Moves(t, from, to),
             UNCHANGED mutexOwner,
             \/ from \subseteq InitPcs /\ to \in InitPcs
             \/ from = {"seek"} /\ to = "io"
             \/ from \subseteq {"seek", "io", "close"} /\ to = "give"
             \/ from = {"delete"} /\ to = "clear"
      PROVE  LockDiscipline'
  BY <1>0, <1>4 DEF Moves, LockDiscipline, InitAlone, OpFits, LockedIsOwner, InitPcs, LockedPcs
<1>5. ASSUME NEW t \in Tasks, NEW from \in SUBSET PcValues, Leaves(t, from), UNCHANGED mutexOwner
      PROVE  LockDiscipline'
  BY <1>0, <1>5, OperationFacts DEF Leaves, LockDiscipline, InitAlone, OpFits, LockedIsOwner,
     InitPcs, LockedPcs
<1>6. ASSUME NEW t \in Tasks, Enter(t) PROVE LockDiscipline'
  <2>1. PICK o \in Workload : Call(t, o) \/ CallRefused(t, o)
    BY <1>6 DEF Enter
  <2>2. CASE CallRefused(t, o)
    BY <1>1, <2>2 DEF CallRefused, mutexVars, Unmoved
  <2>3. CASE Call(t, o)
    <3>1. /\ pc[t] = "idle" /\ op' = [op EXCEPT ![t] = o]
          /\ pc' = [pc EXCEPT ![t] = IF o.name = "init" THEN "mount" ELSE "take"]
          /\ UNCHANGED mutexOwner /\ o \in Operations \ {BadOp}
      BY <2>3 DEF Call, Goto, mutexVars, Refused
    <3>2. \A u \in Tasks \ {t} :
            pc[u] = "idle" \/ (o.name # "init" /\ op[u].name # "init")
      BY <2>3 DEF Call, MayCall
    <3> QED
      BY <1>0, <3>1, <3>2, OperationFacts DEF LockDiscipline, InitAlone, OpFits, LockedIsOwner,
         InitPcs, LockedPcs
  <2> QED BY <2>1, <2>2, <2>3
<1>7. ASSUME NEW t \in Tasks, Locking(t) PROVE LockDiscipline'
  <2>1. CASE TakeMutex(t)
    <3>1. /\ pc[t] = "take" /\ mutexOwner = NoTask /\ mutexOwner' = t /\ UNCHANGED op
          /\ pc' = [pc EXCEPT ![t] = CASE op[t].name = "deinit" -> "close"
                                       [] op[t].name = "sync" -> "io"
                                       [] OTHER -> "seek"]
      BY <2>1 DEF TakeMutex, MutexFree, Goto
    <3>2. op[t].name \in {"deinit", "write", "read", "sync"}
      BY <1>0, <3>1, OperationFacts DEF OpFits, InitPcs
    <3> QED
      BY <1>0, <3>1, <3>2 DEF LockDiscipline, InitAlone, OpFits, LockedIsOwner, InitPcs, LockedPcs
  <2>2. CASE Give(t)
    <3>1. /\ pc[t] = "give" /\ mutexOwner' = NoTask
          /\ \/ op[t].name = "deinit" /\ pc' = [pc EXCEPT ![t] = "delete"] /\ UNCHANGED op
             \/ pc' = [pc EXCEPT ![t] = "idle"] /\ op' = [op EXCEPT ![t] = NoOp]
      BY <2>2 DEF Give, Goto, Leave
    <3> QED
      BY <1>0, <3>1, OperationFacts DEF LockDiscipline, InitAlone, OpFits, LockedIsOwner, InitPcs,
         LockedPcs
  <2> QED BY <1>7, <2>1, <2>2 DEF Locking
<1>8. ASSUME NEW t \in Tasks, Halt(t) PROVE LockDiscipline'
  BY <1>1, <1>8 DEF Halt, TakeDeleted, AssertFails, taskVars, mutexVars, Unmoved
<1>9. ASSUME NEW t \in Tasks, Initialize(t) PROVE LockDiscipline'
  <2>1. CASE Mount(t)
    <3>1. /\ pc[t] = "mount" /\ mutexOwner' = NoTask /\ UNCHANGED op
          /\ pc' = [pc EXCEPT ![t] = IF formatted THEN "count" ELSE "format"]
      BY <2>1 DEF Mount, Goto
    <3> QED
      BY <1>0, <3>1 DEF LockDiscipline, InitAlone, OpFits, LockedIsOwner, InitPcs, LockedPcs
  <2>2. CASE Format(t)
    <3>1. Moves(t, {"format"}, "count") /\ UNCHANGED mutexOwner
      BY <2>2 DEF Format, Moves, Goto, mutexVars
    <3> QED BY <1>4, <3>1 DEF InitPcs, PcValues
  <2>3. CASE Count(t)
    <3>1. Moves(t, {"count"}, "save") /\ UNCHANGED mutexOwner
      BY <2>3 DEF Count, Moves, Goto, mutexVars
    <3> QED BY <1>4, <3>1 DEF InitPcs, PcValues
  <2>4. CASE SaveCount(t)
    <3>1. Moves(t, {"save"}, "open") /\ UNCHANGED mutexOwner
      BY <2>4 DEF SaveCount, Moves, Goto, mutexVars
    <3> QED BY <1>4, <3>1 DEF InitPcs, PcValues
  <2>5. CASE OpenFile(t)
    BY <1>1, <2>5 DEF OpenFile, mutexVars, Unmoved
  <2>6. CASE \/ FormatFails(t) \/ CountFails(t) \/ SaveCountFails(t) \/ OpenFails(t)
             \/ InitSucceeds(t)
    <3>1. Leaves(t, PcValues) /\ UNCHANGED mutexOwner
      BY <1>0, <2>6 DEF FormatFails, CountFails, SaveCountFails, OpenFails, InitSucceeds, InitFails,
         Leave, Leaves, Goto, mutexVars
    <3> QED BY <1>5, <3>1
  <2> QED BY <1>9, <2>1, <2>2, <2>3, <2>4, <2>5, <2>6 DEF Initialize
<1>10. ASSUME NEW t \in Tasks, Access(t) PROVE LockDiscipline'
  <2>1. CASE Seek(t)
    <3>1. Moves(t, {"seek"}, "io") /\ UNCHANGED mutexOwner
      BY <2>1 DEF Seek, Moves, Goto, mutexVars
    <3> QED BY <1>4, <3>1 DEF PcValues
  <2>2. CASE ~Seek(t)
    <3>1. Moves(t, {"seek", "io"}, "give") /\ UNCHANGED mutexOwner
      BY <1>10, <2>2 DEF Access, SeekFails, Read, ReadFails, Write, WriteFails, Sync, SyncFails,
         Performs, Moves, Goto, mutexVars
    <3> QED BY <1>4, <3>1 DEF PcValues
  <2> QED BY <2>1, <2>2
<1>11. ASSUME NEW t \in Tasks, Deinitialize(t) PROVE LockDiscipline'
  <2>1. CASE CloseFile(t)
    BY <1>1, <2>1 DEF CloseFile, mutexVars, Unmoved
  <2>2. CASE CloseFails(t) \/ Unmount(t)
    <3>1. Moves(t, {"close"}, "give") /\ UNCHANGED mutexOwner
      BY <2>2 DEF CloseFails, Unmount, AfterCloseFails, Moves, Goto, mutexVars
    <3> QED BY <1>4, <3>1 DEF PcValues
  <2>3. CASE DeleteMutex(t)
    <3>1. Moves(t, {"delete"}, "clear") /\ UNCHANGED mutexOwner
      BY <2>3 DEF DeleteMutex, Moves, Goto
    <3> QED BY <1>4, <3>1 DEF PcValues
  <2>4. CASE ClearInitialized(t)
    <3>1. Leaves(t, PcValues) /\ UNCHANGED mutexOwner
      BY <1>0, <2>4 DEF ClearInitialized, Leave, Leaves, Goto, mutexVars
    <3> QED BY <1>5, <3>1
  <2> QED BY <1>11, <2>1, <2>2, <2>3, <2>4 DEF Deinitialize
<1> QED
  BY <1>2, <1>3, <1>6, <1>7, <1>8, <1>9, <1>10, <1>11 DEF Next, Proceed
-----------------------------------------------------------------------------
(* Types *)

RamTypes ==
  /\ initialized \in BOOLEAN
  /\ mutexExists \in BOOLEAN /\ mutexOwner \in Tasks \cup {NoTask}
  /\ bootCount \in Nat /\ firstBoot \in BOOLEAN
  /\ halted \in BOOLEAN
FlashTypes ==
  /\ formatted \in BOOLEAN /\ disk \in [Files -> Contents]
  /\ savedCount \in Nat \cup {NoCount} /\ announced \subseteq Nat
  /\ faults \in 0..MaxFaults /\ crashes \in 0..MaxCrashes
FileTypes ==
  /\ opened \subseteq Files /\ view \in [Files -> Contents]
  /\ dirty \in [Files -> BOOLEAN] /\ erred \in [Files -> BOOLEAN]
  /\ written \in [Files -> Contents] /\ broken \in [Files -> BOOLEAN]
TaskTypes ==
  /\ pc \in [Tasks -> PcValues] /\ op \in [Tasks -> Operations \cup {NoOp}]
  /\ left \in [Tasks -> Seq(Files)] /\ result \in [Tasks -> Results]
  /\ calls \in [Tasks -> 0..MaxCalls]

LEMMA TypeParts == TypeOK <=> RamTypes /\ FlashTypes /\ FileTypes /\ TaskTypes
BY DEF TypeOK, RamTypes, FlashTypes, FileTypes, TaskTypes

LEMMA EmptyContents == Empty \in Contents
BY DEF Empty, Contents

LEMMA OrderTypes ==
  /\ <<>> \in Seq(Files) /\ OpenOrder \in Seq(Files) /\ CloseOrder \in Seq(Files)
  /\ \A f \in Files : \E i \in 1..Len(CloseOrder) : CloseOrder[i] = f
BY DEF OpenOrder, CloseOrder, Files

LEMMA FaultType ==
  ASSUME TypeOK, Fault
  PROVE  faults' \in 0..MaxFaults /\ crashes' \in 0..MaxCrashes /\ halted' \in BOOLEAN
BY ConstantsAssumption DEF TypeOK, Fault

LEMMA TypeInit == Init => TypeOK
<1> SUFFICES ASSUME Init PROVE TypeOK
  OBVIOUS
<1> USE ConstantsAssumption, EmptyContents DEF Init, PoweredUp
<1>1. RamTypes
  BY DEF RamTypes
<1>2. FlashTypes
  <2>1. disk \in [Files -> Contents] /\ announced \subseteq Nat
    OBVIOUS
  <2>2. faults \in 0..MaxFaults /\ crashes \in 0..MaxCrashes
    OBVIOUS
  <2> QED BY <2>1, <2>2 DEF FlashTypes
<1>3. FileTypes
  BY DEF FileTypes
<1>4. TaskTypes
  BY DEF TaskTypes, PcValues, Results
<1> QED BY <1>1, <1>2, <1>3, <1>4, TypeParts

LEMMA TypeStep ==
  ASSUME TypeOK, LockDiscipline, [Next]_vars
  PROVE  TypeOK'
<1> USE ConstantsAssumption, EmptyContents
<1>0. RamTypes /\ FlashTypes /\ FileTypes /\ TaskTypes /\ OpFits
  BY TypeParts DEF LockDiscipline
<1>T. ASSUME RamTypes', FlashTypes', FileTypes', TaskTypes' PROVE TypeOK'
  BY <1>T, TypeParts, PTL
<1>1. CASE UNCHANGED vars
  BY <1>1 DEF TypeOK, vars, flashVars, mutexVars, countVars, fileVars, taskVars, ghostVars, runVars
<1>2. CASE Crash
  <2> USE <1>2 DEF Crash
  <2>1. RamTypes'
    BY DEF RamTypes
  <2>2. FlashTypes'
    BY <1>0 DEF FlashTypes, flashVars
  <2>3. FileTypes'
    BY <1>0 DEF FileTypes, FlashTypes
  <2>4. TaskTypes'
    BY DEF TaskTypes, PcValues, Results
  <2> QED BY <1>T, <2>1, <2>2, <2>3, <2>4
<1>3. ASSUME NEW t \in Tasks, Enter(t) PROVE TypeOK'
  <2>1. PICK o \in Workload : Call(t, o) \/ CallRefused(t, o)
    BY <1>3 DEF Enter
  <2>2. /\ UNCHANGED <<flashVars, initialized, mutexVars, countVars, fileVars, ghostVars, runVars>>
        /\ calls[t] < MaxCalls /\ calls' = [calls EXCEPT ![t] = calls[t] + 1]
    BY <2>1 DEF Call, CallRefused
  <2>3. RamTypes' /\ FlashTypes' /\ FileTypes'
    BY <1>0, <2>2 DEF RamTypes, FlashTypes, FileTypes, flashVars, mutexVars, countVars, fileVars,
       ghostVars, runVars
  <2>4. calls' \in [Tasks -> 0..MaxCalls]
    BY <1>0, <2>2 DEF TaskTypes
  <2>5. CASE CallRefused(t, o)
    <3>1. TaskTypes'
      BY <1>0, <2>4, <2>5 DEF TaskTypes, CallRefused
    <3> QED BY <1>T, <2>3, <3>1
  <2>6. CASE Call(t, o)
    <3>1. /\ op' = [op EXCEPT ![t] = o] /\ UNCHANGED result
          /\ \E label \in PcValues : pc' = [pc EXCEPT ![t] = label]
      BY <2>6 DEF Call, Goto, PcValues
    <3>2. \E s \in Seq(Files) : left' = [left EXCEPT ![t] = s]
      <4>1. CASE o.name = "init"
        BY <2>6, <4>1, OrderTypes DEF Call
      <4>2. CASE o.name = "deinit"
        BY <2>6, <4>2, OrderTypes DEF Call
      <4>3. CASE o.name \notin {"init", "deinit"}
        BY <2>6, <4>3, OrderTypes DEF Call
      <4> QED BY <4>1, <4>2, <4>3
    <3>3. TaskTypes'
      BY <1>0, <2>4, <3>1, <3>2 DEF TaskTypes
    <3> QED BY <1>T, <2>3, <3>3
  <2> QED BY <2>1, <2>5, <2>6
<1>4. ASSUME NEW t \in Tasks, Locking(t) PROVE TypeOK'
  <2>1. /\ UNCHANGED <<flashVars, initialized, mutexExists, countVars, fileVars, ghostVars, runVars>>
        /\ mutexOwner' \in Tasks \cup {NoTask}
    BY <1>4 DEF Locking, TakeMutex, Give
  <2>2. RamTypes' /\ FlashTypes' /\ FileTypes'
    BY <1>0, <2>1 DEF RamTypes, FlashTypes, FileTypes, flashVars, mutexVars, countVars, fileVars,
       ghostVars, runVars
  <2>3. TaskTypes'
    BY <1>0, <1>4 DEF Locking, TakeMutex, Give, Goto, Leave, TaskTypes, PcValues, Results
  <2> QED BY <1>T, <2>2, <2>3
<1>5. ASSUME NEW t \in Tasks, Halt(t) PROVE TypeOK'
  BY <1>5 DEF Halt, TakeDeleted, AssertFails, TypeOK, flashVars, mutexVars, countVars, fileVars,
     taskVars, ghostVars
<1>6. ASSUME NEW t \in Tasks, Initialize(t) PROVE TypeOK'
  <2> USE DEF flashVars, mutexVars, countVars, fileVars, ghostVars, runVars
  <2>1. TaskTypes'
    <3>1. CASE OpenFile(t)
      <4>1. left[t] \in Seq(Files) /\ left[t] # <<>>
        BY <1>0, <3>1 DEF OpenFile, TaskTypes
      <4>2. Tail(left[t]) \in Seq(Files)
        BY <4>1
      <4> QED BY <1>0, <3>1, <4>2 DEF OpenFile, TaskTypes
    <3>2. CASE Mount(t) \/ Format(t) \/ Count(t) \/ SaveCount(t)
      BY <1>0, <3>2 DEF Mount, Format, Count, SaveCount, Goto, TaskTypes, PcValues
    <3>3. CASE \/ FormatFails(t) \/ CountFails(t) \/ SaveCountFails(t) \/ OpenFails(t)
               \/ InitSucceeds(t)
      <4>1. left' = left \/ left' = [left EXCEPT ![t] = <<>>]
        BY <3>3 DEF FormatFails, CountFails, SaveCountFails, OpenFails, InitSucceeds, InitFails
      <4>2. left' \in [Tasks -> Seq(Files)]
        BY <1>0, <4>1, OrderTypes DEF TaskTypes
      <4>3. Leave(t) /\ UNCHANGED calls
        BY <3>3 DEF FormatFails, CountFails, SaveCountFails, OpenFails, InitSucceeds, InitFails
      <4> QED BY <1>0, <4>2, <4>3 DEF Leave, Goto, TaskTypes, PcValues, Results
    <3> QED BY <1>6, <3>1, <3>2, <3>3 DEF Initialize
  <2>2. CASE Mount(t) \/ Format(t)
    <3>1. RamTypes' /\ FlashTypes' /\ FileTypes'
      BY <1>0, <2>2 DEF Mount, Format, RamTypes, FlashTypes, FileTypes
    <3> QED BY <1>T, <2>1, <3>1
  <2>3. CASE Count(t) \/ SaveCount(t)
    <3>1. bootCount' \in Nat /\ savedCount' \in Nat \cup {NoCount}
      BY <1>0, <2>3 DEF Count, SaveCount, NextCount, NoCount, RamTypes, FlashTypes
    <3>2. UNCHANGED <<formatted, disk, initialized, mutexVars, firstBoot, fileVars, ghostVars, runVars>>
      BY <2>3 DEF Count, SaveCount
    <3>3. RamTypes' /\ FlashTypes' /\ FileTypes'
      BY <1>0, <3>1, <3>2 DEF RamTypes, FlashTypes, FileTypes
    <3> QED BY <1>T, <2>1, <3>3
  <2>4. CASE FormatFails(t) \/ CountFails(t) \/ SaveCountFails(t) \/ OpenFails(t)
    <3>1. /\ UNCHANGED <<initialized, mutexVars, countVars, fileVars, ghostVars>>
          /\ formatted' \in BOOLEAN /\ disk' \in [Files -> Contents]
          /\ savedCount' \in Nat \cup {NoCount} /\ Fault
      BY <1>0, <2>4 DEF FormatFails, CountFails, SaveCountFails, OpenFails, InitFails, FlashTypes,
         RamTypes
    <3>2. RamTypes' /\ FlashTypes' /\ FileTypes'
      BY <1>0, <3>1, FaultType DEF RamTypes, FlashTypes, FileTypes
    <3> QED BY <1>T, <2>1, <3>2
  <2>5. CASE OpenFile(t)
    <3>1. Head(left[t]) \in Files
      BY <1>0, <2>5 DEF OpenFile, TaskTypes
    <3>2. FileTypes'
      BY <1>0, <2>5, <3>1 DEF OpenFile, FileTypes, FlashTypes
    <3>3. RamTypes' /\ FlashTypes'
      BY <1>0, <2>5 DEF OpenFile, RamTypes, FlashTypes
    <3> QED BY <1>T, <2>1, <3>2, <3>3
  <2>6. CASE InitSucceeds(t)
    <3>1. RamTypes' /\ FlashTypes' /\ FileTypes'
      BY <1>0, <2>6 DEF InitSucceeds, RamTypes, FlashTypes, FileTypes
    <3> QED BY <1>T, <2>1, <3>1
  <2> QED BY <1>6, <2>2, <2>3, <2>4, <2>5, <2>6 DEF Initialize
<1>7. ASSUME NEW t \in Tasks, Access(t) PROVE TypeOK'
  <2> USE DEF flashVars, mutexVars, countVars, fileVars, ghostVars, runVars
  <2>1. /\ op[t].file \in Files
        /\ op[t].name = "write" => op[t].part \in Parts /\ op[t].value \in Values
    BY <1>0, <1>7, OperationFacts DEF Access, Seek, SeekFails, Read, ReadFails, Write, WriteFails,
       Sync, SyncFails, Performs, OpFits
  <2>2. TaskTypes'
    BY <1>0, <1>7 DEF Access, Seek, SeekFails, Read, ReadFails, Write, WriteFails, Sync, SyncFails,
       Return, Goto, TaskTypes, PcValues, Results
  <2>3. CASE Seek(t) \/ Read(t)
    <3>1. RamTypes' /\ FlashTypes' /\ FileTypes'
      BY <1>0, <2>3 DEF Seek, Read, RamTypes, FlashTypes, FileTypes
    <3> QED BY <1>T, <2>2, <3>1
  <2>4. CASE SeekFails(t) \/ ReadFails(t)
    <3>1. /\ UNCHANGED <<flashVars, initialized, mutexVars, countVars, opened, view, dirty, written,
                         announced>>
          /\ FlushFails(op[t].file)
      BY <2>4 DEF SeekFails, ReadFails
    <3>2. FileTypes'
      BY <1>0, <2>1, <3>1 DEF FlushFails, FileTypes
    <3>3. RamTypes' /\ FlashTypes'
      BY <1>0, <3>1, FaultType DEF FlushFails, RamTypes, FlashTypes
    <3> QED BY <1>T, <2>2, <3>2, <3>3
  <2>5. CASE Write(t) \/ WriteFails(t)
    <3>1. op[t].part \in Parts /\ op[t].value \in Values
      BY <2>1, <2>5 DEF Write, WriteFails, Performs
    <3> DEFINE Put(c, v) == [c EXCEPT ![op[t].file][op[t].part] = v]
    <3>2. ASSUME NEW c \in [Files -> Contents], NEW v \in Values \cup {Torn}
          PROVE  Put(c, v) \in [Files -> Contents]
      BY <2>1, <3>1 DEF Contents
    <3>3. /\ view' = view \/ \E v \in Values \cup {Torn} : view' = Put(view, v)
          /\ \E v \in Values \cup {Torn} : written' = Put(written, v)
      BY <2>5, <3>1 DEF Write, WriteFails
    <3> HIDE DEF Put
    <3>4. view' \in [Files -> Contents] /\ written' \in [Files -> Contents]
      BY <1>0, <3>2, <3>3 DEF FileTypes
    <3>5. dirty' \in [Files -> BOOLEAN] /\ erred' \in [Files -> BOOLEAN] /\ broken' \in [Files -> BOOLEAN]
      BY <1>0, <2>5 DEF Write, WriteFails, ErredAfterWrite, FileTypes
    <3>6. FileTypes'
      BY <1>0, <2>5, <3>4, <3>5 DEF Write, WriteFails, FileTypes
    <3>7. /\ UNCHANGED <<flashVars, initialized, mutexVars, countVars, announced>>
          /\ Fault \/ UNCHANGED runVars
      BY <2>5 DEF Write, WriteFails
    <3>8. RamTypes' /\ FlashTypes'
      BY <1>0, <3>7, FaultType DEF RamTypes, FlashTypes
    <3> QED BY <1>T, <2>2, <3>6, <3>8
  <2>6. CASE Sync(t) \/ SyncFails(t)
    <3>1. /\ UNCHANGED <<formatted, savedCount, initialized, mutexVars, countVars, announced>>
          /\ Fault \/ UNCHANGED runVars
          /\ disk' = disk \/ disk' = [disk EXCEPT ![op[t].file] = view[op[t].file]]
          /\ UNCHANGED <<opened, view, written>>
      BY <2>6 DEF Sync, SyncFails, CommitFails
    <3>2. disk' \in [Files -> Contents]
      BY <1>0, <2>1, <3>1 DEF FlashTypes, FileTypes
    <3>3. FileTypes'
      BY <1>0, <2>6, <3>1 DEF Sync, SyncFails, CommitFails, FileTypes
    <3>4. RamTypes' /\ FlashTypes'
      BY <1>0, <3>1, <3>2, FaultType DEF RamTypes, FlashTypes
    <3> QED BY <1>T, <2>2, <3>3, <3>4
  <2> QED BY <1>7, <2>3, <2>4, <2>5, <2>6 DEF Access
<1>8. ASSUME NEW t \in Tasks, Deinitialize(t) PROVE TypeOK'
  <2> USE DEF flashVars, mutexVars, countVars, fileVars, ghostVars, runVars
  <2>1. CASE CloseFile(t) \/ CloseFails(t)
    <3>1. left[t] \in Seq(Files) /\ left[t] # <<>>
      BY <1>0, <2>1 DEF CloseFile, CloseFails, TaskTypes
    <3>2. Head(left[t]) \in Files /\ Tail(left[t]) \in Seq(Files)
      BY <3>1
    <3>3. /\ UNCHANGED <<formatted, savedCount, initialized, mutexVars, countVars, announced, written>>
          /\ Fault \/ UNCHANGED runVars
          /\ disk' = disk \/ disk' = [disk EXCEPT ![Head(left[t])] = view[Head(left[t])]]
          /\ broken' = broken \/ broken' = [broken EXCEPT ![Head(left[t])] = TRUE]
          /\ Forget(Head(left[t]))
      BY <2>1 DEF CloseFile, CloseFails, CommitFails
    <3>4. disk' \in [Files -> Contents]
      BY <1>0, <3>2, <3>3 DEF FlashTypes, FileTypes
    <3>5. FileTypes'
      BY <1>0, <3>2, <3>3 DEF Forget, FileTypes
    <3>6. RamTypes' /\ FlashTypes'
      BY <1>0, <3>3, <3>4, FaultType DEF RamTypes, FlashTypes
    <3>7. TaskTypes'
      <4>1. left' = [left EXCEPT ![t] = Tail(left[t])] \/ left' = [left EXCEPT ![t] = <<>>]
        BY <2>1 DEF CloseFile, CloseFails
      <4>2. left' \in [Tasks -> Seq(Files)]
        BY <1>0, <3>2, <4>1, OrderTypes DEF TaskTypes
      <4>3. /\ UNCHANGED <<op, calls>>
            /\ UNCHANGED pc \/ pc' = [pc EXCEPT ![t] = "give"]
            /\ UNCHANGED result \/ result' = [result EXCEPT ![t] = "failed"]
        BY <2>1 DEF CloseFile, CloseFails, AfterCloseFails, Return, Goto
      <4> QED BY <1>0, <4>2, <4>3 DEF TaskTypes, PcValues, Results
    <3> QED BY <1>T, <3>5, <3>6, <3>7
  <2>2. CASE Unmount(t) \/ DeleteMutex(t) \/ ClearInitialized(t)
    <3>1. RamTypes' /\ FlashTypes' /\ FileTypes'
      BY <1>0, <2>2 DEF Unmount, DeleteMutex, ClearInitialized, RamTypes, FlashTypes, FileTypes
    <3>2. TaskTypes'
      BY <1>0, <2>2 DEF Unmount, DeleteMutex, ClearInitialized, Leave, Goto, TaskTypes, PcValues,
         Results
    <3> QED BY <1>T, <3>1, <3>2
  <2> QED BY <1>8, <2>1, <2>2 DEF Deinitialize
<1> QED
  BY <1>1, <1>2, <1>3, <1>4, <1>5, <1>6, <1>7, <1>8 DEF Next, Proceed
-----------------------------------------------------------------------------
(* The boot counter *)

LEMMA CountsInit == Init => CountsSaved
BY DEF Init, PoweredUp, CountsSaved, InitPcs

\* The steps that have nothing to do with the counter move a task outside
\* init(), or into its first step.
CountFrame(t) ==
  /\ UNCHANGED <<formatted, savedCount, bootCount, firstBoot, announced>>
  /\ \E label \in PcValues \ (InitPcs \ {"mount"}) : pc' = [pc EXCEPT ![t] = label]

LEMMA CountsStep ==
  ASSUME TypeOK, LockDiscipline, CountsSaved, [Next]_vars
  PROVE  CountsSaved'
<1>0. /\ pc \in [Tasks -> PcValues] /\ bootCount \in Nat /\ announced \subseteq Nat
      /\ savedCount \in Nat \cup {-1} /\ InitAlone
  BY DEF TypeOK, NoCount, LockDiscipline
<1>1. ASSUME UNCHANGED <<pc, flashVars, countVars, announced>> PROVE CountsSaved'
  BY <1>1 DEF CountsSaved, flashVars, countVars
<1>2. ASSUME NEW t \in Tasks, CountFrame(t) PROVE CountsSaved'
  BY <1>0, <1>2 DEF CountFrame, CountsSaved, InitPcs, PcValues
<1>3. CASE UNCHANGED vars
  BY <1>1, <1>3 DEF vars, taskVars, ghostVars
<1>4. CASE Crash
  BY <1>4 DEF Crash, CountsSaved, InitPcs, flashVars
<1>5. ASSUME NEW t \in Tasks, Enter(t) \/ Locking(t) \/ Halt(t) PROVE CountsSaved'
  <2>1. CountFrame(t) \/ UNCHANGED <<pc, flashVars, countVars, announced>>
    BY <1>5 DEF Enter, Locking, Halt, Call, CallRefused, TakeMutex, Give, TakeDeleted, AssertFails,
       Goto, Leave, CountFrame, InitPcs, PcValues, taskVars, ghostVars, flashVars, countVars
  <2> QED BY <1>1, <1>2, <2>1
<1>6. ASSUME NEW t \in Tasks, Initialize(t) PROVE CountsSaved'
  <2> USE <1>0 DEF CountsSaved, InitPcs, Goto
  <2>1. CASE Mount(t)
    <3>1. /\ pc' = [pc EXCEPT ![t] = IF formatted THEN "count" ELSE "format"]
          /\ firstBoot' = FALSE /\ UNCHANGED <<formatted, savedCount, bootCount, announced>>
      BY <2>1 DEF Mount, flashVars, ghostVars
    <3>2. ~formatted => announced = {}
      OBVIOUS
    <3>3. \A u \in Tasks \ {t} : pc[u] = "idle"
      BY <2>1 DEF Mount, InitAlone
    <3> QED BY <3>1, <3>2, <3>3
  <2>2. CASE Format(t) \/ FormatFails(t)
    <3>1. announced = {} /\ UNCHANGED announced
      BY <2>2 DEF Format, FormatFails, ghostVars
    <3>2. \A u \in Tasks \ {t} : pc[u] = "idle"
      BY <2>2 DEF Format, FormatFails, InitAlone
    <3>3. \/ pc' = [pc EXCEPT ![t] = "count"] /\ formatted'
          \/ pc' = [pc EXCEPT ![t] = "idle"]
      BY <2>2 DEF Format, FormatFails, InitFails, Leave
    <3> QED BY <3>1, <3>2, <3>3
  <2>3. CASE Count(t)
    <3>1. /\ pc[t] = "count" /\ pc' = [pc EXCEPT ![t] = "save"]
          /\ bootCount' = NextCount /\ UNCHANGED <<formatted, savedCount, firstBoot, announced>>
      BY <2>3 DEF Count, flashVars, ghostVars
    <3>2. \A c \in announced : NextCount > c
      BY <3>1 DEF NextCount, NoCount
    <3>3. \A u \in Tasks \ {t} : pc[u] = "idle"
      BY <3>1 DEF InitAlone
    <3> QED BY <3>1, <3>2, <3>3
  <2>4. CASE SaveCount(t)
    <3>1. /\ pc[t] = "save" /\ pc' = [pc EXCEPT ![t] = "open"]
          /\ savedCount' = bootCount /\ UNCHANGED <<formatted, bootCount, firstBoot, announced>>
      BY <2>4 DEF SaveCount, countVars, ghostVars
    <3>2. \A u \in Tasks \ {t} : pc[u] = "idle"
      BY <3>1 DEF InitAlone
    <3> QED BY <3>1, <3>2
  <2>5. CASE SaveCountFails(t)
    <3>1. /\ pc[t] = "save" /\ pc' = [pc EXCEPT ![t] = "idle"]
          /\ savedCount' = bootCount \/ savedCount' = savedCount
          /\ UNCHANGED <<formatted, bootCount, firstBoot, announced>>
      BY <2>5 DEF SaveCountFails, InitFails, Leave, countVars, ghostVars
    <3>2. \A u \in Tasks \ {t} : pc[u] = "idle"
      BY <3>1 DEF InitAlone
    <3> QED BY <3>1, <3>2
  <2>6. CASE CountFails(t) \/ OpenFails(t)
    <3>1. CountFrame(t)
      BY <2>6 DEF CountFails, OpenFails, InitFails, Leave, CountFrame, flashVars, countVars, ghostVars,
         PcValues
    <3> QED BY <1>2, <3>1
  <2>7. CASE OpenFile(t)
    BY <1>1, <2>7 DEF OpenFile
  <2>8. CASE InitSucceeds(t)
    <3>1. /\ pc[t] = "open" /\ pc' = [pc EXCEPT ![t] = "idle"]
          /\ announced' = announced \cup {bootCount}
          /\ UNCHANGED <<formatted, savedCount, bootCount, firstBoot>>
      BY <2>8 DEF InitSucceeds, Leave, flashVars, countVars
    <3>2. \A u \in Tasks \ {t} : pc[u] = "idle"
      BY <3>1 DEF InitAlone
    <3> QED BY <3>1, <3>2
  <2> QED BY <1>6, <2>1, <2>2, <2>3, <2>4, <2>5, <2>6, <2>7, <2>8 DEF Initialize
<1>7. ASSUME NEW t \in Tasks, Access(t) PROVE CountsSaved'
  <2>1. CountFrame(t)
    BY <1>7 DEF Access, Seek, SeekFails, Read, ReadFails, Write, WriteFails, Sync, SyncFails,
       CountFrame, Goto, flashVars, countVars, ghostVars, PcValues, InitPcs
  <2> QED BY <1>2, <2>1
<1>8. ASSUME NEW t \in Tasks, Deinitialize(t) PROVE CountsSaved'
  <2>1. CountFrame(t) \/ UNCHANGED <<pc, flashVars, countVars, announced>>
          \/ UNCHANGED <<pc, formatted, savedCount, countVars, announced>>
    BY <1>8 DEF Deinitialize, CloseFile, CloseFails, Unmount, DeleteMutex, ClearInitialized, Leave,
       AfterCloseFails, CountFrame, Goto, flashVars, countVars, ghostVars, PcValues, InitPcs
  <2>2. ASSUME UNCHANGED <<pc, formatted, savedCount, countVars, announced>> PROVE CountsSaved'
    BY <2>2 DEF CountsSaved, countVars
  <2> QED BY <1>1, <1>2, <2>1, <2>2
<1> QED
  BY <1>3, <1>4, <1>5, <1>6, <1>7, <1>8 DEF Next, Proceed
-----------------------------------------------------------------------------
(* A partition that is not formatted is blank *)

LEMMA BlankInit == Init => BlankBeforeFormat
BY DEF Init, PoweredUp, BlankBeforeFormat

LEMMA BlankStep ==
  ASSUME TypeOK, LockDiscipline, CountsSaved, BlankBeforeFormat, [Next]_vars
  PROVE  BlankBeforeFormat'
<1>0. pc \in [Tasks -> PcValues] /\ opened \subseteq Files /\ InitAlone
  BY DEF TypeOK, LockDiscipline
<1>1. ASSUME UNCHANGED <<formatted, disk, opened>>,
             UNCHANGED pc \/ \E t \in Tasks, label \in PcValues \ {"format"} : pc' = [pc EXCEPT ![t] = label]
      PROVE  BlankBeforeFormat'
  BY <1>0, <1>1 DEF BlankBeforeFormat
<1>2. CASE UNCHANGED vars
  BY <1>1, <1>2 DEF vars, taskVars, flashVars, fileVars
<1>3. CASE Crash
  BY <1>3 DEF Crash, BlankBeforeFormat, flashVars
<1>4. ASSUME NEW t \in Tasks, Enter(t) \/ Locking(t) \/ Halt(t) PROVE BlankBeforeFormat'
  <2>1. /\ UNCHANGED <<formatted, disk, opened>>
        /\ UNCHANGED pc \/ \E label \in PcValues \ {"format"} : pc' = [pc EXCEPT ![t] = label]
    BY <1>4 DEF Enter, Locking, Halt, Call, CallRefused, TakeMutex, Give, TakeDeleted, AssertFails,
       Goto, Leave, PcValues, taskVars, flashVars, fileVars
  <2> QED BY <1>1, <2>1
<1>5. ASSUME NEW t \in Tasks, Initialize(t) PROVE BlankBeforeFormat'
  <2>1. CASE Mount(t)
    <3>1. /\ pc[t] = "mount" /\ pc' = [pc EXCEPT ![t] = IF formatted THEN "count" ELSE "format"]
          /\ opened' = {} /\ UNCHANGED <<formatted, disk>>
      BY <2>1 DEF Mount, Goto, flashVars
    <3>2. \A u \in Tasks \ {t} : pc[u] = "idle"
      BY <1>0, <3>1 DEF InitAlone, InitPcs
    <3> QED BY <1>0, <3>1, <3>2 DEF BlankBeforeFormat
  <2>2. CASE Format(t) \/ FormatFails(t)
    <3>1. /\ pc[t] = "format" /\ \E label \in {"idle", "count"} : pc' = [pc EXCEPT ![t] = label]
          /\ disk' = [f \in Files |-> Empty] /\ UNCHANGED opened
      BY <2>2 DEF Format, FormatFails, InitFails, Leave, Goto, fileVars
    <3>2. \A u \in Tasks \ {t} : pc[u] = "idle"
      BY <1>0, <3>1 DEF InitAlone, InitPcs
    <3> QED BY <1>0, <3>1, <3>2 DEF BlankBeforeFormat
  <2>3. CASE OpenFile(t)
    <3>1. formatted /\ UNCHANGED <<pc, flashVars>>
      BY <2>3 DEF OpenFile, CountsSaved, InitPcs
    <3>2. \A u \in Tasks : pc[u] # "format"
      BY <2>3, <3>1 DEF BlankBeforeFormat
    <3> QED BY <3>1, <3>2 DEF BlankBeforeFormat, flashVars
  <2>4. CASE \/ Count(t) \/ CountFails(t) \/ SaveCount(t) \/ SaveCountFails(t) \/ OpenFails(t)
             \/ InitSucceeds(t)
    <3>1. /\ UNCHANGED <<formatted, disk, opened>>
          /\ \E label \in PcValues \ {"format"} : pc' = [pc EXCEPT ![t] = label]
      BY <2>4 DEF Count, CountFails, SaveCount, SaveCountFails, OpenFails, InitSucceeds, InitFails,
         Leave, Goto, PcValues, flashVars, fileVars
    <3> QED BY <1>1, <3>1
  <2> QED BY <1>5, <2>1, <2>2, <2>3, <2>4 DEF Initialize
<1>6. ASSUME UNCHANGED formatted, opened' \subseteq opened, formatted \/ UNCHANGED disk,
             UNCHANGED pc \/ \E t \in Tasks, label \in PcValues \ {"format"} : pc' = [pc EXCEPT ![t] = label]
      PROVE  BlankBeforeFormat'
  BY <1>0, <1>6 DEF BlankBeforeFormat
<1>7. ASSUME NEW t \in Tasks, Access(t) PROVE BlankBeforeFormat'
  <2>1. /\ UNCHANGED <<formatted, opened>> /\ (opened # {} \/ UNCHANGED disk)
        /\ \E label \in PcValues \ {"format"} : pc' = [pc EXCEPT ![t] = label]
    BY <1>7 DEF Access, Seek, SeekFails, Read, ReadFails, Write, WriteFails, Sync, SyncFails,
       Performs, Goto, PcValues, flashVars, fileVars
  <2> QED BY <1>6, <2>1 DEF BlankBeforeFormat
<1>8. ASSUME NEW t \in Tasks, Deinitialize(t) PROVE BlankBeforeFormat'
  <2>1. /\ UNCHANGED formatted /\ opened' \subseteq opened /\ (opened # {} \/ UNCHANGED disk)
        /\ UNCHANGED pc \/ \E label \in PcValues \ {"format"} : pc' = [pc EXCEPT ![t] = label]
    BY <1>8 DEF Deinitialize, CloseFile, CloseFails, Forget, Unmount, DeleteMutex, ClearInitialized,
       Leave, AfterCloseFails, Goto, PcValues, flashVars, fileVars
  <2> QED BY <1>6, <2>1 DEF BlankBeforeFormat
<1> QED
  BY <1>2, <1>3, <1>4, <1>5, <1>7, <1>8 DEF Next, Proceed
-----------------------------------------------------------------------------
(* NONE means saved *)

LEMMA FilesInit == Init => FilesKept
BY DEF Init, PoweredUp, FilesKept, FileKept, Saved, NothingToLose, ClosesAll, NoneMeansSaved,
   InitPcs

\* What the invariant says of the files, and of a task
AllKept == \A f \in Files : FileKept(f)
TaskKept(t) ==
  /\ pc[t] \in InitPcs => ~initialized
  /\ pc[t] \notin InitPcs \cup {"idle"} /\ ~initialized => opened = {}
  /\ pc[t] = "take" /\ op[t].name = "deinit" => left[t] = CloseOrder
  /\ pc[t] = "close" => \A f \in opened : \E i \in 1..Len(left[t]) : left[t][i] = f
  /\ pc[t] = "give" /\ op[t].name = "deinit" /\ result[t] = "none" => opened = {}
  /\ pc[t] \in {"delete", "clear"} => opened = {}
  /\ pc[t] = "give" /\ op[t].name = "sync" /\ result[t] = "NONE" =>
       broken[op[t].file] \/ Saved(op[t].file)
AllTasksKept == \A t \in Tasks : TaskKept(t)
CleanAtRest == ~initialized => \A f \in opened : ~dirty[f] /\ ~erred[f]

LEMMA FilesParts ==
  FilesKept <=> AllKept /\ CleanAtRest /\ AllTasksKept
<1>1. FilesKept => AllKept /\ CleanAtRest /\ AllTasksKept
  BY DEF FilesKept, AllKept, CleanAtRest, AllTasksKept, TaskKept, NothingToLose, ClosesAll, NoneMeansSaved
<1>2. ASSUME AllKept, CleanAtRest, AllTasksKept PROVE FilesKept
  <2>1. NothingToLose /\ ClosesAll
    BY <1>2 DEF CleanAtRest, AllTasksKept, TaskKept, NothingToLose, ClosesAll
  <2>2. NoneMeansSaved
    BY <1>2 DEF AllKept, FileKept, AllTasksKept, TaskKept, NoneMeansSaved
  <2> QED BY <1>2, <2>1, <2>2 DEF FilesKept, AllKept
<1> QED BY <1>1, <1>2

SameFiles == UNCHANGED <<disk, opened, view, dirty, erred, written, broken>>

LEMMA FilesStep ==
  ASSUME TypeOK, LockDiscipline, CountsSaved, BlankBeforeFormat, FilesKept, [Next]_vars
  PROVE  FilesKept'
<1> USE ConstantsAssumption
<1>0. /\ AllKept /\ CleanAtRest /\ \A t \in Tasks : TaskKept(t)
      /\ InitAlone /\ OpFits /\ LockedIsOwner
      /\ pc \in [Tasks -> PcValues] /\ op \in [Tasks -> Operations \cup {NoOp}]
      /\ left \in [Tasks -> Seq(Files)] /\ result \in [Tasks -> Results]
  BY FilesParts DEF LockDiscipline, TypeOK, AllTasksKept
<1>F. /\ opened \subseteq Files /\ view \in [Files -> Contents] /\ disk \in [Files -> Contents]
      /\ dirty \in [Files -> BOOLEAN] /\ erred \in [Files -> BOOLEAN]
      /\ written \in [Files -> Contents] /\ broken \in [Files -> BOOLEAN]
  BY DEF TypeOK
<1>G. ASSUME AllKept', CleanAtRest', \A u \in Tasks : TaskKept(u)' PROVE FilesKept'
  <2>1. AllTasksKept'
    BY <1>G DEF AllTasksKept
  <2> QED BY <1>G, <2>1, FilesParts, PTL
<1>S. ASSUME SameFiles PROVE AllKept' /\ (UNCHANGED initialized => CleanAtRest')
  BY <1>0, <1>S DEF SameFiles, AllKept, FileKept, KnownInRam, Saved, CleanAtRest
\* A step of t that leaves the files alone keeps what is known of the others.
<1>O. ASSUME NEW t \in Tasks, NEW u \in Tasks \ {t}, SameFiles, UNCHANGED initialized,
             pc'[u] = pc[u], op'[u] = op[u], left'[u] = left[u], result'[u] = result[u]
      PROVE  TaskKept(u)'
  BY <1>0, <1>O DEF SameFiles, TaskKept, Saved
<1>1. ASSUME SameFiles, UNCHANGED <<pc, op, left, result, initialized>> PROVE FilesKept'
  <2>1. \A u \in Tasks : TaskKept(u)'
    BY <1>0, <1>1 DEF SameFiles, TaskKept, Saved
  <2> QED BY <1>1, <1>G, <1>S, <2>1
<1>2. CASE UNCHANGED vars
  BY <1>1, <1>2 DEF vars, taskVars, flashVars, fileVars, ghostVars, SameFiles
<1>3. CASE Crash
  <2>1. AllKept'
    BY <1>3 DEF Crash, flashVars, AllKept, FileKept, Saved
  <2>2. CleanAtRest' /\ \A u \in Tasks : TaskKept(u)'
    BY <1>3 DEF Crash, CleanAtRest, TaskKept, InitPcs
  <2> QED BY <1>G, <2>1, <2>2
<1>4. ASSUME NEW t \in Tasks, Enter(t) PROVE FilesKept'
  <2>1. PICK o \in Workload : Call(t, o) \/ CallRefused(t, o)
    BY <1>4 DEF Enter
  <2>2. CASE CallRefused(t, o)
    BY <1>1, <2>2 DEF CallRefused, flashVars, fileVars, ghostVars, SameFiles
  <2>3. CASE Call(t, o)
    <3>1. /\ pc[t] = "idle" /\ SameFiles /\ UNCHANGED <<initialized, result>>
          /\ op' = [op EXCEPT ![t] = o]
          /\ pc' = [pc EXCEPT ![t] = IF o.name = "init" THEN "mount" ELSE "take"]
      BY <2>3 DEF Call, Goto, flashVars, fileVars, ghostVars, SameFiles
    <3>5. (o.name = "init" => ~initialized) /\ (o.name # "init" => initialized)
      <4>1. initialized \in BOOLEAN
        BY DEF TypeOK
      <4> QED BY <2>3, <4>1 DEF Call, Refused
    <3>2. /\ \A u \in Tasks \ {t} : left'[u] = left[u]
          /\ o.name = "deinit" => left'[t] = CloseOrder
      <4>1. CASE o.name = "deinit"
        BY <1>0, <2>3, <4>1 DEF Call
      <4>2. CASE o.name # "deinit"
        BY <1>0, <2>3, <4>2 DEF Call
      <4> QED BY <4>1, <4>2
    <3>3. TaskKept(t)'
      BY <1>0, <3>1, <3>2, <3>5 DEF TaskKept, InitPcs
    <3>4. \A u \in Tasks \ {t} : TaskKept(u)'
      BY <1>0, <1>O, <3>1, <3>2
    <3> QED BY <1>G, <1>S, <3>1, <3>3, <3>4
  <2> QED BY <2>1, <2>2, <2>3
<1>5. ASSUME NEW t \in Tasks, Locking(t) PROVE FilesKept'
  <2>1. SameFiles /\ UNCHANGED <<initialized, left>>
    BY <1>5 DEF Locking, TakeMutex, Give, flashVars, fileVars, ghostVars, SameFiles
  <2>2. \A u \in Tasks \ {t} : pc'[u] = pc[u] /\ op'[u] = op[u] /\ result'[u] = result[u]
    BY <1>0, <1>5 DEF Locking, TakeMutex, Give, Goto, Leave
  <2>3. TaskKept(t)'
    <3>1. CASE TakeMutex(t)
      <4>1. /\ pc[t] = "take" /\ UNCHANGED <<op, result>>
            /\ op[t].name = "deinit" => pc'[t] = "close"
            /\ op[t].name # "deinit" => pc'[t] \in {"io", "seek"}
        BY <1>0, <3>1 DEF TakeMutex, Goto
      <4>2. pc'[t] = "close" => \A f \in opened : \E i \in 1..Len(left[t]) : left[t][i] = f
        <5>1. ASSUME pc'[t] = "close" PROVE left[t] = CloseOrder
          BY <1>0, <4>1, <5>1 DEF TaskKept
        <5> QED BY <1>F, <5>1, OrderTypes
      <4> QED BY <1>0, <2>1, <4>1, <4>2 DEF TaskKept, SameFiles, InitPcs
    <3>2. CASE Give(t)
      BY <1>0, <2>1, <3>2 DEF Give, Goto, Leave, TaskKept, SameFiles, InitPcs
    <3> QED BY <1>5, <3>1, <3>2 DEF Locking
  <2>4. \A u \in Tasks \ {t} : TaskKept(u)'
    BY <1>O, <2>1, <2>2
  <2> QED BY <1>G, <1>S, <2>1, <2>3, <2>4
<1>6. ASSUME NEW t \in Tasks, Halt(t) PROVE FilesKept'
  BY <1>1, <1>6 DEF Halt, TakeDeleted, AssertFails, taskVars, flashVars, fileVars, ghostVars,
     SameFiles
<1>7. ASSUME NEW t \in Tasks, Initialize(t) PROVE FilesKept'
  <2>1. pc[t] \in InitPcs /\ ~initialized /\ \A u \in Tasks \ {t} : pc[u] = "idle"
    BY <1>0, <1>7 DEF Initialize, Mount, Format, FormatFails, Count, CountFails, SaveCount,
       SaveCountFails, OpenFile, OpenFails, InitSucceeds, InitPcs, InitAlone, TaskKept
  <2>2. \A u \in Tasks \ {t} : pc'[u] = "idle"
    BY <1>0, <1>7, <2>1 DEF Initialize, Mount, Format, FormatFails, Count, CountFails, SaveCount,
       SaveCountFails, OpenFile, OpenFails, InitSucceeds, InitFails, Leave, Goto
  <2>3. pc'[t] = "idle" \/ (pc'[t] \in InitPcs /\ UNCHANGED initialized)
    BY <1>0, <1>7 DEF Initialize, Mount, Format, FormatFails, Count, CountFails, SaveCount,
       SaveCountFails, OpenFile, OpenFails, InitSucceeds, InitFails, Leave, Goto, InitPcs
  <2>4. \A u \in Tasks : TaskKept(u)'
    BY <2>1, <2>2, <2>3 DEF TaskKept, InitPcs
  <2>5. CASE Mount(t)
    <3>1. opened' = {} /\ UNCHANGED <<disk, written, broken, initialized>>
      BY <2>5 DEF Mount, flashVars, ghostVars
    <3>2. ASSUME NEW f \in Files PROVE broken[f] \/ Saved(f)
      BY <1>0, <2>1 DEF AllKept, FileKept, KnownInRam, Saved, CleanAtRest
    <3>3. AllKept' /\ CleanAtRest'
      BY <3>1, <3>2 DEF AllKept, FileKept, Saved, CleanAtRest
    <3> QED BY <1>G, <2>4, <3>3
  <2>6. CASE OpenFile(t)
    <3> DEFINE g == Head(left[t])
    <3>1. g \in Files
      BY <1>0, <2>6 DEF OpenFile
    <3>2. /\ opened' = opened \cup {g} /\ UNCHANGED <<disk, initialized>>
          /\ view' = [view EXCEPT ![g] = disk[g]] /\ written' = [written EXCEPT ![g] = disk[g]]
          /\ dirty' = [dirty EXCEPT ![g] = FALSE] /\ erred' = [erred EXCEPT ![g] = FALSE]
          /\ broken' = [broken EXCEPT ![g] = FALSE]
      BY <2>6 DEF OpenFile, flashVars
    <3> HIDE DEF g
    <3>3. AllKept'
      BY <1>0, <1>F, <3>1, <3>2 DEF AllKept, FileKept, KnownInRam, Saved
    <3>4. CleanAtRest'
      BY <1>0, <1>F, <3>1, <3>2 DEF CleanAtRest
    <3> QED BY <1>G, <2>4, <3>3, <3>4
  <2>7. CASE Format(t) \/ FormatFails(t)
    <3>1. disk' = [f \in Files |-> Empty] /\ \A f \in Files : disk[f] = Empty
      BY <2>7 DEF Format, FormatFails, BlankBeforeFormat
    <3>2. SameFiles /\ UNCHANGED initialized
      BY <1>F, <2>7, <3>1 DEF Format, FormatFails, fileVars, ghostVars, SameFiles
    <3> QED BY <1>G, <1>S, <2>4, <3>2
  <2>8. CASE Count(t) \/ CountFails(t) \/ SaveCount(t) \/ SaveCountFails(t) \/ OpenFails(t)
    <3>1. SameFiles /\ UNCHANGED initialized
      BY <2>8 DEF Count, CountFails, SaveCount, SaveCountFails, OpenFails, flashVars, fileVars,
         ghostVars, SameFiles
    <3> QED BY <1>G, <1>S, <2>4, <3>1
  <2>9. CASE InitSucceeds(t)
    <3>1. SameFiles /\ initialized'
      BY <2>9 DEF InitSucceeds, flashVars, fileVars, SameFiles
    <3>2. CleanAtRest'
      BY <3>1 DEF CleanAtRest
    <3> QED BY <1>G, <1>S, <2>4, <3>1, <3>2
  <2> QED BY <1>7, <2>5, <2>6, <2>7, <2>8, <2>9 DEF Initialize
\* A step of t that holds the mutex, while a file is open
<1>8. ASSUME NEW t \in Tasks, pc[t] \in {"seek", "io", "close"}, opened # {},
             opened' \subseteq opened, UNCHANGED initialized,
             NEW u \in Tasks \ {t},
             pc'[u] = pc[u], op'[u] = op[u], left'[u] = left[u], result'[u] = result[u]
      PROVE  TaskKept(u)'
  <2>1. initialized /\ pc[u] \notin LockedPcs \cup {"delete", "clear"}
    BY <1>0, <1>8 DEF TaskKept, LockedIsOwner, LockedPcs, InitPcs
  <2> QED BY <1>0, <1>8, <2>1 DEF TaskKept, LockedPcs, InitPcs
<1>9. ASSUME NEW t \in Tasks, Access(t) PROVE FilesKept'
  <2> DEFINE f == op[t].file
  <2>1. /\ pc[t] \in {"seek", "io"} /\ f \in opened
        /\ UNCHANGED <<opened, initialized, left, op>>
    BY <1>9 DEF Access, Seek, SeekFails, Read, ReadFails, Write, WriteFails, Sync, SyncFails,
       Performs, fileVars
  <2>2. initialized /\ f \in Files
    BY <1>0, <1>F, <2>1 DEF TaskKept, InitPcs
  <2>3. \A u \in Tasks \ {t} : pc'[u] = pc[u] /\ result'[u] = result[u]
    BY <1>0, <1>9 DEF Access, Seek, SeekFails, Read, ReadFails, Write, WriteFails, Sync, SyncFails,
       Goto, Return
  <2>4. \A u \in Tasks \ {t} : TaskKept(u)'
    BY <1>8, <2>1, <2>3
  <2>5. CleanAtRest'
    BY <2>1, <2>2 DEF CleanAtRest
  <2>6. ASSUME pc'[t] = "io" \/ (pc'[t] = "give" /\ (op[t].name # "sync" \/ result'[t] = "failed"))
        PROVE  TaskKept(t)'
    <3>1. op[t].name \in {"write", "read", "sync"}
      BY <1>0, <2>1 DEF OpFits
    <3> QED BY <2>1, <2>2, <2>6, <3>1 DEF TaskKept, InitPcs
  <2> HIDE DEF f
  <2>7. CASE Seek(t) \/ Read(t)
    <3>1. SameFiles
      BY <2>7 DEF Seek, Read, flashVars, fileVars, ghostVars, SameFiles
    <3>2. TaskKept(t)'
      BY <1>0, <2>6, <2>7 DEF Seek, Read, Performs, Goto
    <3> QED BY <1>G, <1>S, <2>4, <2>5, <3>1, <3>2
  <2>8. CASE SeekFails(t) \/ ReadFails(t)
    <3>1. /\ UNCHANGED <<disk, opened, view, dirty, written>>
          /\ broken' = [broken EXCEPT ![f] = TRUE]
          /\ erred' = erred \/ erred' = [erred EXCEPT ![f] = TRUE]
      BY <2>8 DEF SeekFails, ReadFails, FlushFails, flashVars, f
    <3>2. AllKept'
      BY <1>0, <1>F, <2>1, <2>2, <3>1 DEF AllKept, FileKept, KnownInRam, Saved
    <3>3. TaskKept(t)'
      BY <1>0, <2>6, <2>8 DEF SeekFails, ReadFails, Performs, Goto, Return
    <3> QED BY <1>G, <2>4, <2>5, <3>2, <3>3
  <2>9. CASE Write(t) \/ WriteFails(t)
    <3>1. op[t].part \in Parts /\ op[t] \in Operations
      BY <1>0, <2>9, OperationFacts DEF Write, WriteFails, Performs, OpFits
    <3>2. /\ UNCHANGED <<disk, opened>>
          /\ \A g \in Files \ {f} :
               /\ view'[g] = view[g] /\ dirty'[g] = dirty[g] /\ erred'[g] = erred[g]
               /\ written'[g] = written[g] /\ broken'[g] = broken[g]
          /\ broken'[f] \/ (~erred'[f] /\ dirty'[f])
      BY <1>F, <2>2, <2>9 DEF Write, WriteFails, ErredAfterWrite, flashVars, f
    <3>3. KnownInRam(f)
      BY <1>0, <2>1, <2>2 DEF AllKept, FileKept
    <3>4. KnownInRam(f)'
      <4> DEFINE p == op[t].part
      <4>4. /\ view[f] \in [Parts -> Values \cup {Blank, Torn}]
            /\ written[f] \in [Parts -> Values \cup {Blank, Torn}]
        BY <1>F, <2>2 DEF Contents
      <4>5. \E v : /\ view'[f] = view[f] \/ view'[f] = [view[f] EXCEPT ![p] = v]
                   /\ \/ written'[f] = [written[f] EXCEPT ![p] = Torn]
                      \/ /\ view'[f] = [view[f] EXCEPT ![p] = v]
                         /\ written'[f] = [written[f] EXCEPT ![p] = v]
        <5>1. CASE Write(t)
          <6>1. /\ view' = [view EXCEPT ![f] = [view[f] EXCEPT ![p] = op[t].value]]
                /\ written' = [written EXCEPT ![f] = [written[f] EXCEPT ![p] = op[t].value]]
            BY <5>1 DEF Write, f
          <6> QED BY <1>F, <2>2, <6>1
        <5>2. CASE WriteFails(t)
          <6>1. /\ view' = view \/ view' = [view EXCEPT ![f] = [view[f] EXCEPT ![p] = Torn]]
                /\ written' = [written EXCEPT ![f] = [written[f] EXCEPT ![p] = Torn]]
            BY <5>2 DEF WriteFails, f
          <6> QED BY <1>F, <2>2, <6>1
        <5> QED BY <2>9, <5>1, <5>2
      <4>1. \A q \in Parts : q # p => view'[f][q] = view[f][q] /\ written'[f][q] = written[f][q]
        BY <4>4, <4>5
      <4>2. written'[f][p] \in {view'[f][p], Torn}
        BY <3>1, <4>4, <4>5
      <4>3. f' = f
        BY <2>1 DEF f
      <4> QED BY <3>3, <4>1, <4>2, <4>3 DEF KnownInRam
    <3>5. AllKept'
      <4>1. f' = f
        BY <2>1 DEF f
      <4> QED BY <1>0, <2>1, <3>2, <3>4, <4>1 DEF AllKept, FileKept, KnownInRam, Saved
    <3>6. TaskKept(t)'
      BY <1>0, <2>6, <2>9 DEF Write, WriteFails, Performs, Goto, Return
    <3> QED BY <1>G, <2>4, <2>5, <3>5, <3>6
  <2>10. CASE Sync(t)
    <3>1. /\ UNCHANGED <<opened, view, erred, written, broken>>
          /\ IF SkipsCommit(f)
             THEN UNCHANGED <<disk, dirty>>
             ELSE disk' = [disk EXCEPT ![f] = view[f]] /\ dirty' = [dirty EXCEPT ![f] = FALSE]
      BY <2>10 DEF Sync, ghostVars, f
    <3>2. AllKept'
      BY <1>0, <1>F, <2>1, <2>2, <3>1 DEF AllKept, FileKept, KnownInRam, Saved
    <3>3. broken'[f] \/ Saved(f)'
      <4>1. KnownInRam(f) /\ (broken[f] \/ (~erred[f] /\ (dirty[f] \/ view[f] = disk[f])))
        BY <1>0, <2>1, <2>2 DEF AllKept, FileKept
      <4>2. broken[f] \/ disk'[f] = view[f]
        BY <1>F, <2>2, <3>1, <4>1 DEF SkipsCommit
      <4>3. f' = f
        BY <2>1 DEF f
      <4> QED BY <3>1, <4>1, <4>2, <4>3 DEF KnownInRam, Saved
    <3>4. pc'[t] = "give" /\ op'[t].name = "sync" /\ op'[t].file = f
      BY <1>0, <2>10 DEF Sync, Performs, Goto, f
    <3>5. f' = f
      BY <2>1 DEF f
    <3>6. TaskKept(t)'
      BY <2>1, <2>2, <3>3, <3>4, <3>5 DEF TaskKept, InitPcs, Saved
    <3> QED BY <1>G, <2>4, <2>5, <3>2, <3>6
  <2>11. CASE SyncFails(t)
    <3>1. /\ UNCHANGED <<opened, view, dirty, written>>
          /\ disk' = disk \/ disk' = [disk EXCEPT ![f] = view[f]]
          /\ broken' = [broken EXCEPT ![f] = TRUE]
          /\ erred' = [erred EXCEPT ![f] = TRUE] \/ UNCHANGED erred
      BY <2>11 DEF SyncFails, CommitFails, f
    <3>2. AllKept'
      BY <1>0, <1>F, <2>1, <2>2, <3>1 DEF AllKept, FileKept, KnownInRam, Saved
    <3>3. TaskKept(t)'
      BY <1>0, <2>6, <2>11 DEF SyncFails, Performs, Goto, Return
    <3> QED BY <1>G, <2>4, <2>5, <3>2, <3>3
  <2> QED BY <1>9, <2>7, <2>8, <2>9, <2>10, <2>11 DEF Access
<1>10. ASSUME NEW t \in Tasks, CloseFile(t) \/ CloseFails(t) PROVE FilesKept'
  <2> DEFINE f == Head(left[t])
  <2>1. /\ pc[t] = "close" /\ left[t] # <<>> /\ f \in opened /\ opened' = opened \ {f}
        /\ view' = [view EXCEPT ![f] = Empty]
        /\ dirty' = [dirty EXCEPT ![f] = FALSE] /\ erred' = [erred EXCEPT ![f] = FALSE]
        /\ UNCHANGED <<initialized, op, written>>
        /\ \/ /\ CloseFile(t) /\ UNCHANGED <<pc, result, broken>>
              /\ left' = [left EXCEPT ![t] = Tail(left[t])]
              /\ disk' = IF SkipsCommit(f) THEN disk ELSE [disk EXCEPT ![f] = view[f]]
           \/ /\ pc' = [pc EXCEPT ![t] = "give"] /\ result' = [result EXCEPT ![t] = "failed"]
              /\ left' = [left EXCEPT ![t] = <<>>]
              /\ broken' = [broken EXCEPT ![f] = TRUE]
              /\ disk' = disk \/ disk' = [disk EXCEPT ![f] = view[f]]
    BY <1>10 DEF CloseFile, CloseFails, CommitFails, Forget, AfterCloseFails, Goto, Return, ghostVars
  <2>2. initialized /\ f \in Files /\ op[t].name = "deinit"
    BY <1>0, <1>F, <2>1 DEF TaskKept, InitPcs, OpFits
  <2>3. \A u \in Tasks \ {t} : TaskKept(u)'
    BY <1>0, <1>8, <2>1
  <2>4. CleanAtRest'
    BY <2>1, <2>2 DEF CleanAtRest
  <2>5. TaskKept(t)'
    <3>1. CASE pc' = [pc EXCEPT ![t] = "give"] /\ result' = [result EXCEPT ![t] = "failed"]
      BY <1>0, <2>1, <2>2, <3>1 DEF TaskKept, InitPcs
    <3>2. CASE UNCHANGED pc /\ left' = [left EXCEPT ![t] = Tail(left[t])]
      <4>1. ASSUME NEW g \in opened' PROVE \E i \in 1..Len(left'[t]) : left'[t][i] = g
        <5>1. PICK i \in 1..Len(left[t]) : left[t][i] = g
          BY <1>0, <2>1, <4>1 DEF TaskKept
        <5>2. i # 1
          BY <1>0, <2>1, <4>1, <5>1
        <5>3. left[t] \in Seq(Files) /\ left'[t] = Tail(left[t])
          BY <1>0, <3>2
        <5>4. i - 1 \in 1..Len(left'[t]) /\ left'[t][i - 1] = g
          BY <2>1, <5>1, <5>2, <5>3
        <5> QED BY <5>4
      <4> QED BY <2>1, <2>2, <3>2, <4>1 DEF TaskKept, InitPcs
    <3> QED BY <2>1, <3>1, <3>2
  <2> HIDE DEF f
  <2>6. KnownInRam(f) /\ (broken[f] \/ (~erred[f] /\ (dirty[f] \/ view[f] = disk[f])))
    BY <1>0, <2>1, <2>2 DEF AllKept, FileKept
  <2>7. /\ broken'[f] \/ disk'[f] = view[f]
        /\ \A g \in Files \ {f} : disk'[g] = disk[g] /\ broken'[g] = broken[g]
    BY <1>F, <2>1, <2>2, <2>6 DEF SkipsCommit
  <2>8. ASSUME NEW g \in Files PROVE FileKept(g)'
    <3>1. CASE g = f
      BY <2>1, <2>6, <2>7, <3>1 DEF FileKept, KnownInRam, Saved
    <3>2. CASE g # f
      <4>1. FileKept(g)
        BY <1>0 DEF AllKept
      <4> QED BY <1>F, <2>1, <2>7, <3>2, <4>1 DEF FileKept, KnownInRam, Saved
    <3> QED BY <3>1, <3>2
  <2>9. AllKept'
    BY <2>8 DEF AllKept
  <2> QED BY <1>G, <2>3, <2>4, <2>5, <2>9
<1>11. ASSUME NEW t \in Tasks, Unmount(t) \/ DeleteMutex(t) PROVE FilesKept'
  <2>1. SameFiles /\ UNCHANGED <<initialized, op, left, result>>
    BY <1>11 DEF Unmount, DeleteMutex, flashVars, fileVars, ghostVars, SameFiles
  <2>2. \A u \in Tasks \ {t} : TaskKept(u)'
    BY <1>0, <1>11, <1>O, <2>1 DEF Unmount, DeleteMutex, Goto
  <2>3. opened = {} /\ op[t].name = "deinit" /\ pc'[t] \in {"give", "clear"}
    <3>1. CASE Unmount(t)
      <4>1. left[t] = <<>> /\ pc[t] = "close" /\ pc'[t] = "give"
        BY <1>0, <3>1 DEF Unmount, Goto
      <4>2. 1..Len(left[t]) = {}
        BY <4>1
      <4> QED BY <1>0, <4>1, <4>2 DEF TaskKept, OpFits
    <3>2. CASE DeleteMutex(t)
      BY <1>0, <3>2 DEF DeleteMutex, Goto, TaskKept, OpFits
    <3> QED BY <1>11, <3>1, <3>2
  <2>4. TaskKept(t)'
    BY <2>1, <2>3 DEF TaskKept, SameFiles, InitPcs
  <2> QED BY <1>G, <1>S, <2>1, <2>2, <2>4
<1>12. ASSUME NEW t \in Tasks, ClearInitialized(t) PROVE FilesKept'
  <2>1. /\ pc[t] = "clear" /\ SameFiles /\ initialized' = FALSE
        /\ pc' = [pc EXCEPT ![t] = "idle"] /\ op' = [op EXCEPT ![t] = NoOp]
        /\ result' = [result EXCEPT ![t] = "none"] /\ UNCHANGED left
    BY <1>12 DEF ClearInitialized, Leave, Goto, flashVars, fileVars, ghostVars, SameFiles
  <2>2. opened = {} /\ opened' = {}
    BY <1>0, <2>1 DEF TaskKept, SameFiles
  <2>3. \A u \in Tasks : TaskKept(u)'
    BY <1>0, <2>1, <2>2 DEF TaskKept, SameFiles, Saved, InitPcs
  <2>4. CleanAtRest'
    BY <2>2 DEF CleanAtRest
  <2> QED BY <1>G, <1>S, <2>1, <2>3, <2>4
<1> QED
  BY <1>2, <1>3, <1>4, <1>5, <1>6, <1>7, <1>9, <1>10, <1>11, <1>12 DEF Next, Proceed, Deinitialize
-----------------------------------------------------------------------------
(* The theorems *)

LEMMA Invariance == Spec => []IInv
<1>1. Init => IInv
  BY TypeInit, DisciplineInit, CountsInit, BlankInit, FilesInit DEF IInv
<1>2. IInv /\ [Next]_vars => IInv'
  BY TypeStep, DisciplineStep, CountsStep, BlankStep, FilesStep DEF IInv
<1> QED BY <1>1, <1>2, PTL DEF Spec

\* Every variable keeps its type.
THEOREM TypeCorrect == Spec => []TypeOK
BY Invariance, PTL DEF IInv

\* One task at a time is inside littlefs, which has no lock of its own.
THEOREM LittlefsExclusive == Spec => []OneInLittlefs
<1>1. IInv => OneInLittlefs
  BY DEF IInv, LockDiscipline, InitAlone, LockedIsOwner, OneInLittlefs, InLittlefs, InitPcs, LockedPcs
<1> QED BY <1>1, Invariance, PTL

\* When sync() or deinit() reports success, flash holds what its callers wrote.
THEOREM SuccessMeansSaved == Spec => []NoneMeansSaved
BY Invariance, PTL DEF IInv, FilesKept

\* No two sessions have the same boot count.
THEOREM BootCountsDiffer == Spec => BootCountFresh
<1>1. ASSUME IInv, [Next]_vars, ~initialized, initialized'
      PROVE  \A c \in announced : bootCount' > c
  <2>1. PICK t \in Tasks : Enter(t) \/ Proceed(t)
    BY <1>1 DEF Next, Crash, vars
  <2>2. InitSucceeds(t)
    <3>1. ~Enter(t) /\ ~Locking(t) /\ ~Halt(t)
      BY <1>1 DEF Enter, Call, CallRefused, Locking, TakeMutex, Give, Halt, TakeDeleted, AssertFails
    <3>2. ~Access(t)
      BY <1>1 DEF Access, Seek, SeekFails, Read, ReadFails, Write, WriteFails, Sync, SyncFails
    <3>3. ~Deinitialize(t)
      BY <1>1 DEF Deinitialize, CloseFile, CloseFails, Unmount, DeleteMutex, ClearInitialized
    <3> QED
      BY <1>1, <2>1, <3>1, <3>2, <3>3 DEF Proceed, Initialize, Mount, Format, FormatFails, Count,
         CountFails, SaveCount, SaveCountFails, OpenFile, OpenFails
  <2> QED BY <1>1, <2>2 DEF IInv, CountsSaved, InitSucceeds, countVars
<1>2. IInv /\ [Next]_vars => [~initialized /\ initialized' => \A c \in announced : bootCount' > c]_vars
  BY <1>1
<1> QED BY <1>2, Invariance, PTL DEF Spec, BootCountFresh
-----------------------------------------------------------------------------
(* The refinement *)

StoreStep == [Store!Next]_<<disk, Current, Failed>>

LEMMA StoreStutter ==
  ASSUME UNCHANGED <<disk, opened, view, erred>> PROVE UNCHANGED <<disk, Current, Failed>>
BY DEF Current, Failed

\* The step of one file f: the maps of the others do not change.
OthersSame(f) ==
  \A g \in Files \ {f} : Current'[g] = Current[g] /\ Failed'[g] = Failed[g]

LEMMA OneFile ==
  ASSUME NEW f \in Files, OthersSame(f), NEW c, NEW b, Current'[f] = c, Failed'[f] = b
  PROVE  Current' = [Current EXCEPT ![f] = c] /\ Failed' = [Failed EXCEPT ![f] = b]
BY DEF Current, Failed, OthersSame

LEMMA StoreRefines ==
  ASSUME IInv, [Next]_vars PROVE StoreStep
<1> USE ConstantsAssumption
<1>0. /\ opened \subseteq Files /\ view \in [Files -> Contents] /\ disk \in [Files -> Contents]
      /\ erred \in [Files -> BOOLEAN] /\ dirty \in [Files -> BOOLEAN]
      /\ pc \in [Tasks -> PcValues] /\ left \in [Tasks -> Seq(Files)] /\ OpFits
  BY DEF IInv, TypeOK, LockDiscipline
<1>1. ASSUME UNCHANGED <<disk, opened, view, erred>> PROVE StoreStep
  BY <1>1, StoreStutter DEF StoreStep
<1>2. CASE UNCHANGED vars
  BY <1>1, <1>2 DEF vars, flashVars, fileVars
\* Everything is closed at once.
<1>3. ASSUME opened' = {}, UNCHANGED disk PROVE StoreStep
  <2>1. Current' = disk
    BY <1>0, <1>3 DEF Current
  <2>2. Failed' = [f \in Files |-> FALSE]
    BY <1>3 DEF Failed
  <2> QED BY <1>3, <2>1, <2>2 DEF StoreStep, Store!Next, Store!Restart
<1>4. CASE Crash
  BY <1>3, <1>4 DEF Crash, flashVars
<1>5. ASSUME NEW t \in Tasks, Enter(t) \/ Locking(t) \/ Halt(t) PROVE StoreStep
  BY <1>1, <1>5 DEF Enter, Locking, Halt, Call, CallRefused, TakeMutex, Give, TakeDeleted,
     AssertFails, flashVars, fileVars
<1>6. ASSUME NEW t \in Tasks, Initialize(t) PROVE StoreStep
  <2>1. CASE Mount(t)
    BY <1>3, <2>1 DEF Mount, flashVars
  <2>2. CASE Format(t) \/ FormatFails(t)
    <3>1. /\ disk' = [f \in Files |-> Empty] /\ \A f \in Files : disk[f] = Empty
          /\ UNCHANGED fileVars
      BY <2>2 DEF IInv, Format, FormatFails, BlankBeforeFormat
    <3>2. UNCHANGED disk
      BY <1>0, <3>1
    <3> QED BY <1>1, <3>1, <3>2 DEF fileVars
  <2>3. CASE OpenFile(t)
    <3> DEFINE f == Head(left[t])
    <3>1. f \in Files
      BY <1>0, <2>3 DEF OpenFile
    <3>2. /\ opened' = opened \cup {f} /\ UNCHANGED disk
          /\ view' = [view EXCEPT ![f] = disk[f]] /\ erred' = [erred EXCEPT ![f] = FALSE]
      BY <2>3 DEF OpenFile, flashVars
    <3> HIDE DEF f
    <3>3. OthersSame(f) /\ Current'[f] = disk[f] /\ Failed'[f] = FALSE
      BY <1>0, <3>1, <3>2 DEF OthersSame, Current, Failed
    <3>4. /\ Current' = [Current EXCEPT ![f] = disk'[f]]
          /\ Failed' = [Failed EXCEPT ![f] = FALSE]
      BY <3>1, <3>2, <3>3, OneFile
    <3> QED BY <3>1, <3>2, <3>4 DEF StoreStep, Store!Next, Store!Close
  <2>4. CASE \/ Count(t) \/ CountFails(t) \/ SaveCount(t) \/ SaveCountFails(t) \/ OpenFails(t)
             \/ InitSucceeds(t)
    BY <1>1, <2>4 DEF Count, CountFails, SaveCount, SaveCountFails, OpenFails, InitSucceeds,
       flashVars, fileVars
  <2> QED BY <1>6, <2>1, <2>2, <2>3, <2>4 DEF Initialize
<1>7. ASSUME NEW t \in Tasks, Access(t) PROVE StoreStep
  <2> DEFINE f == op[t].file
  <2>1. CASE Seek(t) \/ Read(t)
    BY <1>1, <2>1 DEF Seek, Read, flashVars, fileVars
  <2>2. CASE ~Seek(t) /\ ~Read(t)
    <3>1. f \in opened /\ f \in Files /\ UNCHANGED opened
      BY <1>0, <1>7, <2>2 DEF Access, SeekFails, ReadFails, Write, WriteFails, Sync, SyncFails,
         Performs
    <3> HIDE DEF f
    <3>2. CASE SeekFails(t) \/ ReadFails(t)
      <4>1. /\ UNCHANGED <<disk, view>> /\ (UNCHANGED erred \/ erred' = [erred EXCEPT ![f] = TRUE])
        BY <3>2 DEF SeekFails, ReadFails, FlushFails, flashVars, f
      <4>2. CASE erred' = [erred EXCEPT ![f] = TRUE]
        <5>1. UNCHANGED Current /\ OthersSame(f) /\ Failed'[f] = TRUE
          BY <1>0, <3>1, <4>1, <4>2 DEF Current, Failed, OthersSame
        <5>2. Failed' = [Failed EXCEPT ![f] = TRUE]
          BY <3>1, <5>1, OneFile
        <5> QED BY <3>1, <4>1, <5>1, <5>2 DEF StoreStep, Store!Next, Store!FailWrite
      <4> QED BY <1>1, <3>1, <4>1, <4>2
    <3>3. CASE Write(t) \/ WriteFails(t)
      <4> DEFINE p == op[t].part
                 v == op[t].value
      <4>1. p \in Parts /\ v \in Values
        <5>1. op[t].name = "write" /\ op[t] \in Operations
          BY <1>0, <3>3 DEF Write, WriteFails, Performs, OpFits
        <5> QED BY <5>1, OperationFacts
      <4>2. \/ /\ view' = [view EXCEPT ![f] = [view[f] EXCEPT ![p] = v]]
               /\ erred' = [erred EXCEPT ![f] = FALSE]
            \/ UNCHANGED <<view, erred>>
            \/ /\ UNCHANGED view \/ view' = [view EXCEPT ![f] = [view[f] EXCEPT ![p] = Torn]]
               /\ erred' = [erred EXCEPT ![f] = TRUE]
        BY <3>3 DEF Write, WriteFails, ErredAfterWrite, f
      <4>3. UNCHANGED disk /\ Current[f] = view[f]
        BY <3>1, <3>3 DEF Write, WriteFails, flashVars, Current
      <4> HIDE DEF p, v
      <4>4. CASE /\ view' = [view EXCEPT ![f] = [view[f] EXCEPT ![p] = v]]
                 /\ erred' = [erred EXCEPT ![f] = FALSE]
        <5>1. OthersSame(f) /\ Current'[f] = [view[f] EXCEPT ![p] = v] /\ Failed'[f] = FALSE
          BY <1>0, <3>1, <4>3, <4>4 DEF OthersSame, Current, Failed
        <5>2. /\ Current' = [Current EXCEPT ![f] = [Current[f] EXCEPT ![p] = v]]
              /\ Failed' = [Failed EXCEPT ![f] = FALSE]
          BY <3>1, <4>3, <5>1, OneFile
        <5> QED BY <3>1, <4>1, <4>3, <5>2 DEF StoreStep, Store!Next, Store!Write
      <4>5. CASE UNCHANGED <<view, erred>>
        BY <1>1, <3>1, <4>3, <4>5
      <4>6. CASE UNCHANGED view /\ erred' = [erred EXCEPT ![f] = TRUE]
        <5>1. UNCHANGED Current /\ OthersSame(f) /\ Failed'[f] = TRUE
          BY <1>0, <3>1, <4>3, <4>6 DEF Current, Failed, OthersSame
        <5>2. Failed' = [Failed EXCEPT ![f] = TRUE]
          BY <3>1, <5>1, OneFile
        <5> QED BY <3>1, <4>3, <5>1, <5>2 DEF StoreStep, Store!Next, Store!FailWrite
      <4>7. CASE /\ view' = [view EXCEPT ![f] = [view[f] EXCEPT ![p] = Torn]]
                 /\ erred' = [erred EXCEPT ![f] = TRUE]
        <5>1. OthersSame(f) /\ Current'[f] = [view[f] EXCEPT ![p] = Torn] /\ Failed'[f] = TRUE
          BY <1>0, <3>1, <4>3, <4>7 DEF OthersSame, Current, Failed
        <5>2. /\ Current' = [Current EXCEPT ![f] = [Current[f] EXCEPT ![p] = Torn]]
              /\ Failed' = [Failed EXCEPT ![f] = TRUE]
          BY <3>1, <4>3, <5>1, OneFile
        <5> QED BY <3>1, <4>1, <4>3, <5>2 DEF StoreStep, Store!Next, Store!FailWrite
      <4> QED BY <4>2, <4>4, <4>5, <4>6, <4>7
    <3>4. CASE Sync(t)
      <4>1. CASE SkipsCommit(f)
        <5>1. UNCHANGED <<disk, opened, view, erred>>
          BY <3>4, <4>1 DEF Sync, f
        <5> QED BY <1>1, <5>1
      <4>2. CASE ~SkipsCommit(f)
        <5>1. disk' = [disk EXCEPT ![f] = view[f]] /\ UNCHANGED <<view, erred>> /\ ~erred[f]
          BY <3>4, <4>2 DEF Sync, SkipsCommit, f
        <5>2. UNCHANGED <<Current, Failed>> /\ ~Failed[f] /\ Current[f] = view[f]
          BY <1>0, <3>1, <5>1 DEF Current, Failed
        <5> QED BY <3>1, <5>1, <5>2 DEF StoreStep, Store!Next, Store!Save
      <4> QED BY <4>1, <4>2
    <3>5. CASE SyncFails(t)
      <4> SUFFICES ASSUME ~UNCHANGED <<disk, erred>> PROVE StoreStep
        BY <1>1, <3>1, <3>5 DEF SyncFails
      <4>1. /\ disk' = disk \/ disk' = [disk EXCEPT ![f] = view[f]]
            /\ erred' = [erred EXCEPT ![f] = TRUE] /\ UNCHANGED view /\ ~erred[f]
        BY <3>5 DEF SyncFails, CommitFails, SkipsCommit, f
      <4>2. /\ UNCHANGED Current /\ ~Failed[f] /\ Current[f] = view[f]
            /\ OthersSame(f) /\ Failed'[f] = TRUE
        BY <1>0, <3>1, <4>1 DEF Current, Failed, OthersSame
      <4>3. Failed' = [Failed EXCEPT ![f] = TRUE]
        BY <3>1, <4>2, OneFile
      <4> QED BY <3>1, <4>1, <4>2, <4>3 DEF StoreStep, Store!Next, Store!FailSave
    <3> QED BY <1>7, <2>2, <3>2, <3>3, <3>4, <3>5 DEF Access
  <2> QED BY <2>1, <2>2
<1>8. ASSUME NEW t \in Tasks, CloseFile(t) \/ CloseFails(t) PROVE StoreStep
  <2> DEFINE f == Head(left[t])
  <2>1. /\ f \in opened /\ opened' = opened \ {f} /\ view' = [view EXCEPT ![f] = Empty]
        /\ erred' = [erred EXCEPT ![f] = FALSE]
        /\ disk' = disk \/ (~erred[f] /\ disk' = [disk EXCEPT ![f] = view[f]])
    BY <1>8 DEF CloseFile, CloseFails, CommitFails, SkipsCommit, Forget
  <2> HIDE DEF f
  <2>2. f \in Files
    BY <1>0, <2>1
  <2>3. /\ disk' = disk \/ (~Failed[f] /\ disk' = [disk EXCEPT ![f] = Current[f]])
        /\ OthersSame(f) /\ Current'[f] = disk'[f] /\ Failed'[f] = FALSE
    BY <1>0, <2>1, <2>2 DEF Current, Failed, OthersSame
  <2>4. Current' = [Current EXCEPT ![f] = disk'[f]] /\ Failed' = [Failed EXCEPT ![f] = FALSE]
    BY <2>2, <2>3, OneFile
  <2> QED BY <2>2, <2>3, <2>4 DEF StoreStep, Store!Next, Store!Close
<1>9. ASSUME NEW t \in Tasks, Unmount(t) \/ DeleteMutex(t) \/ ClearInitialized(t) PROVE StoreStep
  BY <1>1, <1>9 DEF Unmount, DeleteMutex, ClearInitialized, flashVars, fileVars
<1> QED
  BY <1>2, <1>4, <1>5, <1>6, <1>7, <1>8, <1>9 DEF Next, Proceed, Deinitialize

\* The driver implements files that are saved as a whole.
THEOREM StoreImplemented == Spec => ImplementsStore
<1>1. Init => Store!Init
  BY DEF Init, PoweredUp, Store!Init, Current, Failed, Empty, Store!Empty
<1>2. IInv /\ [Next]_vars => StoreStep
  BY StoreRefines
<1> QED BY <1>1, <1>2, Invariance, PTL DEF Spec, ImplementsStore, Store!Spec, StoreStep
=============================================================================
