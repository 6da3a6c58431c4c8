----------------------------- MODULE FileStore ------------------------------
(***************************************************************************)
(* The file driver, namespace file of components/drivers/src/file.cpp, on  *)
(* top of littlefs (components/littlefs/lfs.c).                            *)
(*                                                                         *)
(* Tasks call init(), deinit(), write(), read() and sync().  init() mounts *)
(* the partition, or formats it on the first boot, increments the boot     *)
(* counter and opens the three files.  Every other operation runs under a  *)
(* mutex.  A step is one littlefs or FreeRTOS call, so that a reset can    *)
(* fall between any two of them, and a flash operation can fail in each.   *)
(*                                                                         *)
(* littlefs commits metadata atomically, so a file changes on flash only   *)
(* as a whole.  A file is a function from its parts (byte ranges) to the   *)
(* data last written there.                                                *)
(***************************************************************************)
EXTENDS Integers, Sequences

CONSTANTS
  Tasks,       \* the FreeRTOS tasks that use the files
  NoTask,      \* no holder of the mutex
  Parts,       \* the byte ranges of a file that are written as one
  Values,      \* the data written
  Blank, Torn, \* a part that was never written; one that a failed write left half done
  Workload,    \* the operations the tasks call
  MaxCalls,    \* bound: calls made by one task between two resets
  MaxFaults,   \* bound: flash operations that fail
  MaxCrashes   \* bound: resets

Files == {"PASSWORD", "PNUMBERS", "ASCON_SEED"}   \* name_t, but for COUNTER

Op(name, file, part, value) == [name |-> name, file |-> file, part |-> part, value |-> value]
Plain(name) == Op(name, "COUNTER", "none", Blank)
NoOp == Plain("none")
InitOp == Plain("init")
DeinitOp == Plain("deinit")
\* COUNTER is a name_t too, but not one to write, read or sync.
BadOp == Plain("sync")
WriteOp(f, p, v) == Op("write", f, p, v)
ReadOp(f) == Op("read", f, "none", Blank)
SyncOp(f) == Op("sync", f, "none", Blank)

Operations ==
  {InitOp, DeinitOp, BadOp}
    \cup {WriteOp(f, p, v) : f \in Files, p \in Parts, v \in Values}
    \cup {ReadOp(f) : f \in Files} \cup {SyncOp(f) : f \in Files}

ASSUME ConstantsAssumption ==
  /\ NoTask \notin Tasks
  /\ Blank \notin Values /\ Torn \notin Values /\ Blank # Torn
  /\ Workload \subseteq Operations
  /\ MaxCalls \in Nat /\ MaxFaults \in Nat /\ MaxCrashes \in Nat

Contents == [Parts -> Values \cup {Blank, Torn}]
Empty == [p \in Parts |-> Blank]

\* The order in which init() opens the files, and deinit() closes them.
OpenOrder == <<"PNUMBERS", "PASSWORD", "ASCON_SEED">>
CloseOrder == <<"PASSWORD", "PNUMBERS", "ASCON_SEED">>

NoCount == -1   \* the counter file is empty

Results == {"none", "NONE", "failed"}   \* every error code is "failed"
-----------------------------------------------------------------------------
(* State *)

VARIABLES
  formatted,   \* flash: the partition holds a file system
  disk,        \* flash: the committed content of each file
  savedCount,  \* flash: the committed boot counter, or NoCount
  initialized, \* g_is_initialized
  mutexExists, \* g_task_mutex has been created and not deleted
  mutexOwner,  \* its holder
  bootCount,   \* g_boot_cycle_counter
  firstBoot,   \* first_boot, a local of init()
  opened,      \* the files in the list of open files of littlefs
  view,        \* the content of each open file as a reader sees it
  dirty,       \* it differs from what is committed: LFS_F_DIRTY or LFS_F_WRITING
  erred,       \* LFS_F_ERRED
  pc,          \* where each task is
  op,          \* the operation it executes
  left,        \* init() and deinit(): the files left to open or close
  result,      \* what it is about to return, or "none"
  calls,       \* how many calls it has made since the last reset
  written,     \* ghost: what the callers know each file holds, Torn if they cannot
  broken,      \* ghost: they saw an operation on the file fail, and no write succeed since
  announced,   \* ghost: the boot counts of the sessions so far
  faults,      \* how many flash operations have failed
  crashes,     \* how many resets there were
  halted       \* an assertion failed, or a deleted mutex was used

flashVars == <<formatted, disk, savedCount>>
mutexVars == <<mutexExists, mutexOwner>>
countVars == <<bootCount, firstBoot>>
fileVars == <<opened, view, dirty, erred>>
taskVars == <<pc, op, left, result, calls>>
ghostVars == <<written, broken, announced>>
runVars == <<faults, crashes, halted>>
vars ==
  <<flashVars, initialized, mutexVars, countVars, fileVars, taskVars, ghostVars, runVars>>

PcValues ==
  {"idle", "mount", "format", "count", "save", "open", "ready", "take", "seek", "io",
   "close", "give", "delete", "clear"}

\* What the startup code leaves in RAM.
PoweredUp ==
  /\ initialized = FALSE
  /\ mutexExists = FALSE /\ mutexOwner = NoTask
  /\ bootCount = 0 /\ firstBoot = FALSE
  /\ opened = {}
  /\ view = [f \in Files |-> Empty]
  /\ dirty = [f \in Files |-> FALSE]
  /\ erred = [f \in Files |-> FALSE]
  /\ pc = [t \in Tasks |-> "idle"]
  /\ op = [t \in Tasks |-> NoOp]
  /\ left = [t \in Tasks |-> <<>>]
  /\ result = [t \in Tasks |-> "none"]
  /\ calls = [t \in Tasks |-> 0]
  /\ halted = FALSE

\* A device fresh from the programmer.
Init ==
  /\ PoweredUp
  /\ formatted = FALSE
  /\ disk = [f \in Files |-> Empty]
  /\ savedCount = NoCount
  /\ written = [f \in Files |-> Empty]
  /\ broken = [f \in Files |-> FALSE]
  /\ announced = {}
  /\ faults = 0 /\ crashes = 0

Goto(t, label) == pc' = [pc EXCEPT ![t] = label]
Leave(t) ==
  Goto(t, "idle") /\ op' = [op EXCEPT ![t] = NoOp] /\ result' = [result EXCEPT ![t] = "none"]
Return(t, res) == result' = [result EXCEPT ![t] = res]

\* A flash operation fails.
Fault == faults < MaxFaults /\ faults' = faults + 1 /\ UNCHANGED <<crashes, halted>>
-----------------------------------------------------------------------------
(* Entering and leaving an operation *)

\* The header documents init() and deinit() as not thread safe.  init() runs
\* alone.  deinit() takes the mutex to wait for the other tasks, as its comment
\* says, so it may be called while they are inside the driver.
MayCall(t, o) ==
  \A u \in Tasks \ {t} : pc[u] = "idle" \/ "init" \notin {o.name, op[u].name}

\* The checks every operation makes before it touches anything shared.
Refused(o) == initialized = (o.name = "init") \/ o = BadOp

CallRefused(t, o) ==
  /\ pc[t] = "idle" /\ calls[t] < MaxCalls /\ MayCall(t, o)
  /\ Refused(o)
  /\ calls' = [calls EXCEPT ![t] = @ + 1]
  /\ UNCHANGED <<flashVars, initialized, mutexVars, countVars, fileVars, pc, op, left,
                 result, ghostVars, runVars>>

Call(t, o) ==
  /\ pc[t] = "idle" /\ calls[t] < MaxCalls /\ MayCall(t, o)
  /\ ~Refused(o)
  /\ op' = [op EXCEPT ![t] = o]
  /\ calls' = [calls EXCEPT ![t] = @ + 1]
  /\ left' = [left EXCEPT ![t] =
       CASE o.name = "init" -> OpenOrder [] o.name = "deinit" -> CloseOrder [] OTHER -> <<>>]
  /\ Goto(t, IF o.name = "init" THEN "mount" ELSE "take")
  /\ UNCHANGED <<flashVars, initialized, mutexVars, countVars, fileVars, result, ghostVars,
                 runVars>>

\* Mutant: the mutex keeps nobody out.
MutexFree_Ignored == mutexExists
MutexFree == mutexExists /\ mutexOwner = NoTask

\* xSemaphoreTake(g_task_mutex, portMAX_DELAY) in scoped_mutex_t
TakeMutex(t) ==
  /\ pc[t] = "take" /\ MutexFree
  /\ mutexOwner' = t
  /\ Goto(t, CASE op[t].name = "deinit" -> "close"
              [] op[t].name = "sync" -> "io"
              [] OTHER -> "seek")
  /\ UNCHANGED <<flashVars, initialized, mutexExists, countVars, fileVars, op, left, result, calls,
                 ghostVars, runVars>>

\* The task passed the check of g_is_initialized, but deinit() has deleted the
\* mutex since.  Nothing is defined any more.
TakeDeleted(t) ==
  /\ pc[t] = "take" /\ ~mutexExists
  /\ halted' = TRUE
  /\ UNCHANGED <<flashVars, initialized, mutexVars, countVars, fileVars, taskVars, ghostVars,
                 faults, crashes>>

\* ~scoped_mutex_t().  A deinit() that closed every file goes on.
Give(t) ==
  /\ pc[t] = "give"
  /\ mutexOwner' = NoTask
  /\ IF op[t].name = "deinit" /\ result[t] = "none"
     THEN Goto(t, "delete") /\ UNCHANGED <<op, result>>
     ELSE Leave(t)
  /\ UNCHANGED <<flashVars, initialized, mutexExists, countVars, fileVars, left, calls, ghostVars,
                 runVars>>

\* LFS_ASSERT(lfs_mlist_isopen(...)), which every littlefs call on a file makes:
\* deinit() has closed the file.  A build without assertions goes on with a
\* file that is not in the list, and nothing is defined any more either.
AssertFails(t) ==
  /\ \/ pc[t] \in {"seek", "io"} /\ op[t].file \notin opened
     \/ pc[t] = "close" /\ left[t] # <<>> /\ Head(left[t]) \notin opened
  /\ halted' = TRUE
  /\ UNCHANGED <<flashVars, initialized, mutexVars, countVars, fileVars, taskVars, ghostVars,
                 faults, crashes>>
-----------------------------------------------------------------------------
(* init() *)

\* It creates the mutex and mounts the partition, which starts with no file
\* open.  That littlefs mounts whatever it formatted, a power failure in
\* between or not, is what it promises.
Mount(t) ==
  /\ pc[t] = "mount"
  /\ mutexExists' = TRUE /\ mutexOwner' = NoTask
  /\ firstBoot' = FALSE
  /\ opened' = {}
  /\ Goto(t, IF formatted THEN "count" ELSE "format")
  /\ UNCHANGED <<flashVars, initialized, bootCount, view, dirty, erred, op, left, result, calls,
                 ghostVars, runVars>>

\* lfs_format() and the second lfs_mount()
Format(t) ==
  /\ pc[t] = "format"
  /\ formatted' = TRUE
  /\ disk' = [f \in Files |-> Empty] /\ savedCount' = NoCount
  /\ firstBoot' = TRUE
  /\ Goto(t, "count")
  /\ UNCHANGED <<initialized, mutexVars, bootCount, fileVars, op, left, result, calls, ghostVars,
                 runVars>>

InitFails(t) ==
  /\ Fault
  /\ left' = [left EXCEPT ![t] = <<>>]
  /\ Leave(t)

\* lfs_format() commits twice, so one that fails may have made the partition
\* mountable; when the mount after it fails, it has.
FormatFails(t) ==
  /\ pc[t] = "format"
  /\ formatted' \in BOOLEAN
  /\ disk' = [f \in Files |-> Empty] /\ savedCount' = NoCount
  /\ InitFails(t)
  /\ UNCHANGED <<initialized, mutexVars, countVars, fileVars, calls, ghostVars>>

\* Mutant: the counter is not incremented.
NextCount_Same == IF savedCount = NoCount THEN bootCount ELSE savedCount

\* Mutant: the counter file is never found empty.
NextCount_NeverEmpty == IF firstBoot THEN savedCount ELSE savedCount + 1

\* The counter as read, which leaves g_boot_cycle_counter alone when the file
\* is empty, and incremented unless this init() has formatted the partition.
NextCount ==
  LET read == IF savedCount = NoCount THEN bootCount ELSE savedCount
  IN IF firstBoot THEN read ELSE read + 1

\* Open, read and rewind the counter file.
Count(t) ==
  /\ pc[t] = "count"
  /\ bootCount' = NextCount
  /\ Goto(t, "save")
  /\ UNCHANGED <<flashVars, initialized, mutexVars, firstBoot, fileVars, op, left, result, calls,
                 ghostVars, runVars>>

CountFails(t) ==
  /\ pc[t] = "count"
  /\ InitFails(t)
  /\ UNCHANGED <<flashVars, initialized, mutexVars, countVars, fileVars, calls, ghostVars>>

\* Write the counter file and close it.
SaveCount(t) ==
  /\ pc[t] = "save"
  /\ savedCount' = bootCount
  /\ Goto(t, "open")
  /\ UNCHANGED <<formatted, disk, initialized, mutexVars, countVars, fileVars, op, left, result,
                 calls, ghostVars, runVars>>

\* A commit that reports a failure may have reached the flash.
SaveCountFails(t) ==
  /\ pc[t] = "save"
  /\ UNCHANGED savedCount \/ savedCount' = bootCount
  /\ InitFails(t)
  /\ UNCHANGED <<formatted, disk, initialized, mutexVars, countVars, fileVars, calls,
                 ghostVars>>

\* lfs_file_opencfg() loads the committed content.
OpenFile(t) ==
  /\ pc[t] = "open" /\ left[t] # <<>>
  /\ LET f == Head(left[t])
     IN /\ opened' = opened \cup {f}
        /\ view' = [view EXCEPT ![f] = disk[f]]
        /\ dirty' = [dirty EXCEPT ![f] = FALSE]
        /\ erred' = [erred EXCEPT ![f] = FALSE]
        /\ written' = [written EXCEPT ![f] = disk[f]]
        /\ broken' = [broken EXCEPT ![f] = FALSE]
  /\ left' = [left EXCEPT ![t] = Tail(@)]
  /\ UNCHANGED <<flashVars, initialized, mutexVars, countVars, pc, op, result, calls, announced,
                 runVars>>

OpenFails(t) ==
  /\ pc[t] = "open" /\ left[t] # <<>>
  /\ InitFails(t)
  /\ UNCHANGED <<flashVars, initialized, mutexVars, countVars, fileVars, calls, ghostVars>>

InitSucceeds(t) ==
  /\ pc[t] = "open" /\ left[t] = <<>>
  /\ initialized' = TRUE
  /\ announced' = announced \cup {bootCount}
  /\ Leave(t)
  /\ UNCHANGED <<flashVars, mutexVars, countVars, fileVars, left, calls, written, broken,
                 runVars>>
-----------------------------------------------------------------------------
(* write(), read() and sync() *)

\* lfs_file_seek()
Seek(t) ==
  /\ pc[t] = "seek" /\ op[t].file \in opened
  /\ Goto(t, "io")
  /\ UNCHANGED <<flashVars, initialized, mutexVars, countVars, fileVars, op, left, result, calls,
                 ghostVars, runVars>>

\* The file cannot flush what was written to it before; that sets LFS_F_ERRED
\* when the failure was in writing.
FlushFails(f) ==
  /\ Fault
  /\ UNCHANGED erred \/ (dirty[f] /\ erred' = [erred EXCEPT ![f] = TRUE])
  /\ broken' = [broken EXCEPT ![f] = TRUE]

\* It refuses the offset, or the flush before it fails.
SeekFails(t) ==
  /\ pc[t] = "seek" /\ op[t].file \in opened
  /\ FlushFails(op[t].file)
  /\ Return(t, "failed")
  /\ Goto(t, "give")
  /\ UNCHANGED <<flashVars, initialized, mutexVars, countVars, opened, view, dirty, op, left, calls,
                 written, announced>>

Performs(t, name) == pc[t] = "io" /\ op[t].name = name /\ op[t].file \in opened

\* Mutant: a write that succeeds leaves the mark of an earlier failure.
ErredAfterWrite_Kept(f) == erred[f]
ErredAfterWrite(f) == FALSE

\* lfs_file_write()
Write(t) ==
  /\ Performs(t, "write")
  /\ LET f == op[t].file
         p == op[t].part
     IN /\ view' = [view EXCEPT ![f][p] = op[t].value]
        /\ dirty' = [dirty EXCEPT ![f] = TRUE]
        /\ erred' = [erred EXCEPT ![f] = ErredAfterWrite(f)]
        /\ written' = [written EXCEPT ![f][p] = op[t].value]
        /\ broken' = [broken EXCEPT ![f] = FALSE]
  /\ Return(t, "NONE")
  /\ Goto(t, "give")
  /\ UNCHANGED <<flashVars, initialized, mutexVars, countVars, opened, op, left, calls, announced,
                 runVars>>

\* It can stop halfway, and marks the file; or it refuses a file that would
\* grow too large, and leaves it as it is.
WriteFails(t) ==
  /\ Performs(t, "write")
  /\ Fault
  /\ LET f == op[t].file
         p == op[t].part
     IN /\ \/ UNCHANGED <<view, dirty, erred>>
           \/ /\ \/ UNCHANGED <<view, dirty>>
                 \/ /\ view' = [view EXCEPT ![f][p] = Torn]
                    /\ dirty' = [dirty EXCEPT ![f] = TRUE]
              /\ erred' = [erred EXCEPT ![f] = TRUE]
        /\ written' = [written EXCEPT ![f][p] = Torn]
        /\ broken' = [broken EXCEPT ![f] = TRUE]
  /\ Return(t, "failed")
  /\ Goto(t, "give")
  /\ UNCHANGED <<flashVars, initialized, mutexVars, countVars, opened, op, left, calls, announced>>

\* lfs_file_read()
Read(t) ==
  /\ Performs(t, "read")
  /\ Return(t, "NONE")
  /\ Goto(t, "give")
  /\ UNCHANGED <<flashVars, initialized, mutexVars, countVars, fileVars, op, left, calls,
                 ghostVars, runVars>>

ReadFails(t) ==
  /\ Performs(t, "read")
  /\ FlushFails(op[t].file)
  /\ Return(t, "failed")
  /\ Goto(t, "give")
  /\ UNCHANGED <<flashVars, initialized, mutexVars, countVars, opened, view, dirty, op, left, calls,
                 written, announced>>

\* Mutant: lfs_file_sync_() does not look at LFS_F_ERRED.
SkipsCommit_IfClean(f) == ~dirty[f]

\* lfs_file_sync_() does nothing, successfully, for a file marked LFS_F_ERRED.
SkipsCommit(f) == erred[f] \/ ~dirty[f]

\* lfs_file_sync()
Sync(t) ==
  /\ Performs(t, "sync")
  /\ LET f == op[t].file
     IN IF SkipsCommit(f)
        THEN UNCHANGED <<disk, dirty>>
        ELSE /\ disk' = [disk EXCEPT ![f] = view[f]]
             /\ dirty' = [dirty EXCEPT ![f] = FALSE]
  /\ Return(t, "NONE")
  /\ Goto(t, "give")
  /\ UNCHANGED <<formatted, savedCount, initialized, mutexVars, countVars, opened, view, erred, op,
                 left, calls, ghostVars, runVars>>

\* The commit of f reports a failure, and may have reached the flash.
CommitFails(f) ==
  /\ ~SkipsCommit(f)
  /\ Fault
  /\ UNCHANGED disk \/ disk' = [disk EXCEPT ![f] = view[f]]
  /\ broken' = [broken EXCEPT ![f] = TRUE]

\* The flush or the commit fails and marks the file; or the data cannot be
\* synchronised before the commit, and littlefs returns without a mark.
SyncFails(t) ==
  /\ Performs(t, "sync")
  /\ CommitFails(op[t].file)
  /\ \/ erred' = [erred EXCEPT ![op[t].file] = TRUE]
     \/ UNCHANGED <<disk, erred>>
  /\ Return(t, "failed")
  /\ Goto(t, "give")
  /\ UNCHANGED <<formatted, savedCount, initialized, mutexVars, countVars, opened, view, dirty, op,
                 left, calls, written, announced>>
-----------------------------------------------------------------------------
(* deinit() *)

\* lfs_file_close() syncs the file and forgets it, whatever the sync returned.
Forget(f) ==
  /\ opened' = opened \ {f}
  /\ view' = [view EXCEPT ![f] = Empty]
  /\ dirty' = [dirty EXCEPT ![f] = FALSE]
  /\ erred' = [erred EXCEPT ![f] = FALSE]

CloseFile(t) ==
  /\ pc[t] = "close" /\ left[t] # <<>>
  /\ LET f == Head(left[t])
     IN /\ f \in opened
        /\ disk' = IF SkipsCommit(f) THEN disk ELSE [disk EXCEPT ![f] = view[f]]
        /\ Forget(f)
  /\ left' = [left EXCEPT ![t] = Tail(@)]
  /\ UNCHANGED <<formatted, savedCount, initialized, mutexVars, countVars, pc, op, result, calls,
                 ghostVars, runVars>>

\* Mutant: the early return keeps the mutex.
AfterCloseFails_Idle == "idle"
AfterCloseFails == "give"

\* deinit() returns at once, with g_is_initialized set and some files closed.
CloseFails(t) ==
  /\ pc[t] = "close" /\ left[t] # <<>>
  /\ LET f == Head(left[t])
     IN f \in opened /\ CommitFails(f) /\ Forget(f)
  /\ left' = [left EXCEPT ![t] = <<>>]
  /\ Return(t, "failed")
  /\ Goto(t, AfterCloseFails)
  /\ UNCHANGED <<formatted, savedCount, initialized, mutexVars, countVars, op, calls, written,
                 announced>>

\* lfs_unmount()
Unmount(t) ==
  /\ pc[t] = "close" /\ left[t] = <<>>
  /\ Goto(t, "give")
  /\ UNCHANGED <<flashVars, initialized, mutexVars, countVars, fileVars, op, left, result, calls,
                 ghostVars, runVars>>

\* The mutex is given (Give) before it is deleted.
DeleteMutex(t) ==
  /\ pc[t] = "delete"
  /\ mutexExists' = FALSE
  /\ Goto(t, "clear")
  /\ UNCHANGED <<flashVars, initialized, mutexOwner, countVars, fileVars, op, left, result, calls,
                 ghostVars, runVars>>

ClearInitialized(t) ==
  /\ pc[t] = "clear"
  /\ initialized' = FALSE
  /\ Leave(t)
  /\ UNCHANGED <<flashVars, mutexVars, countVars, fileVars, left, calls, ghostVars, runVars>>
-----------------------------------------------------------------------------
\* A reset or a power failure: the flash keeps what is committed.
Crash ==
  /\ crashes < MaxCrashes
  /\ crashes' = crashes + 1
  /\ initialized' = FALSE
  /\ mutexExists' = FALSE /\ mutexOwner' = NoTask
  /\ bootCount' = 0 /\ firstBoot' = FALSE
  /\ opened' = {}
  /\ view' = [f \in Files |-> Empty]
  /\ dirty' = [f \in Files |-> FALSE]
  /\ erred' = [f \in Files |-> FALSE]
  /\ pc' = [t \in Tasks |-> "idle"]
  /\ op' = [t \in Tasks |-> NoOp]
  /\ left' = [t \in Tasks |-> <<>>]
  /\ result' = [t \in Tasks |-> "none"]
  /\ calls' = [t \in Tasks |-> 0]
  /\ halted' = FALSE
  /\ written' = disk
  /\ broken' = [f \in Files |-> FALSE]
  /\ UNCHANGED <<flashVars, announced, faults>>
-----------------------------------------------------------------------------
Enter(t) == \E o \in Workload : Call(t, o) \/ CallRefused(t, o)

Locking(t) == TakeMutex(t) \/ Give(t)

\* Nothing is defined after these.
Halt(t) == TakeDeleted(t) \/ AssertFails(t)

Initialize(t) ==
  \/ Mount(t) \/ Format(t) \/ FormatFails(t)
  \/ Count(t) \/ CountFails(t) \/ SaveCount(t) \/ SaveCountFails(t)
  \/ OpenFile(t) \/ OpenFails(t) \/ InitSucceeds(t)

Access(t) ==
  \/ Seek(t) \/ SeekFails(t) \/ Read(t) \/ ReadFails(t)
  \/ Write(t) \/ WriteFails(t) \/ Sync(t) \/ SyncFails(t)

Deinitialize(t) ==
  \/ CloseFile(t) \/ CloseFails(t) \/ Unmount(t) \/ DeleteMutex(t) \/ ClearInitialized(t)

Proceed(t) == Locking(t) \/ Halt(t) \/ Initialize(t) \/ Access(t) \/ Deinitialize(t)

Next ==
  \/ ~halted /\ \E t \in Tasks : Enter(t) \/ Proceed(t)
  \/ Crash

Spec == Init /\ [][Next]_vars

\* The scheduler runs every task that is ready.
FairSpec == Spec /\ \A t \in Tasks : WF_vars(~halted /\ Proceed(t))
-----------------------------------------------------------------------------
(* Properties *)

TypeOK ==
  /\ formatted \in BOOLEAN
  /\ disk \in [Files -> Contents]
  /\ savedCount \in Nat \cup {NoCount}
  /\ initialized \in BOOLEAN
  /\ mutexExists \in BOOLEAN /\ mutexOwner \in Tasks \cup {NoTask}
  /\ bootCount \in Nat /\ firstBoot \in BOOLEAN
  /\ opened \subseteq Files
  /\ view \in [Files -> Contents]
  /\ dirty \in [Files -> BOOLEAN] /\ erred \in [Files -> BOOLEAN]
  /\ pc \in [Tasks -> PcValues]
  /\ op \in [Tasks -> Operations \cup {NoOp}]
  /\ left \in [Tasks -> Seq(Files)]
  /\ result \in [Tasks -> Results]
  /\ calls \in [Tasks -> 0..MaxCalls]
  /\ written \in [Files -> Contents] /\ broken \in [Files -> BOOLEAN]
  /\ announced \subseteq Nat
  /\ faults \in 0..MaxFaults /\ crashes \in 0..MaxCrashes /\ halted \in BOOLEAN

\* The tasks inside littlefs, which is not reentrant
InLittlefs(t) ==
  pc[t] \in {"mount", "format", "count", "save", "open", "seek", "io", "close"}

\* One task at a time is inside littlefs, deinit() and a failed call included.
OneInLittlefs == \A t, u \in Tasks : InLittlefs(t) /\ InLittlefs(u) => t = u

\* The flash holds everything the callers know the file to hold.
Saved(f) == \A p \in Parts : written[f][p] \in {disk[f][p], Torn}

\* When sync() has returned NONE its file is on flash, and when deinit() has
\* closed the files they all are, unless an operation on the file has failed
\* since the last write to it that succeeded.
NoneMeansSaved ==
  \A t \in Tasks :
    /\ pc[t] = "give" /\ op[t].name = "sync" /\ result[t] = "NONE" =>
         broken[op[t].file] \/ Saved(op[t].file)
    /\ pc[t] = "delete" => \A f \in Files : broken[f] \/ Saved(f)

\* The header promises it of every sync(): pending write data are committed.
SyncIsDurable ==
  \A t \in Tasks :
    pc[t] = "give" /\ op[t].name = "sync" /\ result[t] = "NONE" => Saved(op[t].file)

\* No two sessions have the same boot count, whatever failed and whenever the
\* power was lost between them: the count is part of the seed of the CSPRNG.
BootCountFresh ==
  [][~initialized /\ initialized' => \A c \in announced : bootCount' > c]_vars

\* Whoever calls the driver gets an answer: no early return keeps the mutex.
EveryCallReturns == \A t \in Tasks : pc[t] # "idle" ~> pc[t] = "idle" \/ halted
-----------------------------------------------------------------------------
(* The abstraction: files that are saved as a whole *)

\* What a reader sees of each file, which of a closed one is what opening it
\* would load, and whether littlefs holds back its commits.
Current == [f \in Files |-> IF f \in opened THEN view[f] ELSE disk[f]]
Failed == [f \in Files |-> f \in opened /\ erred[f]]

Store == INSTANCE DurableStore WITH saved <- disk, current <- Current, failed <- Failed

\* The driver implements files that are saved as a whole: what is on flash is
\* what a reader of the file saw at one time, whatever reset, failure or commit of
\* another file came between.  A write that fails is not saved by the next sync();
\* but what it has torn is saved with the next write to the file that succeeds.
ImplementsStore == Store!Spec
=============================================================================
