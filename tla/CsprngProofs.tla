---------------------------- MODULE CsprngProofs ----------------------------
(***************************************************************************)
(* Proofs about the random number generator, for every set of tasks, every *)
(* workload, fold and bound: its types, and that deinit() never deletes    *)
(* the entropy task while it holds a mutex.                                *)
(***************************************************************************)
EXTENDS Csprng, TLAPS

\* Where the operation o can be.
Places(o) ==
  CASE o = "none" -> {"idle"}
    [] o = "init" -> {"create", "load", "read", "squeeze", "rekey", "store", "write", "commit",
                      "sync", "start"}
    [] o = "deinit" -> {"take", "stop", "give", "unlock", "clear"}
    [] o = "get_random_numbers" -> {"take", "squeeze", "rekey", "give"}
    [] o = "file" -> {"enter", "other"}
    [] OTHER -> {"sample", "take", "feed", "squeeze", "rekey", "store", "write", "commit", "sync",
                 "give", "judge"}

\* A thread is only where its operation leads it.
Roles ==
  /\ \A t \in Tasks : op[t] \in Operations \cup {"none"} /\ pc[t] \in Places(op[t])
  /\ \/ pc[Entropy] = "none" /\ op[Entropy] = "none"
     \/ op[Entropy] = "save" /\ pc[Entropy] \in Places("save")

\* init() is alone, and the entropy task exists only between init() and deinit().
Lifecycle ==
  /\ \A t \in Tasks : op[t] = "init" => ~initialized /\ \A u \in Tasks \ {t} : op[u] = "none"
  /\ ~initialized => pc[Entropy] = "none"
  /\ \A t \in Tasks : pc[t] \in {"unlock", "clear"} => pc[Entropy] = "none"

\* init() does without the mutex of the generator.
UnderMutex(t) ==
  \/ pc[t] \in {"stop", "unlock", "feed", "give"}
  \/ pc[t] \in {"squeeze", "rekey", "store", "write", "commit", "sync"} /\ op[t] # "init"
MutexHeld == \A t \in Threads : UnderMutex(t) <=> mutexOwner = t

InFiles(t) == pc[t] \in {"read", "write", "sync", "other"}
FilesHeld == \A t \in Threads : InFiles(t) <=> fileOwner = t

LockDiscipline == Roles /\ Lifecycle /\ MutexHeld /\ FilesHeld

\* The error counter has not reached the limit while the system runs.
ErrorsBelow == ~halted => errors < MaxErrors

\* The generator is there while init() goes on and while the entropy task exists.
Alive ==
  /\ \A t \in Tasks : op[t] = "init" /\ pc[t] # "create" => IsState(gen)
  /\ pc[Entropy] # "none" => IsState(gen)

IInv == TypeOK /\ LockDiscipline /\ ErrorsBelow /\ Alive
-----------------------------------------------------------------------------
(* The lock discipline *)

LEMMA DisciplineInit == Init => LockDiscipline
<1> SUFFICES ASSUME Init PROVE LockDiscipline
  OBVIOUS
<1>1. /\ \A t \in Tasks : pc[t] = "idle" /\ op[t] = "none"
      /\ pc[Entropy] = "none" /\ op[Entropy] = "none"
      /\ mutexOwner = NoTask /\ fileOwner = NoTask
  BY ConstantsAssumption DEF Init, PoweredUp, Threads
<1>2. Roles /\ Lifecycle
  BY <1>1 DEF Roles, Lifecycle, Places
<1>3. MutexHeld /\ FilesHeld
  BY <1>1, ConstantsAssumption DEF MutexHeld, FilesHeld, UnderMutex, InFiles, Threads
<1> QED BY <1>2, <1>3 DEF LockDiscipline

\* What the discipline is about.
Disciplined == <<pc, op, mutexOwner, fileOwner, initialized>>

\* A step that moves the thread t and no other, from a place to another of the
\* same operation, and gives or takes no mutex.
Moves(t, from, to) ==
  /\ pc[t] \in from /\ pc' = [pc EXCEPT ![t] = to]
  /\ UNCHANGED <<op, mutexOwner, fileOwner, initialized>>

\* One that ends a call of the file driver.
EndsCall(t, from, to) ==
  /\ pc[t] \in from /\ pc' = [pc EXCEPT ![t] = to]
  /\ fileOwner' = NoTask
  /\ UNCHANGED <<op, mutexOwner, initialized>>

LEMMA DisciplineStep ==
  ASSUME TypeOK, LockDiscipline, [Next]_vars
  PROVE  LockDiscipline'
<1> USE ConstantsAssumption DEF Threads
<1>0. /\ pc \in [Threads -> PcValues] /\ op \in [Threads -> Operations \cup {"none", "save"}]
      /\ mutexOwner \in Threads \cup {NoTask} /\ fileOwner \in Threads \cup {NoTask}
      /\ Roles /\ Lifecycle /\ MutexHeld /\ FilesHeld
  BY DEF TypeOK, LockDiscipline
<1>1. ASSUME UNCHANGED Disciplined PROVE LockDiscipline'
  BY <1>0, <1>1 DEF Disciplined, LockDiscipline, Roles, Lifecycle, MutexHeld, FilesHeld,
     UnderMutex, InFiles
<1>2. CASE UNCHANGED vars
  BY <1>1, <1>2 DEF vars, lockVars, rndVars, threadVars, Disciplined
<1>3. CASE Crash
  BY <1>3 DEF Crash, LockDiscipline, Roles, Lifecycle, MutexHeld, FilesHeld, UnderMutex, InFiles,
     Places, Operations
<1>4. ASSUME NEW t \in Threads, NEW from, NEW to \in PcValues, Moves(t, from, to),
             \/ from = {"rekey"} /\ op[t] = "get_random_numbers" /\ to = "give"
             \/ from = {"rekey"} /\ op[t] # "get_random_numbers" /\ to = "store"
             \/ from = {"squeeze"} /\ to = "rekey"
             \/ from = {"stop"} /\ to = "give"
             \/ from = {"feed"} /\ to = "squeeze"
             \/ from = {"sample"} /\ to = "take"
             \/ from = {"judge"} /\ to = "sample"
      PROVE  LockDiscipline'
  BY <1>0, <1>4 DEF Moves, LockDiscipline, Roles, Lifecycle, MutexHeld, FilesHeld, UnderMutex,
     InFiles, Places, Operations
<1>5. ASSUME NEW t \in Threads, NEW from, NEW to \in PcValues, EndsCall(t, from, to),
             \/ from = {"read"} /\ to = "squeeze"
             \/ from = {"write"} /\ to = "commit"
             \/ from \subseteq {"write", "sync"} /\ to = IF op[t] = "save" THEN "give" ELSE "start"
      PROVE  LockDiscipline'
  BY <1>0, <1>5 DEF EndsCall, LockDiscipline, Roles, Lifecycle, MutexHeld, FilesHeld, UnderMutex,
     InFiles, Places, Operations
<1>6. ASSUME MountFiles PROVE LockDiscipline'
  BY <1>1, <1>6 DEF MountFiles, lockVars, rndVars, threadVars, Disciplined
<1>7. ASSUME NEW t \in Tasks, Enter(t) PROVE LockDiscipline'
  <2>1. PICK o \in Workload : Call(t, o) \/ CallRefused(t, o)
    BY <1>7 DEF Enter
  <2>2. CASE CallRefused(t, o)
    BY <1>1, <2>2 DEF CallRefused, lockVars, rndVars, Disciplined
  <2>3. CASE Call(t, o)
    <3>1. /\ o \in Operations /\ pc[t] = "idle" /\ op' = [op EXCEPT ![t] = o]
          /\ pc' = [pc EXCEPT ![t] = CASE o = "init" -> "create" [] o = "file" -> "enter"
                                       [] OTHER -> "take"]
          /\ UNCHANGED <<mutexOwner, fileOwner, initialized>>
          /\ o = "init" => ~initialized
      BY <2>3 DEF Call, Goto, lockVars, rndVars, Refused
    <3>2. \A u \in Tasks \ {t} : pc[u] = "idle" \/ (o # "init" /\ op[u] # "init")
      BY <2>3 DEF Call, MayCall
    <3>3. \A u \in Tasks \ {t} : pc[u] = "idle" => op[u] = "none"
      BY <1>0 DEF Roles, Places, Operations
    <3>4. Roles'
      BY <1>0, <3>1 DEF Roles, Places, Operations
    <3>5. Lifecycle'
      BY <1>0, <3>1, <3>2, <3>3 DEF Lifecycle
    <3>6. MutexHeld' /\ FilesHeld'
      BY <1>0, <3>1 DEF MutexHeld, FilesHeld, UnderMutex, InFiles, Roles, Places, Operations
    <3> QED BY <3>4, <3>5, <3>6 DEF LockDiscipline
  <2> QED BY <2>1, <2>2, <2>3
<1>8. ASSUME NEW t \in Threads, UseGenerator(t) PROVE LockDiscipline'
  <2>1. CASE TakeMutex(t)
    <3>1. /\ pc[t] = "take" /\ mutexOwner = NoTask /\ mutexOwner' = t
          /\ pc' = [pc EXCEPT ![t] = CASE op[t] = "deinit" -> "stop" [] op[t] = "save" -> "feed"
                                       [] OTHER -> "squeeze"]
          /\ UNCHANGED <<op, fileOwner, initialized>>
      BY <2>1 DEF TakeMutex, MutexFree, Goto, rndVars
    <3> QED
      BY <1>0, <3>1 DEF LockDiscipline, Roles, Lifecycle, MutexHeld, FilesHeld, UnderMutex,
         InFiles, Places, Operations
  <2>2. CASE Squeeze(t)
    <3>1. Moves(t, {"squeeze"}, "rekey")
      BY <2>2 DEF Squeeze, Goto, Moves, lockVars, rndVars
    <3> QED BY <1>4, <3>1 DEF PcValues
  <2>3. CASE Rekey(t)
    <3>1. Moves(t, {"rekey"}, IF op[t] = "get_random_numbers" THEN "give" ELSE "store")
      BY <2>3 DEF Rekey, Goto, Moves, lockVars
    <3> QED BY <1>4, <3>1 DEF PcValues
  <2>4. CASE Give(t)
    <3>1. /\ pc[t] = "give" /\ mutexOwner' = NoTask /\ UNCHANGED <<fileOwner, initialized>>
          /\ \/ op[t] = "save" /\ pc' = [pc EXCEPT ![t] = "judge"] /\ UNCHANGED op
             \/ /\ op[t] # "save"
                /\ pc' = [pc EXCEPT ![t] = "idle"] /\ op' = [op EXCEPT ![t] = "none"]
      BY <2>4 DEF Give, Goto, Leave, rndVars
    <3> QED
      BY <1>0, <3>1 DEF LockDiscipline, Roles, Lifecycle, MutexHeld, FilesHeld, UnderMutex,
         InFiles, Places, Operations
  <2> QED BY <1>8, <2>1, <2>2, <2>3, <2>4 DEF UseGenerator
<1>9. ASSUME NEW t \in Threads, UseFiles(t) PROVE LockDiscipline'
  <2>1. CASE TakeFiles(t)
    <3>1. /\ fileOwner = NoTask /\ fileOwner' = t /\ UNCHANGED <<op, mutexOwner, initialized>>
          /\ \/ pc[t] = "load" /\ pc' = [pc EXCEPT ![t] = "read"]
             \/ pc[t] = "store" /\ pc' = [pc EXCEPT ![t] = "write"]
             \/ pc[t] = "commit" /\ pc' = [pc EXCEPT ![t] = "sync"]
             \/ pc[t] = "enter" /\ pc' = [pc EXCEPT ![t] = "other"]
      BY <2>1 DEF TakeFiles, Goto, rndVars
    <3> QED
      BY <1>0, <3>1 DEF LockDiscipline, Roles, Lifecycle, MutexHeld, FilesHeld, UnderMutex,
         InFiles, Places, Operations
  <2>2. CASE UseOther(t)
    <3>1. /\ pc[t] = "other" /\ fileOwner' = NoTask /\ UNCHANGED <<mutexOwner, initialized>>
          /\ pc' = [pc EXCEPT ![t] = "idle"] /\ op' = [op EXCEPT ![t] = "none"]
      BY <2>2 DEF UseOther, Goto, Leave, rndVars
    <3> QED
      BY <1>0, <3>1 DEF LockDiscipline, Roles, Lifecycle, MutexHeld, FilesHeld, UnderMutex,
         InFiles, Places, Operations
  <2>3. CASE Load(t) \/ LoadFails(t)
    <3>1. EndsCall(t, {"read"}, "squeeze")
      BY <2>3 DEF Load, LoadFails, GiveFiles, Goto, EndsCall
    <3> QED BY <1>5, <3>1 DEF PcValues
  <2>4. CASE Write(t)
    <3>1. EndsCall(t, {"write"}, "commit")
      BY <2>4 DEF Write, Written, GiveFiles, Goto, EndsCall, rndVars
    <3> QED BY <1>5, <3>1 DEF PcValues
  <2>5. CASE WriteFails(t) \/ Sync(t) \/ SyncFails(t)
    <3>1. EndsCall(t, {"write", "sync"}, IF op[t] = "save" THEN "give" ELSE "start")
      BY <2>5 DEF WriteFails, Sync, SyncFails, StoreReturns, GiveFiles, Goto, EndsCall, rndVars
    <3> QED BY <1>5, <3>1 DEF PcValues
  <2> QED BY <1>9, <2>1, <2>2, <2>3, <2>4, <2>5 DEF UseFiles
<1>10. ASSUME NEW t \in Tasks, InitOrDeinit(t) PROVE LockDiscipline'
  <2>1. CASE Create(t)
    <3>1. /\ pc[t] = "create" /\ mutexOwner' = NoTask /\ pc' = [pc EXCEPT ![t] = "load"]
          /\ UNCHANGED <<op, fileOwner, initialized>>
      BY <2>1 DEF Create, Goto
    <3>2. op[t] = "init"
      BY <1>0, <3>1 DEF Roles, Places, Operations
    <3>3. \A u \in Threads : ~UnderMutex(u)
      BY <1>0, <3>1, <3>2 DEF Roles, Lifecycle, UnderMutex, Places, Operations
    <3>4. \A u \in Threads : UnderMutex(u)' <=> UnderMutex(u)
      BY <1>0, <3>1 DEF UnderMutex
    <3> QED
      BY <1>0, <3>1, <3>2, <3>3, <3>4 DEF LockDiscipline, Roles, Lifecycle, MutexHeld, FilesHeld,
         InFiles, Places, Operations
  <2>2. CASE Start(t)
    <3>1. /\ pc[t] = "start" /\ initialized' = TRUE /\ UNCHANGED <<mutexOwner, fileOwner>>
          /\ pc' = [pc EXCEPT ![t] = "idle", ![Entropy] = "sample"]
          /\ op' = [op EXCEPT ![t] = "none", ![Entropy] = "save"]
      BY <2>2 DEF Start, lockVars
    <3>2. /\ op[t] = "init" /\ \A u \in Tasks \ {t} : op[u] = "none" /\ pc[u] = "idle"
          /\ pc[Entropy] = "none"
      BY <1>0, <3>1 DEF Roles, Lifecycle, Places, Operations
    <3> QED
      BY <1>0, <3>1, <3>2 DEF LockDiscipline, Roles, Lifecycle, MutexHeld, FilesHeld, UnderMutex,
         InFiles, Places, Operations
  <2>3. CASE StopFails(t)
    <3>1. Moves(t, {"stop"}, "give")
      BY <2>3 DEF StopFails, AfterStopFails, Goto, Moves, lockVars, rndVars
    <3> QED BY <1>4, <3>1 DEF PcValues
  <2>4. CASE Stop(t)
    <3>1. /\ pc[t] = "stop" /\ UNCHANGED <<mutexOwner, fileOwner, initialized>>
          /\ pc' = [pc EXCEPT ![t] = "unlock", ![Entropy] = "none"]
          /\ op' = [op EXCEPT ![Entropy] = "none"]
      BY <2>4 DEF Stop, lockVars
    <3>2. mutexOwner = t /\ ~UnderMutex(Entropy) /\ ~InFiles(Entropy)
      BY <1>0, <3>1 DEF MutexHeld, UnderMutex, InFiles, Roles, Places
    <3> QED
      BY <1>0, <3>1, <3>2 DEF LockDiscipline, Roles, Lifecycle, MutexHeld, FilesHeld, UnderMutex,
         InFiles, Places, Operations
  <2>5. CASE StopTwice(t)
    BY <1>1, <2>5 DEF StopTwice, lockVars, rndVars, threadVars, Disciplined
  <2>6. CASE Unlock(t)
    <3>1. /\ pc[t] = "unlock" /\ mutexOwner' = NoTask /\ pc' = [pc EXCEPT ![t] = "clear"]
          /\ UNCHANGED <<op, fileOwner, initialized>>
      BY <2>6 DEF Unlock, Goto, rndVars
    <3> QED
      BY <1>0, <3>1 DEF LockDiscipline, Roles, Lifecycle, MutexHeld, FilesHeld, UnderMutex,
         InFiles, Places, Operations
  <2>7. CASE ClearInitialized(t)
    <3>1. /\ pc[t] = "clear" /\ initialized' = FALSE /\ UNCHANGED <<mutexOwner, fileOwner>>
          /\ pc' = [pc EXCEPT ![t] = "idle"] /\ op' = [op EXCEPT ![t] = "none"]
      BY <2>7 DEF ClearInitialized, Goto, Leave, lockVars
    <3> QED
      BY <1>0, <3>1 DEF LockDiscipline, Roles, Lifecycle, MutexHeld, FilesHeld, UnderMutex,
         InFiles, Places, Operations
  <2> QED BY <1>10, <2>1, <2>2, <2>3, <2>4, <2>5, <2>6, <2>7 DEF InitOrDeinit
<1>11. ASSUME EntropyTask PROVE LockDiscipline'
  <2>1. CASE Sample
    <3>1. Moves(Entropy, {"sample"}, "take")
      BY <2>1 DEF Sample, Goto, Moves, lockVars, rndVars
    <3> QED BY <1>4, <3>1 DEF PcValues
  <2>2. CASE Feed
    <3>1. Moves(Entropy, {"feed"}, "squeeze")
      BY <2>2 DEF Feed, Goto, Moves, lockVars
    <3> QED BY <1>4, <3>1 DEF PcValues
  <2>3. CASE Judge
    <3>1. Moves(Entropy, {"judge"}, "sample")
      BY <2>3 DEF Judge, Goto, Moves, lockVars
    <3> QED BY <1>4, <3>1 DEF PcValues
  <2> QED BY <1>11, <2>1, <2>2, <2>3 DEF EntropyTask
<1> QED
  BY <1>2, <1>3, <1>6, <1>7, <1>8, <1>9, <1>10, <1>11 DEF Next, Running
-----------------------------------------------------------------------------
(* Types *)

FileTypes ==
  /\ lastBoot \in Nat \cup {-1} /\ bootCount \in Nat
  /\ erred \in BOOLEAN /\ mounted \in BOOLEAN
RndTypes ==
  /\ fileOwner \in Threads \cup {NoTask} /\ mutexOwner \in Threads \cup {NoTask}
  /\ initialized \in BOOLEAN /\ stored \in BOOLEAN
ThreadTypes ==
  /\ pc \in [Threads -> PcValues]
  /\ op \in [Threads -> Operations \cup {"none", "save"}]
  /\ calls \in [Threads -> Nat]
ErrorTypes == errors \in 0..MaxErrors /\ failedInRow \in Nat
HaltTypes == halted \in BOOLEAN /\ ErrorsBelow
GhostTypes == repeated \subseteq handedOut /\ sessions \in Seq(Nat)
BoundTypes == faults \in 0..MaxFaults /\ crashes \in 0..MaxCrashes

\* All types but those of the states and seeds
AllTypes ==
  FileTypes /\ RndTypes /\ ThreadTypes /\ ErrorTypes /\ HaltTypes /\ GhostTypes /\ BoundTypes

LEMMA TypeParts == TypeOK /\ ErrorsBelow <=> AllTypes /\ SecretTypes
BY DEF TypeOK, AllTypes, FileTypes, RndTypes, ThreadTypes, ErrorTypes, HaltTypes, GhostTypes,
   BoundTypes

LEMMA TypeInit == Init => AllTypes
<1> SUFFICES ASSUME Init PROVE AllTypes
  OBVIOUS
<1> USE ConstantsAssumption DEF Init, PoweredUp
<1>1. FileTypes
  BY DEF FileTypes
<1>2. RndTypes
  BY DEF RndTypes
<1>3. ThreadTypes
  BY DEF ThreadTypes, PcValues
<1>4. ErrorTypes /\ BoundTypes
  BY DEF ErrorTypes, BoundTypes
<1>5. HaltTypes
  <2>1. errors < MaxErrors
    OBVIOUS
  <2> QED BY <2>1 DEF HaltTypes, ErrorsBelow
<1>6. GhostTypes
  BY DEF GhostTypes
<1> QED BY <1>1, <1>2, <1>3, <1>4, <1>5, <1>6 DEF AllTypes

\* The thread t goes somewhere, and may leave its operation.
Moved(t) ==
  /\ \E to \in PcValues : pc' = [pc EXCEPT ![t] = to]
  /\ op' \in {op, [op EXCEPT ![t] = "none"]}
  /\ UNCHANGED calls

\* A step of one thread that leaves the errors and the boot count alone.
Ordinary(t) ==
  /\ Moved(t)
  /\ UNCHANGED <<bootVars, errors, failedInRow, halted, sessions>>
  /\ UNCHANGED <<faults, crashes>> \/ Fault
  /\ \/ UNCHANGED <<handedOut, repeated>>
     \/ handedOut' = handedOut \cup {gen} /\ repeated' = repeated \cup (handedOut \cap {gen})
  /\ fileOwner' \in {fileOwner, NoTask, t} /\ mutexOwner' \in {mutexOwner, NoTask, t}
  /\ initialized' \in {initialized, FALSE}
  /\ stored' \in BOOLEAN /\ erred' \in BOOLEAN

LEMMA TypeStep ==
  ASSUME AllTypes, LockDiscipline, [Next]_vars
  PROVE  AllTypes'
<1> USE ConstantsAssumption
<1>0. /\ FileTypes /\ RndTypes /\ ThreadTypes /\ ErrorTypes /\ HaltTypes /\ GhostTypes
      /\ BoundTypes
  BY DEF AllTypes
\* What a step leaves alone keeps its type.
<1>1. /\ UNCHANGED bootVars /\ erred' \in BOOLEAN => FileTypes'
      /\ UNCHANGED <<handedOut, repeated, sessions>> => GhostTypes'
      /\ UNCHANGED threadVars => ThreadTypes'
  BY <1>0 DEF bootVars, threadVars, FileTypes, GhostTypes, ThreadTypes
<1>2. UNCHANGED <<errors, failedInRow, halted>> => ErrorTypes' /\ HaltTypes'
  BY <1>0 DEF ErrorTypes, HaltTypes, ErrorsBelow
<1>3. UNCHANGED <<faults, crashes>> \/ Fault => BoundTypes'
  BY <1>0 DEF BoundTypes, Fault
<1>4. UNCHANGED lockVars /\ UNCHANGED <<initialized, stored>> => RndTypes'
  BY <1>0 DEF lockVars, RndTypes
<1>5. CASE UNCHANGED vars
  BY <1>0, <1>1, <1>2, <1>3, <1>4, <1>5
     DEF vars, fileVars, bootVars, rndVars, threadVars, ghostVars, runVars, AllTypes, FileTypes
<1>6. CASE Crash
  <2> USE <1>0, <1>6 DEF Crash
  <2>1. FileTypes' /\ RndTypes'
    BY DEF FileTypes, RndTypes
  <2>2. ThreadTypes'
    BY DEF ThreadTypes, PcValues
  <2>3. ErrorTypes' /\ BoundTypes'
    BY DEF ErrorTypes, BoundTypes
  <2>4. errors' < MaxErrors
    OBVIOUS
  <2>5. HaltTypes'
    BY <2>4 DEF HaltTypes, ErrorsBelow
  <2>6. GhostTypes'
    BY <1>1
  <2> QED BY <2>1, <2>2, <2>3, <2>5, <2>6 DEF AllTypes
<1>7. ASSUME MountFiles PROVE AllTypes'
  <2>1. /\ bootCount' \in {lastBoot + 1, lastBoot + 2} /\ lastBoot' = bootCount'
        /\ mounted' \in BOOLEAN /\ erred' \in BOOLEAN
        /\ UNCHANGED <<lockVars, rndVars, threadVars, ghostVars, runVars>>
    BY <1>7 DEF MountFiles, BootCounts
  <2>2. lastBoot' \in Nat /\ bootCount' \in Nat
    BY <1>0, <2>1 DEF FileTypes
  <2> QED
    BY <1>1, <1>2, <1>3, <1>4, <2>1, <2>2
       DEF AllTypes, FileTypes, rndVars, threadVars, ghostVars, runVars
<1>8. ASSUME NEW t \in Tasks, Enter(t) PROVE AllTypes'
  <2>1. PICK o \in Workload : Call(t, o) \/ CallRefused(t, o)
    BY <1>8 DEF Enter
  <2>2. /\ UNCHANGED <<fileVars, bootVars, lockVars, rndVars, stored, ghostVars, runVars>>
        /\ calls' = [calls EXCEPT ![t] = @ + 1]
        /\ \/ UNCHANGED <<pc, op>>
           \/ /\ op' = [op EXCEPT ![t] = o]
              /\ \E to \in PcValues : pc' = [pc EXCEPT ![t] = to]
    BY <2>1 DEF Call, CallRefused, Goto, PcValues
  <2>3. ThreadTypes'
    BY <1>0, <2>2 DEF ThreadTypes, Threads
  <2>4. UNCHANGED <<erred, initialized, errors, stored, handedOut, repeated, sessions,
                    failedInRow, faults, crashes, halted, bootVars, lockVars>>
    BY <2>2 DEF fileVars, rndVars, ghostVars, runVars
  <2>5. erred' \in BOOLEAN
    BY <1>0, <2>4 DEF FileTypes
  <2> QED BY <1>1, <1>2, <1>3, <1>4, <2>3, <2>4, <2>5 DEF AllTypes
<1>9. ASSUME NEW t \in Threads, Ordinary(t) PROVE AllTypes'
  <2>1. ThreadTypes'
    BY <1>0, <1>9 DEF Ordinary, Moved, ThreadTypes
  <2>2. RndTypes'
    BY <1>0, <1>9 DEF Ordinary, RndTypes
  <2>3. GhostTypes'
    BY <1>0, <1>9 DEF Ordinary, GhostTypes
  <2>4. UNCHANGED <<errors, failedInRow, halted, bootVars>> /\ erred' \in BOOLEAN
        /\ (UNCHANGED <<faults, crashes>> \/ Fault)
    BY <1>9 DEF Ordinary
  <2> QED BY <1>1, <1>2, <1>3, <2>1, <2>2, <2>3, <2>4 DEF AllTypes
<1>10. erred \in BOOLEAN /\ stored \in BOOLEAN
  BY <1>0 DEF FileTypes, RndTypes
<1>11. ASSUME NEW t \in Threads, UseGenerator(t) PROVE AllTypes'
  <2>1. Moved(t)
    BY <1>11 DEF UseGenerator, TakeMutex, Squeeze, Rekey, Give, Goto, Leave, Moved, PcValues
  <2>2. CASE TakeMutex(t)
    <3>1. Ordinary(t)
      BY <1>10, <2>1, <2>2 DEF TakeMutex, fileVars, rndVars, ghostVars, runVars, Ordinary
    <3> QED BY <1>9, <3>1
  <2>3. CASE Squeeze(t)
    <3>1. Ordinary(t)
      BY <1>10, <2>1, <2>3 DEF Squeeze, fileVars, lockVars, rndVars, runVars, Ordinary
    <3> QED BY <1>9, <3>1
  <2>4. CASE Rekey(t)
    <3>1. Ordinary(t)
      BY <1>10, <2>1, <2>4 DEF Rekey, fileVars, lockVars, ghostVars, runVars, Ordinary
    <3> QED BY <1>9, <3>1
  <2>5. CASE Give(t)
    <3>1. Ordinary(t)
      BY <1>10, <2>1, <2>5 DEF Give, Leave, fileVars, rndVars, ghostVars, runVars, Ordinary
    <3> QED BY <1>9, <3>1
  <2> QED BY <1>11, <2>2, <2>3, <2>4, <2>5 DEF UseGenerator
<1>12. ASSUME NEW t \in Threads, UseFiles(t) PROVE AllTypes'
  <2>1. Moved(t)
    <3> USE <1>12 DEF Moved, PcValues, GiveFiles, Goto
    <3>1. CASE TakeFiles(t) \/ UseOther(t)
      BY <3>1 DEF TakeFiles, UseOther, Leave
    <3>2. CASE Load(t) \/ LoadFails(t)
      BY <3>2 DEF Load, LoadFails
    <3>3. CASE Write(t) \/ WriteFails(t) \/ Sync(t) \/ SyncFails(t)
      BY <3>3 DEF Write, WriteFails, Sync, SyncFails, Written, StoreReturns
    <3> QED BY <3>1, <3>2, <3>3 DEF UseFiles
  <2>2. CASE TakeFiles(t)
    <3>1. Ordinary(t)
      BY <1>10, <2>1, <2>2 DEF TakeFiles, fileVars, rndVars, ghostVars, runVars, Ordinary
    <3> QED BY <1>9, <3>1
  <2>3. CASE UseOther(t)
    <3>1. Ordinary(t)
      BY <1>10, <2>1, <2>3 DEF UseOther, Leave, fileVars, rndVars, ghostVars, runVars, Ordinary
    <3> QED BY <1>9, <3>1
  <2>4. CASE Load(t)
    <3>1. Ordinary(t)
      BY <1>10, <2>1, <2>4 DEF Load, GiveFiles, fileVars, ghostVars, runVars, Ordinary
    <3> QED BY <1>9, <3>1
  <2>5. CASE LoadFails(t)
    <3>1. Ordinary(t)
      BY <1>10, <2>1, <2>5 DEF LoadFails, Fault, GiveFiles, ghostVars, Ordinary
    <3> QED BY <1>9, <3>1
  <2>6. CASE Write(t)
    <3>1. Ordinary(t)
      BY <1>10, <2>1, <2>6 DEF Write, Written, GiveFiles, rndVars, ghostVars, runVars, Ordinary
    <3> QED BY <1>9, <3>1
  <2>7. CASE WriteFails(t)
    <3>1. Ordinary(t)
      BY <1>10, <2>1, <2>7
         DEF WriteFails, Fault, StoreReturns, GiveFiles, rndVars, ghostVars, Ordinary
    <3> QED BY <1>9, <3>1
  <2>8. CASE Sync(t)
    <3>1. Ordinary(t)
      BY <1>10, <2>1, <2>8 DEF Sync, StoreReturns, GiveFiles, rndVars, ghostVars, runVars, Ordinary
    <3> QED BY <1>9, <3>1
  <2>9. CASE SyncFails(t)
    <3>1. Ordinary(t)
      BY <1>10, <2>1, <2>9
         DEF SyncFails, Fault, StoreReturns, GiveFiles, rndVars, ghostVars, Ordinary
    <3> QED BY <1>9, <3>1
  <2> QED BY <1>12, <2>2, <2>3, <2>4, <2>5, <2>6, <2>7, <2>8, <2>9 DEF UseFiles
<1>13. ASSUME NEW t \in Tasks, InitOrDeinit(t) PROVE AllTypes'
  <2>0. t \in Threads /\ Entropy \in Threads
    BY DEF Threads
  <2>1. CASE Create(t)
    <3>1. Moved(t)
      BY <2>1 DEF Create, Goto, PcValues, Moved
    <3>2. Ordinary(t)
      BY <1>10, <2>1, <3>1 DEF Create, fileVars, ghostVars, runVars, Ordinary
    <3> QED BY <1>9, <2>0, <3>2
  <2>2. CASE Start(t)
    <3>1. ThreadTypes'
      BY <1>0, <2>0, <2>2 DEF Start, ThreadTypes, PcValues
    <3>2. RndTypes' /\ FileTypes'
      BY <1>0, <2>2 DEF Start, RndTypes, FileTypes, fileVars, bootVars, lockVars
    <3>3. GhostTypes'
      BY <1>0, <2>2 DEF Start, GhostTypes, FileTypes, ghostVars
    <3>4. ErrorTypes' /\ BoundTypes'
      BY <1>0, <2>2 DEF Start, ErrorTypes, BoundTypes, runVars
    <3>5. errors' < MaxErrors /\ UNCHANGED halted
      BY <2>2 DEF Start, runVars
    <3>6. HaltTypes'
      BY <1>0, <3>5 DEF HaltTypes, ErrorsBelow
    <3> QED BY <3>1, <3>2, <3>3, <3>4, <3>6 DEF AllTypes
  <2>3. CASE StopFails(t)
    <3>1. Moved(t)
      BY <2>3 DEF StopFails, AfterStopFails, Goto, PcValues, Moved
    <3>2. Ordinary(t)
      BY <1>10, <2>3, <3>1 DEF StopFails, fileVars, lockVars, rndVars, ghostVars, runVars, Ordinary
    <3> QED BY <1>9, <2>0, <3>2
  <2>4. CASE Stop(t)
    <3>1. ThreadTypes'
      BY <1>0, <2>0, <2>4 DEF Stop, ThreadTypes, PcValues
    <3>2. UNCHANGED <<erred, initialized, errors, stored, handedOut, repeated, sessions,
                      failedInRow, faults, crashes, halted, bootVars, lockVars>>
      BY <2>4 DEF Stop, fileVars, ghostVars, runVars
    <3> QED BY <1>1, <1>2, <1>3, <1>4, <1>10, <3>1, <3>2 DEF AllTypes
  <2>5. CASE StopTwice(t)
    <3>1. /\ halted' = TRUE
          /\ UNCHANGED <<erred, initialized, errors, stored, handedOut, repeated, sessions,
                         failedInRow, faults, crashes, bootVars, lockVars, threadVars>>
      BY <2>5 DEF StopTwice, fileVars, rndVars, threadVars, ghostVars
    <3>2. ErrorTypes' /\ HaltTypes'
      BY <1>0, <3>1 DEF ErrorTypes, HaltTypes, ErrorsBelow
    <3> QED BY <1>1, <1>3, <1>4, <1>10, <3>1, <3>2 DEF AllTypes
  <2>6. CASE Unlock(t)
    <3>1. Moved(t)
      BY <2>6 DEF Unlock, Goto, PcValues, Moved
    <3>2. Ordinary(t)
      BY <1>10, <2>6, <3>1 DEF Unlock, fileVars, rndVars, ghostVars, runVars, Ordinary
    <3> QED BY <1>9, <2>0, <3>2
  <2>7. CASE ClearInitialized(t)
    <3>1. Moved(t)
      BY <2>7 DEF ClearInitialized, Goto, Leave, PcValues, Moved
    <3>2. Ordinary(t)
      BY <1>10, <2>7, <3>1
         DEF ClearInitialized, Leave, fileVars, lockVars, ghostVars, runVars, Ordinary
    <3> QED BY <1>9, <2>0, <3>2
  <2> QED BY <1>13, <2>1, <2>2, <2>3, <2>4, <2>5, <2>6, <2>7 DEF InitOrDeinit
<1>14. ASSUME ~halted, EntropyTask PROVE AllTypes'
  <2>0. Entropy \in Threads
    BY DEF Threads
  <2>1. CASE Sample
    <3>1. ThreadTypes'
      BY <1>0, <2>0, <2>1 DEF Sample, Goto, ThreadTypes, PcValues
    <3>2. UNCHANGED <<erred, initialized, errors, stored, handedOut, repeated, sessions,
                      failedInRow, faults, crashes, halted, bootVars, lockVars>>
      BY <2>1 DEF Sample, fileVars, rndVars, ghostVars, runVars
    <3> QED BY <1>1, <1>2, <1>3, <1>4, <1>10, <3>1, <3>2 DEF AllTypes
  <2>2. CASE Feed
    <3>1. Moved(Entropy)
      BY <2>2 DEF Feed, Goto, PcValues, Moved
    <3>2. Ordinary(Entropy)
      BY <1>10, <2>2, <3>1 DEF Feed, fileVars, lockVars, ghostVars, runVars, Ordinary
    <3> QED BY <1>9, <2>0, <3>2
  <2>3. CASE Judge
    <3>1. errors < MaxErrors
      BY <1>0, <1>14 DEF HaltTypes, ErrorsBelow
    <3>2. /\ errors' \in {0, errors + 1} /\ failedInRow' \in {0, failedInRow + 1}
          /\ halted' = (errors' = MaxErrors)
      BY <2>3 DEF Judge
    <3>3. ErrorTypes' /\ (errors' # MaxErrors => errors' < MaxErrors)
      BY <1>0, <3>1, <3>2 DEF ErrorTypes
    <3>4. HaltTypes'
      BY <3>2, <3>3, Zenon DEF HaltTypes, ErrorsBelow
    <3>5. ThreadTypes'
      BY <1>0, <2>0, <2>3 DEF Judge, Goto, ThreadTypes, PcValues
    <3>6. /\ stored' = FALSE
          /\ UNCHANGED <<erred, initialized, handedOut, repeated, sessions, faults, crashes,
                         bootVars, lockVars>>
      BY <2>3 DEF Judge, fileVars
    <3>7. RndTypes'
      BY <1>0, <3>6 DEF RndTypes, lockVars
    <3> QED BY <1>1, <1>3, <1>10, <3>3, <3>4, <3>5, <3>6, <3>7 DEF AllTypes
  <2> QED BY <1>14, <2>1, <2>2, <2>3 DEF EntropyTask
<1> QED
  BY <1>5, <1>6, <1>7, <1>8, <1>11, <1>12, <1>13, <1>14 DEF Next, Running
-----------------------------------------------------------------------------
(* States and seeds *)

LEMMA StateKept ==
  /\ \A f, s : IsState(State(f, s, 0))
  /\ \A g : IsState(g) => IsState(Advance(g))
  /\ \A g, s : IsState(g) => IsState([g EXCEPT !.seed = s])
<1>1. \A f, s : \A n \in Nat : IsState(State(f, s, n))
  BY DEF IsState, State
<1>2. ASSUME NEW g, IsState(g) PROVE IsState(Advance(g))
  <2>1. g = Freed => Advance(g) = g
    BY DEF Advance
  <2>2. g # Freed => Advance(g) = State(g.fold, g.seed, g.steps + 1)
    BY <1>2 DEF Advance, IsState, State
  <2>3. g.steps + 1 \in Nat
    BY <1>2 DEF IsState
  <2> QED BY <1>1, <1>2, <2>1, <2>2, <2>3
<1>3. ASSUME NEW g, NEW s, IsState(g) PROVE IsState([g EXCEPT !.seed = s])
  <2>1. [g EXCEPT !.seed = s] = State(g.fold, s, g.steps) /\ g.steps \in Nat
    BY <1>3 DEF IsState, State
  <2> QED BY <1>1, <2>1
<1> QED BY <1>1, <1>2, <1>3

Secret == SecretTypes /\ Alive

LEMMA SecretInit == Init => Secret
BY ConstantsAssumption DEF Init, PoweredUp, Secret, SecretTypes, Alive, IsSeed, Threads

\* No init() and no entropy task is under way that was not before.
NoneBegun ==
  /\ \A t \in Tasks : op'[t] = "init" /\ pc'[t] # "create" => op[t] = "init" /\ pc[t] # "create"
  /\ pc'[Entropy] # "none" => pc[Entropy] # "none"

LEMMA SecretStep ==
  ASSUME AllTypes, Secret, LockDiscipline, [Next]_vars
  PROVE  Secret'
<1> USE ConstantsAssumption
<1>0. /\ pc \in [Threads -> PcValues] /\ op \in [Threads -> Operations \cup {"none", "save"}]
      /\ SecretTypes /\ Alive /\ Roles /\ Lifecycle
      /\ Entropy \in Threads /\ Tasks \subseteq Threads
  BY DEF AllTypes, ThreadTypes, Secret, LockDiscipline, Threads
<1>1. ASSUME NoneBegun, IsState(gen) => IsState(gen') PROVE Alive'
  BY <1>0, <1>1 DEF Alive, NoneBegun
<1>2. UNCHANGED <<gen, disk, view, seed, handedOut>> => SecretTypes'
  BY <1>0 DEF SecretTypes
<1>3. UNCHANGED <<pc, op>> => NoneBegun
  BY DEF NoneBegun
<1>4. UNCHANGED <<gen, disk, view, seed, handedOut>> /\ NoneBegun => Secret'
  BY <1>1, <1>2 DEF Secret
\* The generator of whoever squeezes a seed or loads one is there.
<1>5. ASSUME NEW t \in Threads, pc[t] = "read" \/ (pc[t] = "squeeze" /\ op[t] # "get_random_numbers")
      PROVE  IsState(gen)
  <2>1. CASE t = Entropy
    BY <1>0, <1>5, <2>1 DEF Alive
  <2>2. CASE t \in Tasks
    <3>1. op[t] = "init"
      BY <1>0, <1>5, <2>2 DEF Roles, Places, Operations
    <3> QED BY <1>0, <1>5, <2>2, <3>1 DEF Alive
  <2> QED BY <2>1, <2>2 DEF Threads
<1>6. CASE UNCHANGED vars
  BY <1>3, <1>4, <1>6 DEF vars, fileVars, rndVars, threadVars, ghostVars
<1>7. CASE Crash
  <2>1. Alive'
    BY <1>0, <1>7 DEF Crash, Alive
  <2>2. SecretTypes'
    BY <1>0, <1>7 DEF Crash, SecretTypes, IsSeed
  <2> QED BY <2>1, <2>2 DEF Secret
<1>8. CASE MountFiles
  <2>1. Alive'
    BY <1>1, <1>3, <1>8 DEF MountFiles, threadVars, rndVars
  <2>2. SecretTypes'
    BY <1>0, <1>8 DEF MountFiles, SecretTypes, threadVars, rndVars, ghostVars
  <2> QED BY <2>1, <2>2 DEF Secret
<1>9. ASSUME NEW t \in Tasks, Enter(t) PROVE Secret'
  <2>1. PICK o \in Workload : Call(t, o) \/ CallRefused(t, o)
    BY <1>9 DEF Enter
  <2>2. UNCHANGED <<gen, disk, view, seed, handedOut>>
    BY <2>1 DEF Call, CallRefused, fileVars, rndVars, ghostVars
  <2>3. NoneBegun
    BY <1>0, <2>1 DEF Call, CallRefused, Goto, NoneBegun
  <2> QED BY <1>4, <2>2, <2>3
\* A step of a thread that is under way begins nothing.
<1>10. ASSUME NEW t \in Threads, pc[t] \notin {"none", "create"},
              NEW to, pc' = [pc EXCEPT ![t] = to],
              op' = op \/ op' = [op EXCEPT ![t] = "none"]
       PROVE  NoneBegun
  BY <1>0, <1>10 DEF NoneBegun
<1>11. ASSUME NEW t \in Threads, UseGenerator(t) PROVE Secret'
  <2>1. NoneBegun
    BY <1>10, <1>11 DEF UseGenerator, TakeMutex, Squeeze, Rekey, Give, Goto, Leave
  <2>2. CASE TakeMutex(t) \/ Give(t)
    BY <1>4, <2>1, <2>2 DEF TakeMutex, Give, fileVars, rndVars, ghostVars
  <2>3. CASE Squeeze(t)
    <3>1. /\ seed' = seed \/ (seed' = gen /\ IsState(gen))
          /\ handedOut' = handedOut \/ (handedOut' = handedOut \cup {gen} /\ gen # Freed)
          /\ UNCHANGED <<gen, disk, view>>
      BY <1>5, <2>3 DEF Squeeze, fileVars, rndVars
    <3>2. SecretTypes'
      BY <1>0, <3>1 DEF SecretTypes, IsSeed
    <3> QED BY <1>1, <2>1, <3>1, <3>2 DEF Secret
  <2>4. CASE Rekey(t)
    <3>1. gen' = Advance(gen) /\ UNCHANGED <<disk, view, seed, handedOut>>
      BY <2>4 DEF Rekey, fileVars, ghostVars
    <3>2. /\ IsState(gen) => IsState(gen')
          /\ gen = Freed => gen' = Freed
      BY <3>1, StateKept DEF Advance
    <3>3. SecretTypes'
      BY <1>0, <3>1, <3>2 DEF SecretTypes
    <3> QED BY <1>1, <2>1, <3>2, <3>3 DEF Secret
  <2> QED BY <1>11, <2>2, <2>3, <2>4 DEF UseGenerator
<1>12. ASSUME NEW t \in Threads, UseFiles(t) PROVE Secret'
  <2>1. NoneBegun
    <3> USE <1>10, <1>12 DEF GiveFiles, Goto
    <3>1. CASE TakeFiles(t) \/ UseOther(t)
      BY <3>1 DEF TakeFiles, UseOther, Leave
    <3>2. CASE Load(t) \/ LoadFails(t)
      BY <3>2 DEF Load, LoadFails
    <3>3. CASE Write(t) \/ WriteFails(t) \/ Sync(t) \/ SyncFails(t)
      BY <3>3 DEF Write, WriteFails, Sync, SyncFails, Written, StoreReturns
    <3> QED BY <3>1, <3>2, <3>3 DEF UseFiles
  <2>2. CASE TakeFiles(t) \/ UseOther(t)
    BY <1>4, <2>1, <2>2 DEF TakeFiles, UseOther, fileVars, rndVars, ghostVars
  <2>3. CASE Load(t) \/ LoadFails(t)
    <3>1. IsState(gen) /\ UNCHANGED <<disk, view, seed, handedOut>>
      BY <1>5, <2>3 DEF Load, LoadFails, fileVars, ghostVars
    <3>2. gen' = Advance(gen) \/ gen' = Advance([gen EXCEPT !.seed = view])
      BY <2>3 DEF Load, LoadFails
    <3>3. IsState(gen')
      BY <3>1, <3>2, StateKept
    <3>4. SecretTypes'
      BY <1>0, <3>1, <3>3 DEF SecretTypes
    <3> QED BY <1>1, <2>1, <3>3, <3>4 DEF Secret
  <2>4. CASE Write(t) \/ WriteFails(t) \/ Sync(t) \/ SyncFails(t)
    <3>1. UNCHANGED <<gen, handedOut>> /\ seed' \in {seed, NoSeed}
      BY <2>4 DEF Write, WriteFails, Sync, SyncFails, Written, StoreReturns, rndVars, ghostVars
    <3>2. view' \in {view, seed, TornSeed} /\ disk' \in {disk, view}
      BY <2>4 DEF Write, WriteFails, Sync, SyncFails
    <3>3. SecretTypes'
      BY <1>0, <3>1, <3>2 DEF SecretTypes, IsSeed
    <3> QED BY <1>1, <2>1, <3>1, <3>3 DEF Secret
  <2> QED BY <1>12, <2>2, <2>3, <2>4 DEF UseFiles
<1>13. ASSUME NEW t \in Tasks, InitOrDeinit(t) PROVE Secret'
  <2>1. CASE Create(t)
    <3>1. gen' = State(Fold(bootCount), NoSeed, 0) /\ UNCHANGED <<disk, view, seed, handedOut>>
      BY <2>1 DEF Create, State, fileVars, ghostVars
    <3>2. IsState(gen')
      BY <3>1, StateKept
    <3> QED BY <1>0, <3>1, <3>2 DEF Secret, SecretTypes, Alive
  <2>2. CASE Start(t)
    <3>1. op[t] = "init"
      BY <1>0, <2>2 DEF Start, Roles, Places, Operations
    <3>2. IsState(gen) /\ UNCHANGED <<gen, disk, view, seed, handedOut>>
      BY <1>0, <2>2, <3>1 DEF Start, Alive, fileVars
    <3> QED BY <1>0, <3>2 DEF Secret, SecretTypes, Alive
  <2>3. CASE Stop(t)
    <3>1. op[t] = "deinit"
      BY <1>0, <2>3 DEF Stop, Roles, Places, Operations
    <3>2. \A u \in Tasks : op'[u] # "init"
      BY <1>0, <2>3, <3>1 DEF Stop, Lifecycle
    <3>3. pc'[Entropy] = "none" /\ gen' = Freed /\ UNCHANGED <<disk, view, seed, handedOut>>
      BY <1>0, <2>3 DEF Stop, fileVars, ghostVars
    <3> QED BY <1>0, <3>2, <3>3 DEF Secret, SecretTypes, Alive
  <2>4. CASE StopTwice(t)
    BY <1>3, <1>4, <2>4 DEF StopTwice, fileVars, rndVars, threadVars, ghostVars
  <2>5. CASE StopFails(t) \/ Unlock(t) \/ ClearInitialized(t)
    <3>1. NoneBegun
      BY <1>0, <1>10, <2>5 DEF StopFails, Unlock, ClearInitialized, Goto, Leave
    <3> QED
      BY <1>4, <2>5, <3>1 DEF StopFails, Unlock, ClearInitialized, fileVars, rndVars, ghostVars
  <2> QED BY <1>13, <2>1, <2>2, <2>3, <2>4, <2>5 DEF InitOrDeinit
<1>14. CASE EntropyTask
  <2>1. NoneBegun
    BY <1>0, <1>10, <1>14 DEF EntropyTask, Sample, Feed, Judge, Goto
  <2>2. CASE Sample \/ Judge
    BY <1>4, <2>1, <2>2 DEF Sample, Judge, fileVars, rndVars, ghostVars
  <2>3. CASE Feed
    <3>1. IsState(gen) /\ gen' = Advance(gen) /\ UNCHANGED <<disk, view, seed, handedOut>>
      BY <1>0, <2>3 DEF Feed, Alive, fileVars, ghostVars
    <3>2. IsState(gen')
      BY <3>1, StateKept
    <3>3. SecretTypes'
      BY <1>0, <3>1, <3>2 DEF SecretTypes
    <3> QED BY <1>1, <2>1, <3>2, <3>3 DEF Secret
  <2> QED BY <1>14, <2>2, <2>3 DEF EntropyTask
<1> QED
  BY <1>6, <1>7, <1>8, <1>9, <1>11, <1>12, <1>13, <1>14 DEF Next, Running
-----------------------------------------------------------------------------
(* The theorems *)

LEMMA Invariance == Spec => []IInv
<1>1. Init => IInv
  BY DisciplineInit, TypeInit, SecretInit, TypeParts DEF IInv, Secret
<1>2. IInv /\ [Next]_vars => IInv'
  <2> SUFFICES ASSUME IInv, [Next]_vars PROVE IInv'
    OBVIOUS
  <2>1. LockDiscipline'
    BY DisciplineStep DEF IInv
  <2>2. AllTypes'
    BY TypeStep, TypeParts DEF IInv
  <2>3. Secret'
    BY SecretStep, TypeParts DEF IInv, Secret
  <2>4. TypeOK' /\ ErrorsBelow'
    BY <2>2, <2>3, TypeParts, PTL DEF Secret
  <2> QED BY <2>1, <2>3, <2>4 DEF IInv, Secret
<1> QED BY <1>1, <1>2, PTL DEF Spec

\* Every variable of the random number generator keeps its type.
THEOREM TypeCorrect == Spec => []TypeOK
<1>1. IInv => TypeOK
  BY DEF IInv
<1> QED BY <1>1, Invariance, PTL

\* deinit() never deletes the entropy task while it holds a mutex: a task at
\* "stop" holds the generator's, so the entropy task does not, and it calls the
\* file driver only while it does.
THEOREM DeletedHoldsNothing == Spec => []NothingOrphaned
<1>1. IInv => NothingOrphaned
  <2> SUFFICES ASSUME IInv, pc[Entropy] = "none" PROVE Entropy \notin {fileOwner, mutexOwner}
    BY DEF NothingOrphaned
  <2> QED BY DEF IInv, LockDiscipline, MutexHeld, FilesHeld, UnderMutex, InFiles, Threads
<1> QED BY <1>1, Invariance, PTL

\* Whoever holds a mutex goes on: the holder of the files' mutex waits for
\* nothing and the holder of the generator's only for the files', in init(),
\* deinit(), get_random_numbers() and the entropy task, on every early return
\* and wherever a reset or deinit() cuts them short.
THEOREM NobodyWaitsInACircle == Spec => []HoldersGoOn
<1>1. IInv => HoldersGoOn
  <2> SUFFICES ASSUME IInv, NEW t \in Threads
               PROVE  /\ mutexOwner = t \/ fileOwner = t => pc[t] # "idle" /\ ~WaitsForMutex(t)
                      /\ fileOwner = t => ~WaitsForFiles(t)
    BY DEF HoldersGoOn
  <2>1. CASE fileOwner = t
    <3>1. pc[t] \in {"read", "write", "sync", "other"}
      BY <2>1 DEF IInv, LockDiscipline, FilesHeld, InFiles
    <3> QED BY <3>1 DEF WaitsForMutex, WaitsForFiles
  <2>2. CASE mutexOwner = t
    <3>1. pc[t] \in {"stop", "unlock", "feed", "give", "squeeze", "rekey", "store", "write",
                     "commit", "sync"}
      BY <2>2 DEF IInv, LockDiscipline, MutexHeld, UnderMutex
    <3> QED BY <2>1, <3>1 DEF WaitsForMutex
  <2> QED BY <2>1, <2>2
<1> QED BY <1>1, Invariance, PTL
=============================================================================
