------------------------------- MODULE Csprng -------------------------------
(***************************************************************************)
(* The random number generator, namespace rnd of                           *)
(* components/drivers/src/csprng.cpp, with ascon-suite's SpongePRNG and    *)
(* the seed it keeps in a file of the file driver.                         *)
(*                                                                         *)
(* Application tasks call init(), deinit() and get_random_numbers(), and   *)
(* also use other files.  The entropy task, which init() creates and       *)
(* deinit() deletes, feeds the generator and saves a new seed every        *)
(* minute.  A mutex guards the generator; the file driver has its own.     *)
(*                                                                         *)
(* The generator's output is a function of its state, and its state one of *)
(* what it has absorbed: the entropy mixture, which the jitter and the     *)
(* samples of the ADC may make alike in every session but which takes in   *)
(* the boot count; the seed loaded; and how far it has run since.  So the  *)
(* noise counts for nothing here, and numbers are the state they were      *)
(* squeezed from, a seed among them.  Of the file driver the module has    *)
(* what FileStore shows: DurableStore for the seed file, one task at a     *)
(* time, and a boot count larger than any before.                          *)
(***************************************************************************)
EXTENDS Integers, Sequences

CONSTANTS
  Tasks,      \* the application's tasks
  Entropy,    \* the entropy task
  NoTask,     \* no holder of a mutex
  NoSeed,     \* no seed: in the file, in the generator or in a local that was cleaned
  TornSeed,   \* a seed file that a failed write left half done
  Freed,      \* the state of a generator that was freed, or never initialised
  Fold(_),    \* xor_bytes_in_word of the boot count
  Workload,   \* the operations the tasks call
  MaxErrors,  \* MAX_CONSECUTIVE_ERRORS
  MaxCalls,   \* bound: calls made by one task between two resets
  MaxSaves,   \* bound: seeds the entropy task saves between two resets
  MaxFaults,  \* bound: flash operations that fail
  MaxCrashes  \* bound: resets

Threads == Tasks \cup {Entropy}

\* "file" stands for any use the application makes of another file.
Operations == {"init", "deinit", "get_random_numbers", "file"}

ASSUME ConstantsAssumption ==
  /\ Entropy \notin Tasks /\ NoTask \notin Threads
  /\ Workload \subseteq Operations
  /\ MaxErrors \in Nat \ {0}
  /\ MaxCalls \in Nat /\ MaxSaves \in Nat /\ MaxFaults \in Nat /\ MaxCrashes \in Nat

VARIABLES
  disk,        \* flash: the seed that is committed
  lastBoot,    \* flash: the last boot count
  view,        \* the seed file as a reader sees it
  erred,       \* littlefs holds back the commits of the seed file
  mounted,     \* file::init() has succeeded
  bootCount,   \* the boot count of this session of the file driver
  fileOwner,   \* the holder of the mutex of the file driver
  initialized, \* g_is_initialized
  mutexOwner,  \* the holder of g_task_mutex
  gen,         \* s_rng_state
  errors,      \* cons_error_counter of the entropy task
  pc,          \* where each thread is
  op,          \* the operation it executes
  seed,        \* the new seed, a local of save_seed() and load_seed()
  stored,      \* what save_seed() returns: the seed was written
  calls,       \* how many calls it has made since the last reset
  handedOut,   \* ghost: the numbers that callers were given
  repeated,    \* ghost: those they were given twice
  sessions,    \* ghost: the boot count of each initialisation that succeeded
  failedInRow, \* ghost: how many saves of the entropy task failed one after the other
  faults,      \* how many flash operations have failed
  crashes,     \* how many resets there were
  halted       \* utils::panic(), or a task was deleted twice

fileVars == <<disk, view, erred>>
bootVars == <<lastBoot, mounted, bootCount>>
lockVars == <<fileOwner, mutexOwner>>
rndVars == <<initialized, gen, errors>>
threadVars == <<pc, op, seed, stored, calls>>
ghostVars == <<handedOut, repeated, sessions, failedInRow>>
runVars == <<faults, crashes, halted>>
vars == <<fileVars, bootVars, lockVars, rndVars, threadVars, ghostVars, runVars>>

PcValues ==
  {"none", "idle", "take", "squeeze", "rekey", "give",
   "create", "load", "read", "store", "write", "commit", "sync", "start",
   "stop", "unlock", "clear", "enter", "other", "sample", "feed", "judge"}

PoweredUp ==
  /\ erred = FALSE
  /\ mounted = FALSE /\ bootCount = 0
  /\ fileOwner = NoTask /\ mutexOwner = NoTask
  /\ initialized = FALSE /\ gen = Freed /\ errors = 0
  /\ pc = [t \in Threads |-> IF t = Entropy THEN "none" ELSE "idle"]
  /\ op = [t \in Threads |-> "none"]
  /\ seed = NoSeed
  /\ stored = FALSE
  /\ calls = [t \in Threads |-> 0]
  /\ failedInRow = 0
  /\ halted = FALSE

\* A device fresh from the programmer
Init ==
  /\ PoweredUp
  /\ disk = NoSeed /\ view = NoSeed
  /\ lastBoot = -1
  /\ handedOut = {} /\ repeated = {} /\ sessions = <<>>
  /\ faults = 0 /\ crashes = 0

Goto(t, label) == pc' = [pc EXCEPT ![t] = label]
Leave(t) == Goto(t, "idle") /\ op' = [op EXCEPT ![t] = "none"]

\* A flash operation fails.
Fault == faults < MaxFaults /\ faults' = faults + 1 /\ UNCHANGED <<crashes, halted>>
-----------------------------------------------------------------------------
(* Entering and leaving an operation *)

\* Mutant: the counter is not incremented.
BootCounts_Same == {lastBoot, lastBoot + 1}

\* A boot count can be left out, when an init() or the power failed after it
\* was saved.
BootCounts == {lastBoot + 1, lastBoot + 2}

\* file::init(), which comes before anything else
MountFiles ==
  /\ ~mounted /\ \A t \in Tasks : pc[t] = "idle"
  /\ mounted' = TRUE
  /\ bootCount' \in BootCounts
  /\ lastBoot' = bootCount'
  /\ view' = disk /\ erred' = FALSE
  /\ UNCHANGED <<disk, lockVars, rndVars, threadVars, ghostVars, runVars>>

\* Nobody else uses the driver while init() runs.
MayCall(t, o) ==
  \A u \in Tasks \ {t} : pc[u] = "idle" \/ "init" \notin {o, op[u]}

Refused(o) ==
  CASE o = "init" -> initialized \/ ~mounted
    [] o = "file" -> ~mounted
    [] OTHER -> ~initialized

\* A peripheral that cannot be configured makes init() fail too.
CallRefused(t, o) ==
  /\ pc[t] = "idle" /\ calls[t] < MaxCalls /\ MayCall(t, o)
  /\ Refused(o) \/ o = "init"
  /\ calls' = [calls EXCEPT ![t] = @ + 1]
  /\ UNCHANGED <<fileVars, bootVars, lockVars, rndVars, pc, op, seed, stored, ghostVars,
                 runVars>>

Call(t, o) ==
  /\ pc[t] = "idle" /\ calls[t] < MaxCalls /\ MayCall(t, o)
  /\ ~Refused(o)
  /\ op' = [op EXCEPT ![t] = o]
  /\ calls' = [calls EXCEPT ![t] = @ + 1]
  /\ Goto(t, CASE o = "init" -> "create" [] o = "file" -> "enter" [] OTHER -> "take")
  /\ UNCHANGED <<fileVars, bootVars, lockVars, rndVars, seed, stored, ghostVars, runVars>>

\* Mutant: the mutex keeps nobody out.
MutexFree_Ignored == TRUE
MutexFree == mutexOwner = NoTask

\* xSemaphoreTakeRecursive(g_task_mutex, portMAX_DELAY).  deinit() deletes the
\* mutex, but it is static and not a queue of the registry: nothing happens to
\* it, and a task that waited for it takes it afterwards.
TakeMutex(t) ==
  /\ pc[t] = "take" /\ MutexFree
  /\ mutexOwner' = t
  /\ Goto(t, CASE op[t] = "deinit" -> "stop" [] op[t] = "save" -> "feed" [] OTHER -> "squeeze")
  /\ UNCHANGED <<fileVars, bootVars, fileOwner, rndVars, op, seed, stored, calls, ghostVars,
                 runVars>>

\* ~scoped_mutex_t()
Give(t) ==
  /\ pc[t] = "give"
  /\ mutexOwner' = NoTask
  /\ IF op[t] = "save" THEN Goto(t, "judge") /\ UNCHANGED op ELSE Leave(t)
  /\ UNCHANGED <<fileVars, bootVars, fileOwner, rndVars, seed, stored, calls, ghostVars,
                 runVars>>
-----------------------------------------------------------------------------
(* The generator *)

\* A permutation of the state, which an output, new entropy and a new seed end with
Advance(g) == IF g = Freed THEN Freed ELSE [g EXCEPT !.steps = @ + 1]

\* ascon_random_fetch() squeezes the state, which handedOut records unless it is
\* that of a freed generator ...
Squeeze(t) ==
  /\ pc[t] = "squeeze"
  /\ seed' = IF op[t] = "get_random_numbers" THEN seed ELSE gen
  /\ IF op[t] = "get_random_numbers" /\ gen # Freed
     THEN /\ handedOut' = handedOut \cup {gen}
          /\ repeated' = repeated \cup (handedOut \cap {gen})
     ELSE UNCHANGED <<handedOut, repeated>>
  /\ Goto(t, "rekey")
  /\ UNCHANGED <<fileVars, bootVars, lockVars, rndVars, op, stored, calls, sessions, failedInRow,
                 runVars>>

\* ... and then makes sure that it cannot be run backwards.
Rekey(t) ==
  /\ pc[t] = "rekey"
  /\ gen' = Advance(gen)
  /\ Goto(t, IF op[t] = "get_random_numbers" THEN "give" ELSE "store")
  /\ UNCHANGED <<fileVars, bootVars, lockVars, initialized, errors, op, seed, stored, calls,
                 ghostVars, runVars>>
-----------------------------------------------------------------------------
(* The seed file *)

\* A call of the file driver takes its mutex ...
TakeFiles(t) ==
  /\ pc[t] \in {"load", "store", "commit", "enter"}
  /\ fileOwner = NoTask
  /\ fileOwner' = t
  /\ Goto(t, CASE pc[t] = "load" -> "read" [] pc[t] = "store" -> "write"
              [] pc[t] = "commit" -> "sync" [] OTHER -> "other")
  /\ UNCHANGED <<fileVars, bootVars, mutexOwner, rndVars, op, seed, stored, calls, ghostVars,
                 runVars>>

\* ... and gives it when it returns.
GiveFiles(t, label) == fileOwner' = NoTask /\ Goto(t, label)

\* The application has used another file.
UseOther(t) ==
  /\ pc[t] = "other"
  /\ fileOwner' = NoTask
  /\ Leave(t)
  /\ UNCHANGED <<fileVars, bootVars, mutexOwner, rndVars, seed, stored, calls, ghostVars,
                 runVars>>

\* ascon_random_load_seed(): a seed that cannot be read whole is not fed, and
\* the generator goes on without; then it is reseeded.
Load(t) ==
  /\ pc[t] = "read"
  /\ \/ view # NoSeed /\ gen' = Advance([gen EXCEPT !.seed = view])
     \/ view \in {NoSeed, TornSeed} /\ gen' = Advance(gen)
  /\ GiveFiles(t, "squeeze")
  /\ UNCHANGED <<fileVars, bootVars, mutexOwner, initialized, errors, op, seed, stored, calls,
                 ghostVars, runVars>>

LoadFails(t) ==
  /\ pc[t] = "read"
  /\ Fault
  /\ erred' \in {erred, TRUE}   \* what was written before cannot be flushed
  /\ gen' = Advance(gen)
  /\ GiveFiles(t, "squeeze")
  /\ UNCHANGED <<disk, view, bootVars, mutexOwner, initialized, errors, op, seed, stored, calls,
                 ghostVars>>

\* The storage callback has returned: the seed is cleaned, and only
\* save_seed() keeps the result.
StoreReturns(t, ok) ==
  /\ seed' = NoSeed
  /\ stored' = (ok /\ op[t] = "save")
  /\ GiveFiles(t, IF op[t] = "save" THEN "give" ELSE "start")

\* Mutant: the callback leaves the seed in the cache.
Written_NoSync(t) == StoreReturns(t, TRUE)
Written(t) == GiveFiles(t, "commit") /\ UNCHANGED <<seed, stored>>

\* file::write() of the storage callback
Write(t) ==
  /\ pc[t] = "write"
  /\ view' = seed /\ erred' = FALSE
  /\ Written(t)
  /\ UNCHANGED <<disk, bootVars, mutexOwner, rndVars, op, calls, ghostVars, runVars>>

WriteFails(t) ==
  /\ pc[t] = "write"
  /\ Fault
  /\ \/ UNCHANGED <<view, erred>>
     \/ view' \in {view, TornSeed} /\ erred' = TRUE
  /\ StoreReturns(t, FALSE)
  /\ UNCHANGED <<disk, bootVars, mutexOwner, rndVars, op, calls, ghostVars>>

\* file::sync(), which commits nothing of a file that is marked
Sync(t) ==
  /\ pc[t] = "sync"
  /\ disk' = IF erred THEN disk ELSE view
  /\ StoreReturns(t, TRUE)
  /\ UNCHANGED <<view, erred, bootVars, mutexOwner, rndVars, op, calls, ghostVars,
                 runVars>>

\* The seed's 32 bytes are stored inline, so that it is the commit that fails,
\* which marks the file.
SyncFails(t) ==
  /\ pc[t] = "sync" /\ ~erred
  /\ Fault
  /\ disk' \in {disk, view}
  /\ erred' = TRUE
  /\ StoreReturns(t, FALSE)
  /\ UNCHANGED <<view, bootVars, mutexOwner, rndVars, op, calls, ghostVars>>
-----------------------------------------------------------------------------
(* init() and deinit() *)

\* The fresh generator of this boot: the mixture takes in the boot count.
Create(t) ==
  /\ pc[t] = "create"
  /\ mutexOwner' = NoTask
  /\ gen' = [fold |-> Fold(bootCount), seed |-> NoSeed, steps |-> 0]
  /\ Goto(t, "load")
  /\ UNCHANGED <<fileVars, bootVars, fileOwner, initialized, errors, op, seed, stored, calls,
                 ghostVars, runVars>>

\* Whatever became of the seed, init() creates the entropy task and succeeds.
Start(t) ==
  /\ pc[t] = "start"
  /\ initialized' = TRUE
  /\ errors' = 0 /\ failedInRow' = 0
  /\ pc' = [pc EXCEPT ![t] = "idle", ![Entropy] = "sample"]
  /\ op' = [op EXCEPT ![t] = "none", ![Entropy] = "save"]
  /\ sessions' = Append(sessions, bootCount)
  /\ UNCHANGED <<fileVars, bootVars, lockVars, gen, seed, stored, calls, handedOut, repeated,
                 runVars>>

\* Mutant: the early return keeps the mutex.
AfterStopFails_Idle == "idle"
AfterStopFails == "give"

\* The ADC, the DMA or the RTC cannot be stopped.
StopFails(t) ==
  /\ pc[t] = "stop"
  /\ Goto(t, AfterStopFails)
  /\ UNCHANGED <<fileVars, bootVars, lockVars, rndVars, op, seed, stored, calls, ghostVars,
                 runVars>>

\* The entropy task is deleted wherever it is, and the generator freed.
Stop(t) ==
  /\ pc[t] = "stop" /\ pc[Entropy] # "none"
  /\ pc' = [pc EXCEPT ![t] = "unlock", ![Entropy] = "none"]
  /\ op' = [op EXCEPT ![Entropy] = "none"]
  /\ gen' = Freed
  /\ UNCHANGED <<fileVars, bootVars, lockVars, initialized, errors, seed, stored, calls,
                 ghostVars, runVars>>

\* A second deinit() waited for the mutex, and deletes the task once more.
\* Nothing is defined any more.
StopTwice(t) ==
  /\ pc[t] = "stop" /\ pc[Entropy] = "none"
  /\ halted' = TRUE
  /\ UNCHANGED <<fileVars, bootVars, lockVars, rndVars, threadVars, ghostVars, faults, crashes>>

Unlock(t) ==
  /\ pc[t] = "unlock"
  /\ mutexOwner' = NoTask
  /\ Goto(t, "clear")
  /\ UNCHANGED <<fileVars, bootVars, fileOwner, rndVars, op, seed, stored, calls, ghostVars,
                 runVars>>

ClearInitialized(t) ==
  /\ pc[t] = "clear"
  /\ initialized' = FALSE
  /\ Leave(t)
  /\ UNCHANGED <<fileVars, bootVars, lockVars, gen, errors, seed, stored, calls, ghostVars,
                 runVars>>
-----------------------------------------------------------------------------
(* The entropy task *)

\* It samples the mixture, each sample under the mutex.
Sample ==
  /\ pc[Entropy] = "sample" /\ calls[Entropy] < MaxSaves
  /\ MutexFree
  /\ calls' = [calls EXCEPT ![Entropy] = @ + 1]
  /\ Goto(Entropy, "take")
  /\ UNCHANGED <<fileVars, bootVars, lockVars, rndVars, op, seed, stored, ghostVars, runVars>>

\* ascon_random_feed()
Feed ==
  /\ pc[Entropy] = "feed"
  /\ gen' = Advance(gen)
  /\ Goto(Entropy, "squeeze")
  /\ UNCHANGED <<fileVars, bootVars, lockVars, initialized, errors, op, seed, stored, calls,
                 ghostVars, runVars>>

\* ascon_random_save_seed() returns 1 for a seed that was written and 0 for one
\* that was not, and the task takes anything but 0 for an error.
TakenForError == stored

Judge ==
  /\ pc[Entropy] = "judge"
  /\ errors' = IF TakenForError THEN errors + 1 ELSE 0
  /\ failedInRow' = IF stored THEN 0 ELSE failedInRow + 1
  /\ halted' = (errors' = MaxErrors)
  /\ stored' = FALSE
  /\ Goto(Entropy, "sample")
  /\ UNCHANGED <<fileVars, bootVars, lockVars, initialized, gen, op, seed, calls,
                 handedOut, repeated, sessions, faults, crashes>>
-----------------------------------------------------------------------------
\* A reset or a power failure
Crash ==
  /\ crashes < MaxCrashes
  /\ crashes' = crashes + 1
  /\ view' = disk /\ erred' = FALSE
  /\ mounted' = FALSE /\ bootCount' = 0
  /\ fileOwner' = NoTask /\ mutexOwner' = NoTask
  /\ initialized' = FALSE /\ gen' = Freed /\ errors' = 0
  /\ pc' = [t \in Threads |-> IF t = Entropy THEN "none" ELSE "idle"]
  /\ op' = [t \in Threads |-> "none"]
  /\ seed' = NoSeed
  /\ stored' = FALSE
  /\ calls' = [t \in Threads |-> 0]
  /\ failedInRow' = 0
  /\ halted' = FALSE
  /\ UNCHANGED <<disk, lastBoot, handedOut, repeated, sessions, faults>>
-----------------------------------------------------------------------------
Enter(t) == \E o \in Workload : Call(t, o) \/ CallRefused(t, o)

UseGenerator(t) == TakeMutex(t) \/ Squeeze(t) \/ Rekey(t) \/ Give(t)

UseFiles(t) ==
  \/ TakeFiles(t) \/ UseOther(t) \/ Load(t) \/ LoadFails(t)
  \/ Write(t) \/ WriteFails(t) \/ Sync(t) \/ SyncFails(t)

InitOrDeinit(t) ==
  \/ Create(t) \/ Start(t)
  \/ StopFails(t) \/ Stop(t) \/ StopTwice(t) \/ Unlock(t) \/ ClearInitialized(t)

Proceed(t) == UseGenerator(t) \/ UseFiles(t) \/ InitOrDeinit(t)

EntropyTask == Sample \/ Feed \/ Judge

Running ==
  \/ MountFiles
  \/ \E t \in Tasks : Enter(t) \/ InitOrDeinit(t)
  \/ \E t \in Threads : UseGenerator(t) \/ UseFiles(t)
  \/ EntropyTask

Next == (~halted /\ Running) \/ Crash

Spec == Init /\ [][Next]_vars

\* The scheduler runs every thread that is ready.
FairSpec ==
  /\ Spec
  /\ \A t \in Tasks : WF_vars(~halted /\ Proceed(t))
  /\ WF_vars(~halted /\ (UseGenerator(Entropy) \/ UseFiles(Entropy) \/ EntropyTask))
-----------------------------------------------------------------------------
(* Properties *)

\* A state of the generator: numbers and seeds are states it was squeezed from.
State(f, s, n) == [fold |-> f, seed |-> s, steps |-> n]
IsState(g) == g.steps \in Nat /\ g = State(g.fold, g.seed, g.steps)
IsSeed(s) == s \in {NoSeed, TornSeed} \/ IsState(s)

SecretTypes ==
  /\ gen = Freed \/ IsState(gen)
  /\ IsSeed(disk) /\ IsSeed(view) /\ IsSeed(seed)
  /\ \A h \in handedOut : IsState(h)

\* The types of the variables.  A seed that is kept or about to be written is
\* never the state of a generator that was freed.
TypeOK ==
  /\ SecretTypes
  /\ lastBoot \in Nat \cup {-1} /\ bootCount \in Nat
  /\ erred \in BOOLEAN /\ mounted \in BOOLEAN
  /\ fileOwner \in Threads \cup {NoTask} /\ mutexOwner \in Threads \cup {NoTask}
  /\ initialized \in BOOLEAN
  /\ errors \in 0..MaxErrors
  /\ pc \in [Threads -> PcValues]
  /\ op \in [Threads -> Operations \cup {"none", "save"}]
  /\ stored \in BOOLEAN
  /\ calls \in [Threads -> Nat]
  /\ repeated \subseteq handedOut
  /\ sessions \in Seq(Nat)
  /\ failedInRow \in Nat
  /\ faults \in 0..MaxFaults /\ crashes \in 0..MaxCrashes /\ halted \in BOOLEAN

\* deinit() deletes the entropy task when it holds no mutex, neither the one of
\* the generator nor, inside a call that saves the seed, the one of the files.
NothingOrphaned ==
  pc[Entropy] = "none" => Entropy \notin {fileOwner, mutexOwner}

WaitsForMutex(t) == pc[t] \in {"sample", "take"}
WaitsForFiles(t) == pc[t] \in {"load", "store", "commit", "enter"}

\* Nobody waits in a circle: whoever holds the files' mutex waits for nothing,
\* whoever holds the generator's waits at most for the files', and a task that
\* has left an operation, on whichever return, holds neither.
HoldersGoOn ==
  \A t \in Threads :
    /\ mutexOwner = t \/ fileOwner = t => pc[t] # "idle" /\ ~WaitsForMutex(t)
    /\ fileOwner = t => ~WaitsForFiles(t)

\* Two initialisations with boot counts that the mixture cannot tell apart
FoldsAlike ==
  \E i, j \in DOMAIN sessions : i # j /\ Fold(sessions[i]) = Fold(sessions[j])

\* Nobody is given the same numbers twice, in one session or in two, and no
\* seed that is kept has been given to anybody as numbers, however alike the
\* noise: for that a flash operation must have failed AND two boot counts
\* must fold to the same byte.  What get_random_numbers() hands out of a
\* generator that deinit() has freed meanwhile, the same bytes each time, is not
\* among the numbers counted here.
NumbersNeverRepeat ==
  repeated # {} \/ disk \in handedOut \/ view \in handedOut => faults > 0 /\ FoldsAlike

\* Whoever calls gets an answer: nobody waits for a mutex that stays taken.
EveryCallReturns == \A t \in Tasks : pc[t] # "idle" ~> pc[t] = "idle" \/ halted

\* utils::panic() is called only when that many saves in a row have failed.
PanicMeansFailures == errors = MaxErrors => failedInRow >= MaxErrors
=============================================================================
