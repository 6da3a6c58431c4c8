------------------------- MODULE CsprngNumberProofs -------------------------
(***************************************************************************)
(* The proof that the random number generator repeats no number, for every *)
(* set of tasks, every workload, fold and bound.                           *)
(*                                                                         *)
(* A number is the state it was squeezed from: what the boot count folds   *)
(* to, the seed that was loaded and the steps since.  Within a session the *)
(* steps tell numbers apart.  Between sessions it is the fold, while no    *)
(* two of them fold alike; or, while no flash operation has failed, the    *)
(* seed: each session loads one that no session before it has loaded.      *)
(***************************************************************************)
EXTENDS CsprngProofs

\* The values that mark the absence of a seed or a state are no states.
MarksAreNoStates == \A f, s : \A n \in Nat : State(f, s, n) \notin {NoSeed, TornSeed, Freed}

Kept == {disk, view, seed}
Folds == {Fold(sessions[i]) : i \in DOMAIN sessions}
NoInit == \A t \in Tasks : op[t] # "init"

\* One of the two things that keep sessions apart
Spared == faults = 0 \/ ~FoldsAlike

\* The generator of an init() that is not over: the numbers of its steps,
\* below 2, are given to nobody.
Initialising ==
  \A t \in Tasks : op[t] = "init" /\ pc[t] # "create" =>
    /\ IsState(gen) /\ gen.fold = Fold(bootCount)
    /\ pc[t] \in {"load", "read"} => gen.steps = 0 /\ gen.seed = NoSeed
    /\ pc[t] \in {"squeeze", "rekey"} => gen.steps = 1
    /\ pc[t] \in {"store", "write", "commit", "sync", "start"} => gen.steps = 2
    /\ pc[t] = "start" => seed = NoSeed

\* Between init() and deinit() it is the generator of a session.
Generator ==
  /\ gen = Freed \/ IsState(gen)
  /\ pc[Entropy] # "none" => gen # Freed
  /\ gen # Freed /\ NoInit => gen.steps >= 2 /\ gen.fold \in Folds
  /\ pc[Entropy] # "none" \/ ~NoInit => mounted

\* The numbers given were a session's, and the seeds kept are a session's or
\* the ones that init() squeezes.
HandedOutOK == \A h \in handedOut : IsState(h) /\ h.steps >= 2 /\ h.fold \in Folds
KeptOK ==
  \A k \in Kept : \/ k \in {NoSeed, TornSeed}
                  \/ IsState(k) /\ k.steps = 1
                  \/ IsState(k) /\ k.fold \in Folds

\* The new seed is a state of the generator that is there.
SaveAt == {"rekey", "store", "write", "commit", "sync"}
Saves(t) == pc[t] \in SaveAt /\ op[t] # "get_random_numbers"
SeedOK ==
  \A t \in Threads : Saves(t) =>
    /\ IsState(seed) /\ seed.fold = gen.fold /\ seed.seed = gen.seed
    /\ op[t] = "init" => seed.steps = 1

\* What the generator of a session will be has been given to nobody, nor kept.
Ahead ==
  Spared /\ NoInit /\ gen # Freed =>
    \A n \in Nat : /\ n >= gen.steps
                   /\ n = gen.steps => \A t \in Threads : pc[t] # "rekey"
                   => State(gen.fold, gen.seed, n) \notin handedOut \cup Kept

Distinct == Spared => repeated = {} /\ \A k \in Kept : k \notin handedOut

\* The reader of the seed file sees what is committed, but for a seed that is
\* written and not yet synchronised.
Clean ==
  /\ erred = FALSE
  /\ \A t \in Threads : pc[t] \in {"commit", "sync"} => view = seed
  /\ (\A t \in Threads : pc[t] \notin {"commit", "sync"}) => view = disk

\* The seeds loaded so far: top is the last one, past are those before it.
Line(past, top) ==
  /\ top \notin past
  /\ \A x \in past \cup {top} : x = NoSeed \/ (IsState(x) /\ x.seed \in past)
  /\ disk = top \/ (IsState(disk) /\ disk.seed = top)
  /\ \A h \in handedOut : h.seed \in past \cup {top}
  /\ disk = top => \A h \in handedOut : h.seed # top
  /\ \A t \in Tasks : op[t] = "init" =>
       /\ pc[t] \in {"squeeze"} \cup SaveAt => gen.seed = top /\ disk = top
       /\ pc[t] = "start" => /\ IsState(disk) /\ disk.steps = 1 /\ disk # top
                             /\ gen.seed = top /\ \A h \in handedOut : h.seed # top
  /\ gen # Freed /\ NoInit => gen.seed = top /\ disk # top

Lineage == faults = 0 => Clean /\ \E past, top : Line(past, top)

NumbersInv ==
  /\ Initialising /\ Generator
  /\ HandedOutOK /\ KeptOK /\ SeedOK
  /\ Ahead /\ Distinct /\ Lineage
-----------------------------------------------------------------------------
(* States of the generator *)

LEMMA StateParts ==
  \A f, s : \A n \in Nat :
    /\ IsState(State(f, s, n))
    /\ State(f, s, n).fold = f /\ State(f, s, n).seed = s /\ State(f, s, n).steps = n
BY DEF State, IsState

LEMMA StateEqual ==
  \A g, h : IsState(g) /\ IsState(h) /\ g.fold = h.fold /\ g.seed = h.seed /\ g.steps = h.steps
              => g = h
BY DEF IsState

LEMMA StateMarks ==
  ASSUME MarksAreNoStates
  PROVE  \A g : IsState(g) => g # NoSeed /\ g # TornSeed /\ g # Freed
BY DEF MarksAreNoStates, IsState

LEMMA AdvanceState ==
  ASSUME MarksAreNoStates, NEW g, IsState(g)
  PROVE  /\ Advance(g) = State(g.fold, g.seed, g.steps + 1)
         /\ IsState(Advance(g))
         /\ Advance(g).fold = g.fold /\ Advance(g).seed = g.seed
         /\ Advance(g).steps = g.steps + 1
<1>1. g # Freed
  BY StateMarks
<1>2. Advance(g) = State(g.fold, g.seed, g.steps + 1)
  BY <1>1 DEF Advance, IsState, State
<1> QED BY <1>2, StateParts DEF IsState

LEMMA LoadState ==
  ASSUME NEW g, NEW s, IsState(g)
  PROVE  [g EXCEPT !.seed = s] = State(g.fold, s, g.steps)
BY DEF IsState, State
-----------------------------------------------------------------------------
(* Who can be where *)

\* The places of a thread that works on the generator or on the seed it saves
Busy == {"squeeze"} \cup SaveAt

Exclusion ==
  /\ \A t, u \in Threads : pc[t] \in Busy /\ pc[u] \in Busy => t = u
  /\ \A t, u \in Threads : pc[t] \in {"stop", "feed"} => pc[u] \notin Busy
  /\ \A t \in Tasks : op[t] = "init" =>
       /\ pc[Entropy] = "none" /\ op[Entropy] = "none"
       /\ \A u \in Tasks \ {t} : op[u] = "none" /\ pc[u] = "idle"
  /\ \A t \in Threads :
       /\ pc[t] \in {"create", "load", "read", "start"} => t \in Tasks /\ op[t] = "init"
       /\ pc[t] \in {"store", "write", "commit", "sync"} => op[t] \in {"init", "save"}
       /\ pc[t] \in {"squeeze", "rekey"} => op[t] \in {"init", "save", "get_random_numbers"}
       /\ pc[t] \in {"stop", "unlock", "clear"} => t \in Tasks /\ op[t] = "deinit"
       /\ pc[t] \in {"feed", "sample", "judge"} => t = Entropy
       /\ pc[t] \in {"take", "give", "idle", "enter", "other"} => op[t] # "init"
       /\ op[t] = "save" <=> t = Entropy /\ pc[t] # "none"
       /\ pc[t] = "none" => t = Entropy /\ op[t] = "none"

LEMMA Excluded == TypeOK /\ LockDiscipline => Exclusion
<1> SUFFICES ASSUME TypeOK, LockDiscipline PROVE Exclusion
  OBVIOUS
<1> USE ConstantsAssumption DEF Threads
<1>1. Roles /\ Lifecycle /\ MutexHeld
  BY DEF LockDiscipline
<1>2. \A t \in Threads :
        /\ pc[t] \in {"create", "load", "read", "start"} => t \in Tasks /\ op[t] = "init"
        /\ pc[t] \in {"store", "write", "commit", "sync"} => op[t] \in {"init", "save"}
        /\ pc[t] \in {"squeeze", "rekey"} => op[t] \in {"init", "save", "get_random_numbers"}
        /\ pc[t] \in {"stop", "unlock", "clear"} => t \in Tasks /\ op[t] = "deinit"
        /\ pc[t] \in {"feed", "sample", "judge"} => t = Entropy
        /\ pc[t] \in {"take", "give", "idle", "enter", "other"} => op[t] # "init"
        /\ op[t] = "save" <=> t = Entropy /\ pc[t] # "none"
        /\ pc[t] = "none" => t = Entropy /\ op[t] = "none"
  BY <1>1 DEF Roles, Places, Operations
<1>3. \A t \in Tasks : op[t] = "init" =>
        /\ pc[Entropy] = "none" /\ op[Entropy] = "none"
        /\ \A u \in Tasks \ {t} : op[u] = "none" /\ pc[u] = "idle"
  BY <1>1 DEF Roles, Lifecycle, Places
<1>4. \A t \in Threads : pc[t] \in Busy => op[t] = "init" \/ mutexOwner = t
  BY <1>1 DEF Busy, SaveAt, MutexHeld, UnderMutex
<1>5. \A t \in Threads : pc[t] \in {"stop", "feed"} => mutexOwner = t /\ op[t] # "init"
  BY <1>1, <1>2 DEF MutexHeld, UnderMutex
<1>6. \A t, u \in Threads : op[t] = "init" /\ u # t => pc[u] \in {"idle", "none"}
  BY <1>1, <1>3 DEF Roles, Operations
<1>7. \A t, u \in Threads : pc[t] \in Busy /\ pc[u] \in Busy => t = u
  BY <1>4, <1>6 DEF Busy, SaveAt
<1>8. \A t, u \in Threads : pc[t] \in {"stop", "feed"} => pc[u] \notin Busy
  BY <1>4, <1>5, <1>6 DEF Busy, SaveAt
<1> QED BY <1>2, <1>3, <1>7, <1>8 DEF Exclusion
-----------------------------------------------------------------------------
(* The first state *)

LEMMA NumbersInit ==
  ASSUME MarksAreNoStates, Init
  PROVE  NumbersInv
<1> USE ConstantsAssumption
<1>1. /\ disk = NoSeed /\ view = NoSeed /\ seed = NoSeed /\ gen = Freed /\ erred = FALSE
      /\ handedOut = {} /\ repeated = {} /\ pc[Entropy] = "none"
      /\ \A t \in Threads : op[t] = "none" /\ pc[t] \in {"idle", "none"}
  BY DEF Init, PoweredUp, Threads
<1>2. NoInit
  BY <1>1 DEF NoInit, Threads
<1>3. Initialising /\ Generator
  BY <1>1, <1>2 DEF Initialising, Generator, Threads
<1>4. HandedOutOK /\ KeptOK /\ SeedOK /\ Ahead /\ Distinct
  BY <1>1 DEF HandedOutOK, KeptOK, Kept, SeedOK, Saves, SaveAt, Ahead, Distinct
<1>5. Clean
  BY <1>1 DEF Clean
<1>6. Line({}, NoSeed)
  BY <1>1 DEF Line, Threads
<1> QED BY <1>3, <1>4, <1>5, <1>6 DEF NumbersInv, Lineage
-----------------------------------------------------------------------------
(* Steps that only move a thread *)

\* What the invariant says of one of these it says of the other.
SameStage(p, q) ==
  \/ p = q
  \/ \E s \in {{"load", "read"}, {"store", "write"}, {"commit", "sync"}} : p \in s /\ q \in s

\* It says nothing of a thread that is here, in an operation other than init().
Elsewhere ==
  {"idle", "take", "squeeze", "give", "stop", "unlock", "clear", "enter", "other", "sample",
   "feed", "judge"}

numberVars == <<disk, view, erred, mounted, bootCount, gen, seed, handedOut, repeated, sessions,
                faults>>

Quiet(t) ==
  /\ UNCHANGED numberVars
  /\ \E q \in PcValues :
       /\ pc' = [pc EXCEPT ![t] = q]
       /\ \/ op' = op /\ SameStage(pc[t], q)
          \/ /\ pc[t] \in Elsewhere /\ op[t] # "init"
             /\ \/ q \in Elsewhere /\ op' \in {op, [op EXCEPT ![t] = "none"]}
                \/ \E o \in Operations :
                     /\ op' = [op EXCEPT ![t] = o] /\ q \in Elsewhere \cup {"create"}
                     /\ o = "init" <=> q = "create"
                     /\ o = "init" => mounted

LEMMA QuietStep ==
  ASSUME TypeOK, NumbersInv, NEW t \in Threads, Quiet(t)
  PROVE  NumbersInv'
<1> USE ConstantsAssumption DEF Threads
<1>1. /\ disk' = disk /\ view' = view /\ erred' = erred /\ mounted' = mounted
      /\ bootCount' = bootCount /\ gen' = gen /\ seed' = seed /\ handedOut' = handedOut
      /\ repeated' = repeated /\ sessions' = sessions /\ faults' = faults
  BY DEF Quiet, numberVars
<1>2. pc \in [Threads -> PcValues] /\ op \in [Threads -> Operations \cup {"none", "save"}]
  BY DEF TypeOK
\* What becomes of the places the invariant speaks of
<1>3. \A u \in Threads :
        /\ op[u] = "init" => op'[u] = "init"
        /\ op'[u] = "init" => op[u] = "init" \/ (pc'[u] = "create" /\ mounted)
        /\ op'[u] = "init" /\ pc'[u] # "create" => op[u] = "init" /\ pc[u] # "create"
        /\ op'[u] = "init" /\ op[u] = "init" => SameStage(pc[u], pc'[u])
        /\ pc'[u] = "rekey" <=> pc[u] = "rekey"
        /\ pc'[u] \in {"commit", "sync"} <=> pc[u] \in {"commit", "sync"}
        /\ pc'[u] = "none" <=> pc[u] = "none"
        /\ pc'[u] \in SaveAt => pc[u] \in SaveAt /\ op'[u] = op[u]
  <2> SUFFICES ASSUME NEW u \in Threads
                PROVE  /\ op[u] = "init" => op'[u] = "init"
                       /\ op'[u] = "init" => op[u] = "init" \/ (pc'[u] = "create" /\ mounted)
                       /\ op'[u] = "init" /\ pc'[u] # "create" =>
                            op[u] = "init" /\ pc[u] # "create"
                       /\ op'[u] = "init" /\ op[u] = "init" => SameStage(pc[u], pc'[u])
                       /\ pc'[u] = "rekey" <=> pc[u] = "rekey"
                       /\ pc'[u] \in {"commit", "sync"} <=> pc[u] \in {"commit", "sync"}
                       /\ pc'[u] = "none" <=> pc[u] = "none"
                       /\ pc'[u] \in SaveAt => pc[u] \in SaveAt /\ op'[u] = op[u]
    OBVIOUS
  <2>1. CASE pc'[u] = pc[u] /\ op'[u] = op[u]
    BY <2>1 DEF SameStage
  <2>2. CASE op'[u] = op[u] /\ SameStage(pc[u], pc'[u])
    BY <2>2 DEF SameStage, SaveAt
  <2>3. CASE /\ pc[u] \in Elsewhere /\ op[u] # "init"
             /\ \/ pc'[u] \in Elsewhere /\ op'[u] # "init"
                \/ mounted /\ pc'[u] = "create"
    BY <2>3 DEF Elsewhere, SaveAt
  <2>4. u # t => pc'[u] = pc[u] /\ op'[u] = op[u]
    BY <1>2 DEF Quiet
  <2>5. PICK q \in PcValues :
          /\ pc' = [pc EXCEPT ![t] = q]
          /\ \/ op' = op /\ SameStage(pc[t], q)
             \/ /\ pc[t] \in Elsewhere /\ op[t] # "init"
                /\ \/ q \in Elsewhere /\ op' \in {op, [op EXCEPT ![t] = "none"]}
                   \/ \E o \in Operations :
                        /\ op' = [op EXCEPT ![t] = o] /\ q \in Elsewhere \cup {"create"}
                        /\ o = "init" <=> q = "create"
                        /\ o = "init" => mounted
    BY DEF Quiet
  <2>6. pc'[t] = q
    BY <1>2, <2>5
  <2>7. CASE u = t
    <3>1. \/ op' = op /\ SameStage(pc[t], q)
          \/ /\ pc[t] \in Elsewhere /\ op[t] # "init"
             /\ \/ q \in Elsewhere /\ op'[t] # "init"
                \/ mounted /\ q = "create"
      <4>1. CASE op' \in {op, [op EXCEPT ![t] = "none"]} /\ op[t] # "init"
        <5>1. op'[t] # "init"
          BY <1>2, <4>1
        <5> QED BY <2>5, <5>1
      <4>2. ASSUME NEW o \in Operations, op' = [op EXCEPT ![t] = o]
            PROVE  op'[t] = o
        BY <1>2, <4>2
      <4> QED BY <2>5, <4>1, <4>2
    <3> QED BY <2>2, <2>3, <2>6, <2>7, <3>1
  <2> QED BY <2>1, <2>4, <2>7
<1>4. Initialising'
  BY <1>1, <1>3 DEF NumbersInv, Initialising, SameStage
<1>5. NoInit' => NoInit
  BY <1>3 DEF NoInit
<1>6. ~NoInit' => ~NoInit \/ mounted
  BY <1>3 DEF NoInit
<1>7. Folds' = Folds /\ Kept' = Kept /\ Spared' = Spared
  BY <1>1 DEF Folds, Kept, Spared, FoldsAlike
<1>8. Generator'
  BY <1>1, <1>3, <1>5, <1>6, <1>7 DEF NumbersInv, Generator
<1>9. HandedOutOK' /\ KeptOK'
  BY <1>1, <1>7 DEF NumbersInv, HandedOutOK, KeptOK
<1>10. SeedOK'
  BY <1>1, <1>3 DEF NumbersInv, SeedOK, Saves
<1>11. Ahead'
  BY <1>1, <1>3, <1>5, <1>7 DEF NumbersInv, Ahead
<1>12. Distinct'
  BY <1>1, <1>7 DEF NumbersInv, Distinct
<1>13. Clean => Clean'
  BY <1>1, <1>3 DEF Clean
<1>14. ASSUME NEW past, NEW top, Line(past, top) PROVE Line(past, top)'
  <2>1. \A u \in Tasks : op'[u] = "init" =>
          \/ pc'[u] = "create"
          \/ op[u] = "init" /\ SameStage(pc[u], pc'[u])
    BY <1>3
  <2>2. \A u \in Tasks : op'[u] = "init" =>
          /\ pc'[u] \in {"squeeze"} \cup SaveAt => gen.seed = top /\ disk = top
          /\ pc'[u] = "start" => /\ IsState(disk) /\ disk.steps = 1 /\ disk # top
                                 /\ gen.seed = top /\ \A h \in handedOut : h.seed # top
    BY <1>14, <2>1 DEF Line, SameStage, SaveAt
  <2> QED BY <1>1, <1>5, <1>14, <2>2 DEF Line
<1>15. Lineage'
  <2>1. CASE faults = 0
    <3>1. Clean /\ \E past, top : Line(past, top)
      BY <2>1 DEF NumbersInv, Lineage
    <3> QED BY <1>13, <1>14, <3>1 DEF Lineage
  <2> QED BY <1>1, <2>1 DEF Lineage
<1> QED BY <1>4, <1>8, <1>9, <1>10, <1>11, <1>12, <1>15 DEF NumbersInv
-----------------------------------------------------------------------------
(* Steps of the generator *)

\* A number is given: it is the state that nobody has been given yet.
LEMMA GiveNumber ==
  ASSUME MarksAreNoStates, TypeOK, Exclusion, NumbersInv,
         NEW t \in Threads, Squeeze(t), op[t] = "get_random_numbers"
  PROVE  NumbersInv'
<1> USE ConstantsAssumption DEF Threads
<1>1. /\ disk' = disk /\ view' = view /\ erred' = erred /\ mounted' = mounted
      /\ bootCount' = bootCount /\ gen' = gen /\ seed' = seed /\ sessions' = sessions
      /\ faults' = faults /\ op' = op
  BY DEF Squeeze, fileVars, bootVars, rndVars, runVars
<1>2. /\ pc \in [Threads -> PcValues] /\ pc[t] = "squeeze" /\ pc' = [pc EXCEPT ![t] = "rekey"]
      /\ pc'[t] = "rekey" /\ \A u \in Threads : u # t => pc'[u] = pc[u]
  BY DEF TypeOK, Squeeze, Goto
<1>3. \/ gen # Freed /\ handedOut' = handedOut \cup {gen}
         /\ repeated' = repeated \cup (handedOut \cap {gen})
      \/ gen = Freed /\ handedOut' = handedOut /\ repeated' = repeated
  BY DEF Squeeze
<1>4. /\ \A u \in Threads : u # t => pc[u] \notin Busy
      /\ t \in Tasks
      /\ NoInit /\ NoInit'
  <2>1. \A u \in Threads : u # t => pc[u] \notin Busy
    BY <1>2 DEF Exclusion, Busy
  <2>2. t \in Tasks
    BY <1>2 DEF Exclusion
  <2>3. NoInit
    BY <2>2 DEF Exclusion, NoInit
  <2> QED BY <1>1, <2>1, <2>2, <2>3 DEF NoInit
<1>5. Folds' = Folds /\ Kept' = Kept /\ Spared' = Spared
  BY <1>1 DEF Folds, Kept, Spared, FoldsAlike
<1>6. Initialising' /\ Generator'
  <2>1. Initialising'
    BY <1>4 DEF Initialising, NoInit
  <2>2. pc'[Entropy] = pc[Entropy]
    BY <1>2, <1>4
  <2> QED BY <1>1, <1>4, <1>5, <2>1, <2>2 DEF NumbersInv, Generator
<1>7. gen # Freed => IsState(gen) /\ gen.steps >= 2 /\ gen.fold \in Folds
  BY <1>4 DEF NumbersInv, Generator
<1>8. HandedOutOK' /\ KeptOK'
  BY <1>1, <1>3, <1>5, <1>7 DEF NumbersInv, HandedOutOK, KeptOK
<1>9. SeedOK'
  BY <1>1, <1>2, <1>4 DEF SeedOK, Saves, Busy, SaveAt
<1>10. Spared /\ gen # Freed => gen \notin handedOut \cup Kept
  <2> SUFFICES ASSUME Spared, gen # Freed PROVE gen \notin handedOut \cup Kept
    OBVIOUS
  <2>1. \A u \in Threads : pc[u] # "rekey"
    BY <1>2, <1>4 DEF Busy, SaveAt
  <2>2. gen.steps \in Nat /\ gen = State(gen.fold, gen.seed, gen.steps)
    BY <1>7 DEF IsState
  <2> QED BY <1>4, <2>1, <2>2 DEF NumbersInv, Ahead
<1>11. Distinct'
  BY <1>3, <1>5, <1>10 DEF NumbersInv, Distinct
<1>12. Ahead'
  <2> SUFFICES ASSUME Spared, gen # Freed, NEW n \in Nat, n >= gen.steps, n # gen.steps
               PROVE  State(gen.fold, gen.seed, n) \notin handedOut' \cup Kept
    BY <1>1, <1>2, <1>5 DEF Ahead
  <2>1. State(gen.fold, gen.seed, n) \notin handedOut \cup Kept
    BY <1>4 DEF NumbersInv, Ahead
  <2>2. State(gen.fold, gen.seed, n) # gen
    BY StateParts
  <2> QED BY <1>3, <2>1, <2>2
<1>13. Clean => Clean'
  BY <1>1, <1>2, <1>4 DEF Clean, Busy, SaveAt
<1>14. ASSUME NEW past, NEW top, Line(past, top) PROVE Line(past, top)'
  <2>1. gen # Freed => gen.seed = top /\ disk # top
    BY <1>4, <1>14 DEF Line
  <2>2. \A h \in handedOut' : h.seed \in past \cup {top}
    BY <1>3, <1>14, <2>1 DEF Line
  <2>3. disk = top => \A h \in handedOut' : h.seed # top
    BY <1>3, <1>14, <2>1 DEF Line
  <2> QED BY <1>1, <1>4, <1>14, <2>1, <2>2, <2>3 DEF Line, NoInit
<1>15. Lineage'
  BY <1>1, <1>13, <1>14 DEF NumbersInv, Lineage
<1> QED BY <1>6, <1>8, <1>9, <1>11, <1>12, <1>15 DEF NumbersInv

\* A new seed is squeezed, by init() or by the entropy task.
LEMMA SqueezeSeed ==
  ASSUME MarksAreNoStates, TypeOK, Exclusion, NumbersInv,
         NEW t \in Threads, Squeeze(t), op[t] # "get_random_numbers"
  PROVE  NumbersInv'
<1> USE ConstantsAssumption DEF Threads
<1>1. /\ disk' = disk /\ view' = view /\ erred' = erred /\ mounted' = mounted
      /\ bootCount' = bootCount /\ gen' = gen /\ seed' = gen /\ sessions' = sessions
      /\ faults' = faults /\ op' = op /\ handedOut' = handedOut /\ repeated' = repeated
  BY DEF Squeeze, fileVars, bootVars, rndVars, runVars
<1>2. /\ pc \in [Threads -> PcValues] /\ pc[t] = "squeeze" /\ pc' = [pc EXCEPT ![t] = "rekey"]
      /\ pc'[t] = "rekey" /\ \A u \in Threads : u # t => pc'[u] = pc[u]
  BY DEF TypeOK, Squeeze, Goto
<1>3. \A u \in Threads : u # t => pc[u] \notin Busy
  BY <1>2 DEF Exclusion, Busy
<1>4. Folds' = Folds /\ Kept' \subseteq Kept \cup {gen} /\ Spared' = Spared /\ NoInit' = NoInit
  BY <1>1 DEF Folds, Kept, Spared, FoldsAlike, NoInit
\* It is the one of init(), at its first step, or that of a session.
<1>5. /\ IsState(gen) /\ gen # Freed
      /\ \/ gen.steps = 1 /\ t \in Tasks /\ op[t] = "init"
         \/ NoInit /\ gen.fold \in Folds
  <2>1. CASE op[t] = "init"
    <3>1. t \in Tasks
      BY <1>2, <2>1 DEF Exclusion
    <3> QED BY <1>2, <2>1, <3>1, StateMarks DEF NumbersInv, Initialising
  <2>2. CASE t = Entropy
    <3>1. pc[Entropy] # "none" /\ NoInit
      BY <1>2, <2>2 DEF Exclusion, NoInit
    <3> QED BY <3>1 DEF NumbersInv, Generator
  <2> QED BY <1>2, <2>1, <2>2 DEF Exclusion
<1>6. Initialising'
  BY <1>1, <1>2, <1>3, <1>5 DEF NumbersInv, Initialising, Exclusion
<1>7. Generator'
  BY <1>1, <1>2, <1>4 DEF NumbersInv, Generator
<1>8. HandedOutOK' /\ KeptOK'
  BY <1>1, <1>4, <1>5 DEF NumbersInv, HandedOutOK, KeptOK
<1>9. SeedOK'
  <2>1. op[t] = "init" => gen.steps = 1
    BY <1>2, <1>5 DEF Exclusion, NoInit
  <2> QED BY <1>1, <1>2, <1>3, <1>5, <2>1 DEF SeedOK, Saves, Busy, SaveAt
<1>10. Spared => gen \notin handedOut
  <2>1. CASE gen.steps = 1
    BY <2>1 DEF NumbersInv, HandedOutOK
  <2>2. CASE NoInit
    <3>1. \A u \in Threads : pc[u] # "rekey"
      BY <1>2, <1>3 DEF Busy, SaveAt
    <3>2. gen.steps \in Nat /\ gen = State(gen.fold, gen.seed, gen.steps)
      BY <1>5 DEF IsState
    <3> QED BY <1>5, <2>2, <3>1, <3>2 DEF NumbersInv, Ahead
  <2> QED BY <1>5, <2>1, <2>2
<1>11. Distinct'
  BY <1>1, <1>4, <1>10 DEF NumbersInv, Distinct
<1>12. Ahead'
  <2> SUFFICES ASSUME Spared, NoInit, NEW n \in Nat, n >= gen.steps, n # gen.steps
               PROVE  State(gen.fold, gen.seed, n) \notin handedOut \cup Kept \cup {gen}
    BY <1>1, <1>2, <1>4 DEF Ahead
  <2>1. State(gen.fold, gen.seed, n) \notin handedOut \cup Kept
    BY <1>5 DEF NumbersInv, Ahead
  <2>2. State(gen.fold, gen.seed, n) # gen
    BY StateParts
  <2> QED BY <2>1, <2>2
<1>13. Clean => Clean'
  BY <1>1, <1>2, <1>3 DEF Clean, Busy, SaveAt
<1>14. ASSUME NEW past, NEW top, Line(past, top) PROVE Line(past, top)'
  <2>1. \A u \in Tasks : op[u] = "init" =>
          /\ pc'[u] \in {"squeeze"} \cup SaveAt => gen.seed = top /\ disk = top
          /\ pc'[u] = "start" => /\ IsState(disk) /\ disk.steps = 1 /\ disk # top
                                 /\ gen.seed = top /\ \A h \in handedOut : h.seed # top
    BY <1>2, <1>14 DEF Line, SaveAt
  <2> QED BY <1>1, <1>4, <1>14, <2>1 DEF Line
<1>15. Lineage'
  BY <1>1, <1>13, <1>14 DEF NumbersInv, Lineage
<1> QED BY <1>6, <1>7, <1>8, <1>9, <1>11, <1>12, <1>15 DEF NumbersInv

\* The generator moves on, after it was squeezed or as entropy is fed.
LEMMA MoveOn ==
  ASSUME MarksAreNoStates, TypeOK, Exclusion, NumbersInv, NEW t \in Threads,
         Rekey(t) \/ (t = Entropy /\ Feed)
  PROVE  NumbersInv'
<1> USE ConstantsAssumption DEF Threads
<1>1. /\ disk' = disk /\ view' = view /\ erred' = erred /\ mounted' = mounted
      /\ bootCount' = bootCount /\ gen' = Advance(gen) /\ seed' = seed /\ sessions' = sessions
      /\ faults' = faults /\ op' = op /\ handedOut' = handedOut /\ repeated' = repeated
  BY DEF Rekey, Feed, fileVars, bootVars, ghostVars, runVars
<1>2. \/ pc[t] = "rekey" /\ pc' = [pc EXCEPT ![t] = "give"] /\ op[t] = "get_random_numbers"
      \/ pc[t] = "rekey" /\ pc' = [pc EXCEPT ![t] = "store"] /\ op[t] # "get_random_numbers"
      \/ pc[t] = "feed" /\ pc' = [pc EXCEPT ![t] = "squeeze"] /\ t = Entropy
  BY DEF Rekey, Feed, Goto
<1>3. /\ pc \in [Threads -> PcValues]
      /\ \A u \in Threads : u # t => pc'[u] = pc[u]
      /\ \/ pc[t] = "rekey" /\ pc'[t] = "give" /\ op[t] = "get_random_numbers"
         \/ pc[t] = "rekey" /\ pc'[t] = "store" /\ op[t] # "get_random_numbers"
         \/ pc[t] = "feed" /\ pc'[t] = "squeeze" /\ t = Entropy
  BY <1>2 DEF TypeOK
<1>4. \A u \in Threads : u # t => pc[u] \notin Busy
  BY <1>3 DEF Exclusion, Busy, SaveAt
<1>5. Folds' = Folds /\ Kept' = Kept /\ Spared' = Spared /\ NoInit' = NoInit
  BY <1>1 DEF Folds, Kept, Spared, FoldsAlike, NoInit
<1>6. \/ gen = Freed /\ gen' = Freed
      \/ /\ IsState(gen) /\ gen # Freed /\ IsState(gen') /\ gen' # Freed
         /\ gen'.fold = gen.fold /\ gen'.seed = gen.seed /\ gen'.steps = gen.steps + 1
  <2>1. CASE gen = Freed
    BY <1>1, <2>1 DEF Advance
  <2>2. CASE IsState(gen)
    BY <1>1, <2>2, AdvanceState, StateMarks
  <2> QED BY <2>1, <2>2 DEF NumbersInv, Generator
<1>7. Initialising'
  <2> SUFFICES ASSUME NEW u \in Tasks, op[u] = "init", pc'[u] # "create"
               PROVE  /\ IsState(gen') /\ gen'.fold = Fold(bootCount)
                      /\ pc'[u] = "store" /\ gen'.steps = 2
    BY <1>1 DEF Initialising
  <2>1. u = t
    BY <1>3 DEF Exclusion
  <2>2. /\ pc[t] = "rekey" /\ pc'[t] = "store"
    BY <1>3, <2>1
  <2> QED BY <1>1, <1>6, <2>1, <2>2, StateMarks DEF NumbersInv, Initialising
<1>8. Generator'
  <2>1. pc'[Entropy] # "none" => pc[Entropy] # "none"
    BY <1>3
  <2>2. gen' = Freed \/ IsState(gen')
    BY <1>6
  <2>3. pc'[Entropy] # "none" => gen' # Freed
    BY <1>6, <2>1 DEF NumbersInv, Generator
  <2>4. gen' # Freed /\ NoInit => gen'.steps >= 2 /\ gen'.fold \in Folds
    BY <1>6 DEF NumbersInv, Generator, IsState
  <2>5. pc[Entropy] # "none" \/ ~NoInit => mounted
    BY DEF NumbersInv, Generator
  <2> QED BY <1>1, <1>5, <2>1, <2>2, <2>3, <2>4, <2>5 DEF Generator
<1>9. HandedOutOK' /\ KeptOK'
  BY <1>1, <1>5 DEF NumbersInv, HandedOutOK, KeptOK
<1>10. SeedOK'
  <2> SUFFICES ASSUME NEW u \in Threads, pc'[u] \in SaveAt, op[u] # "get_random_numbers"
               PROVE  /\ IsState(seed) /\ seed.fold = gen'.fold /\ seed.seed = gen'.seed
                      /\ op[u] = "init" => seed.steps = 1
    BY <1>1 DEF SeedOK, Saves
  <2>1. pc[u] \in SaveAt
    BY <1>3 DEF SaveAt
  <2>2. u = t /\ pc[t] = "rekey"
    BY <1>3, <1>4, <2>1 DEF Busy, SaveAt
  <2>3. gen # Freed
    <3>1. CASE op[t] = "init"
      BY <2>2, <3>1, StateMarks DEF Exclusion, NumbersInv, Initialising
    <3>2. CASE op[t] = "save"
      BY <2>2, <3>2 DEF Exclusion, NumbersInv, Generator
    <3> QED BY <2>2, <3>1, <3>2 DEF Exclusion
  <2> QED BY <1>6, <2>1, <2>3 DEF NumbersInv, SeedOK, Saves
<1>11. Distinct'
  BY <1>1, <1>5 DEF NumbersInv, Distinct
<1>12. Ahead'
  <2> SUFFICES ASSUME Spared, NoInit, gen' # Freed, NEW n \in Nat, n >= gen'.steps
               PROVE  State(gen'.fold, gen'.seed, n) \notin handedOut \cup Kept
    BY <1>1, <1>5 DEF Ahead
  <2>1. gen # Freed /\ n >= gen.steps /\ n # gen.steps
    BY <1>6 DEF IsState
  <2>2. gen'.fold = gen.fold /\ gen'.seed = gen.seed
    BY <1>6, <2>1
  <2> QED BY <2>1, <2>2 DEF NumbersInv, Ahead
<1>13. Clean => Clean'
  <2>1. \A u \in Threads : pc'[u] \in {"commit", "sync"} <=> pc[u] \in {"commit", "sync"}
    BY <1>3
  <2> QED BY <1>1, <2>1 DEF Clean
<1>14. ASSUME NEW past, NEW top, Line(past, top) PROVE Line(past, top)'
  <2>1. gen # Freed => gen'.seed = gen.seed
    BY <1>6
  <2>2. \A u \in Tasks : op[u] = "init" =>
          /\ pc'[u] \in {"squeeze"} \cup SaveAt => gen'.seed = top /\ disk = top
          /\ pc'[u] # "start" \/ u # t
    <3> SUFFICES ASSUME NEW u \in Tasks, op[u] = "init"
                 PROVE  /\ pc'[u] \in {"squeeze"} \cup SaveAt => gen'.seed = top /\ disk = top
                        /\ pc'[u] # "start" \/ u # t
      OBVIOUS
    <3>1. pc'[u] # "start" \/ u # t
      BY <1>3
    <3>2. pc'[u] \in {"squeeze"} \cup SaveAt => u = t /\ pc[u] = "rekey"
      BY <1>3, <1>4 DEF Busy, Exclusion
    <3>3. pc[u] = "rekey" => gen # Freed /\ gen.seed = top /\ disk = top
      BY <1>14, StateMarks DEF Line, SaveAt, NumbersInv, Initialising
    <3> QED BY <2>1, <3>1, <3>2, <3>3
  <2>3. \A u \in Tasks : op[u] = "init" => pc'[u] # "start"
    BY <1>3, <2>2 DEF Exclusion
  <2>4. gen' # Freed /\ NoInit => gen'.seed = top /\ disk # top
    BY <1>6, <1>14 DEF Line
  <2> QED BY <1>1, <1>5, <1>14, <2>2, <2>3, <2>4 DEF Line
<1>15. Lineage'
  BY <1>1, <1>13, <1>14 DEF NumbersInv, Lineage
<1> QED BY <1>7, <1>8, <1>9, <1>10, <1>11, <1>12, <1>15 DEF NumbersInv

\* init() makes a generator.
LEMMA CreateStep ==
  ASSUME MarksAreNoStates, TypeOK, Exclusion, NumbersInv, NEW t \in Tasks, Create(t)
  PROVE  NumbersInv'
<1> USE ConstantsAssumption DEF Threads
<1>1. /\ disk' = disk /\ view' = view /\ erred' = erred /\ mounted' = mounted
      /\ bootCount' = bootCount /\ gen' = State(Fold(bootCount), NoSeed, 0) /\ seed' = seed
      /\ sessions' = sessions /\ faults' = faults /\ op' = op /\ handedOut' = handedOut
      /\ repeated' = repeated
  BY DEF Create, State, fileVars, bootVars, ghostVars, runVars
<1>2. /\ pc \in [Threads -> PcValues] /\ pc[t] = "create" /\ pc'[t] = "load"
      /\ \A u \in Threads : u # t => pc'[u] = pc[u]
  BY DEF TypeOK, Create, Goto
<1>3. /\ op[t] = "init" /\ ~NoInit /\ ~NoInit'
      /\ \A u \in Threads : u # t => pc[u] \in {"idle", "none"}
      /\ \A u \in Tasks : op[u] = "init" => u = t
  BY <1>1, <1>2 DEF Exclusion, NoInit
<1>4. Folds' = Folds /\ Kept' = Kept /\ Spared' = Spared
  BY <1>1 DEF Folds, Kept, Spared, FoldsAlike
<1>5. IsState(gen') /\ gen'.fold = Fold(bootCount) /\ gen'.seed = NoSeed /\ gen'.steps = 0
  BY <1>1, StateParts
<1>6. Initialising'
  BY <1>1, <1>2, <1>3, <1>5 DEF Initialising
<1>7. Generator'
  BY <1>1, <1>3, <1>5, StateMarks DEF NumbersInv, Generator
<1>8. HandedOutOK' /\ KeptOK'
  BY <1>1, <1>4 DEF NumbersInv, HandedOutOK, KeptOK
<1>9. SeedOK' /\ Ahead'
  BY <1>2, <1>3 DEF SeedOK, Saves, SaveAt, Ahead
<1>10. Distinct'
  BY <1>1, <1>4 DEF NumbersInv, Distinct
<1>11. Clean => Clean'
  BY <1>1, <1>2, <1>3 DEF Clean
<1>12. ASSUME NEW past, NEW top, Line(past, top) PROVE Line(past, top)'
  BY <1>1, <1>2, <1>3, <1>12 DEF Line, SaveAt
<1>13. Lineage'
  BY <1>1, <1>11, <1>12 DEF NumbersInv, Lineage
<1> QED BY <1>6, <1>7, <1>8, <1>9, <1>10, <1>13 DEF NumbersInv

\* init() loads the seed that is kept, and the generator is the first to.
LEMMA LoadStep ==
  ASSUME MarksAreNoStates, TypeOK, Exclusion, NumbersInv, NEW t \in Threads,
         Load(t) \/ LoadFails(t)
  PROVE  NumbersInv'
<1> USE ConstantsAssumption DEF Threads
<1>1. /\ disk' = disk /\ view' = view /\ mounted' = mounted /\ bootCount' = bootCount
      /\ seed' = seed /\ sessions' = sessions /\ op' = op /\ handedOut' = handedOut
      /\ repeated' = repeated
  BY DEF Load, LoadFails, fileVars, bootVars, ghostVars, runVars
<1>2. /\ pc \in [Threads -> PcValues] /\ pc[t] = "read" /\ pc'[t] = "squeeze"
      /\ \A u \in Threads : u # t => pc'[u] = pc[u]
  BY DEF TypeOK, Load, LoadFails, GiveFiles, Goto
<1>3. /\ t \in Tasks /\ op[t] = "init" /\ ~NoInit /\ ~NoInit' /\ pc'[Entropy] = "none"
      /\ \A u \in Threads : u # t => pc[u] \in {"idle", "none"}
      /\ \A u \in Tasks : op[u] = "init" => u = t
  BY <1>1, <1>2 DEF Exclusion, NoInit
<1>4. faults \in Nat /\ (faults' = faults \/ faults' = faults + 1)
  <2>1. faults \in Nat
    BY DEF TypeOK
  <2>2. faults' = faults \/ faults' = faults + 1
    BY DEF Load, LoadFails, Fault, runVars
  <2> QED BY <2>1, <2>2
<1>5. Folds' = Folds /\ Kept' = Kept /\ (Spared' => Spared)
  BY <1>1, <1>4 DEF Folds, Kept, Spared, FoldsAlike
<1>6. /\ IsState(gen) /\ gen.fold = Fold(bootCount) /\ gen.seed = NoSeed /\ gen.steps = 0
  BY <1>2, <1>3 DEF NumbersInv, Initialising
<1>7. /\ IsState(gen') /\ gen'.fold = Fold(bootCount) /\ gen'.steps = 1
      /\ faults' = faults => \/ view # NoSeed /\ gen'.seed = view
                             \/ view \in {NoSeed, TornSeed} /\ gen'.seed = NoSeed
  <2>1. CASE gen' = Advance(gen)
    <3>1. /\ IsState(gen') /\ gen'.fold = Fold(bootCount) /\ gen'.steps = 1
          /\ gen'.seed = NoSeed
      BY <1>6, <2>1, AdvanceState
    <3>2. CASE view \in {NoSeed, TornSeed}
      BY <3>1, <3>2
    <3>3. CASE faults' # faults
      BY <3>1, <3>3
    <3>4. CASE Load(t) /\ view \notin {NoSeed, TornSeed}
      <4>1. gen' = Advance([gen EXCEPT !.seed = view])
        BY <3>4 DEF Load
      <4>2. [gen EXCEPT !.seed = view] = State(Fold(bootCount), view, 0)
        BY <1>6, LoadState
      <4> QED BY <3>1, <3>4, <4>1, <4>2, StateParts, AdvanceState
    <3>5. LoadFails(t) => faults' # faults
      BY <1>4 DEF LoadFails, Fault
    <3> QED BY <3>2, <3>3, <3>4, <3>5
  <2>2. CASE gen' = Advance([gen EXCEPT !.seed = view]) /\ view # NoSeed
    <3>1. [gen EXCEPT !.seed = view] = State(Fold(bootCount), view, 0)
      BY <1>6, LoadState
    <3>2. /\ IsState(State(Fold(bootCount), view, 0))
          /\ State(Fold(bootCount), view, 0).fold = Fold(bootCount)
          /\ State(Fold(bootCount), view, 0).seed = view
          /\ State(Fold(bootCount), view, 0).steps = 0
      BY StateParts
    <3>3. IsState(gen') /\ gen'.fold = Fold(bootCount) /\ gen'.seed = view /\ gen'.steps = 0 + 1
      BY <2>2, <3>1, <3>2, AdvanceState
    <3> QED BY <2>2, <3>3
  <2> QED BY <2>1, <2>2 DEF Load, LoadFails
<1>8. Initialising'
  BY <1>1, <1>2, <1>3, <1>7 DEF Initialising
<1>9. Generator'
  BY <1>1, <1>3, <1>7, StateMarks DEF NumbersInv, Generator
<1>10. HandedOutOK' /\ KeptOK'
  BY <1>1, <1>5 DEF NumbersInv, HandedOutOK, KeptOK
<1>11. SeedOK' /\ Ahead'
  BY <1>2, <1>3 DEF SeedOK, Saves, SaveAt, Ahead
<1>12. Distinct'
  BY <1>1, <1>5 DEF NumbersInv, Distinct
<1>13. ASSUME faults' = 0 PROVE Clean' /\ \E past, top : Line(past, top)'
  <2>1. faults = 0 /\ faults' = faults /\ Clean
    <3>1. faults = 0 /\ faults' = faults
      BY <1>4, <1>13
    <3> QED BY <3>1 DEF NumbersInv, Lineage
  <2>2. PICK past, top : Line(past, top)
    BY <2>1 DEF NumbersInv, Lineage
  <2>3. erred' = erred
    BY <1>4, <2>1 DEF Load, LoadFails, Fault, fileVars
  <2>4. Clean' /\ view = disk
    BY <1>1, <1>2, <1>3, <2>1, <2>3 DEF Clean
  <2>5. disk = NoSeed \/ IsState(disk)
    BY <2>2 DEF Line
  <2>6. gen'.seed = disk
    BY <1>7, <2>1, <2>4, <2>5, StateMarks
  <2>7. CASE disk = top
    <3>1. Line(past, top)'
      BY <1>1, <1>2, <1>3, <2>2, <2>6, <2>7 DEF Line, SaveAt
    <3> QED BY <2>4, <3>1
  <2>8. CASE disk # top
    <3>1. IsState(disk) /\ disk.seed = top
      BY <2>2, <2>8 DEF Line
    <3>2. disk \notin past \cup {top}
      BY <2>2, <2>8, <3>1, StateMarks DEF Line
    <3>3. Line(past \cup {top}, disk)'
      <4>1. \A x \in past \cup {top} \cup {disk} :
              x = NoSeed \/ (IsState(x) /\ x.seed \in past \cup {top})
        BY <2>2, <3>1 DEF Line
      <4>2. \A h \in handedOut : h.seed \in past \cup {top} /\ h.seed # disk
        BY <2>2, <3>2 DEF Line
      <4> QED BY <1>1, <1>2, <1>3, <2>6, <3>2, <4>1, <4>2 DEF Line, SaveAt
    <3> QED BY <2>4, <3>3
  <2> QED BY <2>4, <2>7, <2>8
<1>14. Lineage'
  BY <1>13 DEF Lineage
<1> QED BY <1>8, <1>9, <1>10, <1>11, <1>12, <1>14 DEF NumbersInv
-----------------------------------------------------------------------------
(* Steps of the seed file *)

\* The seed is written, and not yet committed.
LEMMA WriteStep ==
  ASSUME MarksAreNoStates, TypeOK, Exclusion, NumbersInv, NEW t \in Threads, Write(t)
  PROVE  NumbersInv'
<1> USE ConstantsAssumption DEF Threads
<1>1. /\ disk' = disk /\ view' = seed /\ erred' = FALSE /\ mounted' = mounted
      /\ bootCount' = bootCount /\ gen' = gen /\ seed' = seed /\ sessions' = sessions
      /\ faults' = faults /\ op' = op /\ handedOut' = handedOut /\ repeated' = repeated
  BY DEF Write, Written, bootVars, rndVars, ghostVars, runVars
<1>2. /\ pc \in [Threads -> PcValues] /\ pc[t] = "write" /\ pc'[t] = "commit"
      /\ \A u \in Threads : u # t => pc'[u] = pc[u]
  BY DEF TypeOK, Write, Written, GiveFiles, Goto
<1>3. \A u \in Threads : u # t => pc[u] \notin Busy
  BY <1>2 DEF Exclusion, Busy, SaveAt
<1>4. Folds' = Folds /\ Kept' \subseteq Kept /\ Spared' = Spared /\ NoInit' = NoInit
  BY <1>1 DEF Folds, Kept, Spared, FoldsAlike, NoInit
<1>5. Initialising'
  BY <1>1, <1>2 DEF NumbersInv, Initialising
<1>6. Generator'
  BY <1>1, <1>2, <1>4 DEF NumbersInv, Generator
<1>7. HandedOutOK' /\ KeptOK'
  BY <1>1, <1>4 DEF NumbersInv, HandedOutOK, KeptOK
<1>8. SeedOK'
  BY <1>1, <1>2 DEF NumbersInv, SeedOK, Saves, SaveAt
<1>9. Ahead'
  <2>1. \A u \in Threads : pc[u] # "rekey"
    BY <1>2, <1>3 DEF Busy, SaveAt
  <2> QED BY <1>1, <1>4, <2>1 DEF NumbersInv, Ahead
<1>10. Distinct'
  BY <1>1, <1>4 DEF NumbersInv, Distinct
<1>11. Clean'
  BY <1>1, <1>2, <1>3 DEF Clean
<1>12. ASSUME NEW past, NEW top, Line(past, top) PROVE Line(past, top)'
  BY <1>1, <1>2, <1>4, <1>12 DEF Line, SaveAt
<1>13. Lineage'
  BY <1>1, <1>11, <1>12 DEF NumbersInv, Lineage
<1> QED BY <1>5, <1>6, <1>7, <1>8, <1>9, <1>10, <1>13 DEF NumbersInv

\* The storage callback is over, whatever became of the seed.
LEMMA StoreEnds ==
  ASSUME MarksAreNoStates, TypeOK, Exclusion, NumbersInv, NEW t \in Threads,
         WriteFails(t) \/ Sync(t) \/ SyncFails(t)
  PROVE  NumbersInv'
<1> USE ConstantsAssumption DEF Threads
<1>1. /\ mounted' = mounted /\ bootCount' = bootCount /\ gen' = gen /\ seed' = NoSeed
      /\ sessions' = sessions /\ op' = op /\ handedOut' = handedOut /\ repeated' = repeated
      /\ disk' \in {disk, view} /\ view' \in {view, TornSeed}
  BY DEF WriteFails, Sync, SyncFails, StoreReturns, bootVars, rndVars, ghostVars
<1>2. /\ pc \in [Threads -> PcValues] /\ pc[t] \in {"write", "sync"}
      /\ pc'[t] = IF op[t] = "save" THEN "give" ELSE "start"
      /\ \A u \in Threads : u # t => pc'[u] = pc[u]
  BY DEF TypeOK, WriteFails, Sync, SyncFails, StoreReturns, GiveFiles, Goto
<1>3. /\ \A u \in Threads : u # t => pc[u] \notin Busy
      /\ \/ op[t] = "init" /\ t \in Tasks /\ pc'[t] = "start"
         \/ op[t] = "save" /\ t = Entropy /\ pc'[t] = "give"
  <2>1. \A u \in Threads : u # t => pc[u] \notin Busy
    BY <1>2 DEF Exclusion, Busy, SaveAt
  <2>2. op[t] \in {"init", "save"}
    BY <1>2 DEF Exclusion
  <2>3. op[t] = "save" => t = Entropy
    BY DEF Exclusion
  <2>4. op[t] = "init" => t \in Tasks
    BY <1>2 DEF Exclusion
  <2> QED BY <1>2, <2>1, <2>2, <2>3, <2>4
<1>4. faults' = faults \/ faults' # 0
  <2>1. faults \in Nat
    BY DEF TypeOK
  <2>2. faults' = faults \/ faults' = faults + 1
    BY DEF WriteFails, Sync, SyncFails, Fault, runVars
  <2> QED BY <2>1, <2>2
<1>5. /\ Folds' = Folds /\ Kept' \subseteq Kept \cup {NoSeed, TornSeed}
      /\ Spared' => Spared
      /\ NoInit' = NoInit
  BY <1>1, <1>4 DEF Folds, Kept, Spared, FoldsAlike, NoInit
<1>6. Initialising'
  BY <1>1, <1>2, <1>3 DEF NumbersInv, Initialising
<1>7. Generator'
  BY <1>1, <1>2, <1>3, <1>5 DEF NumbersInv, Generator
<1>8. HandedOutOK' /\ KeptOK'
  BY <1>1, <1>5 DEF NumbersInv, HandedOutOK, KeptOK
<1>9. SeedOK'
  BY <1>1, <1>2, <1>3 DEF SeedOK, Saves, Busy, SaveAt
<1>10. Ahead'
  <2> SUFFICES ASSUME Spared, NoInit, gen # Freed, NEW n \in Nat, n >= gen.steps
               PROVE  State(gen.fold, gen.seed, n) \notin
                        handedOut \cup Kept \cup {NoSeed, TornSeed}
    BY <1>1, <1>5 DEF Ahead
  <2>1. \A u \in Threads : pc[u] # "rekey"
    BY <1>2, <1>3 DEF Busy, SaveAt
  <2>2. State(gen.fold, gen.seed, n) \notin handedOut \cup Kept
    BY <2>1 DEF NumbersInv, Ahead
  <2> QED BY <2>2, StateParts, StateMarks
<1>11. Distinct'
  <2>1. NoSeed \notin handedOut /\ TornSeed \notin handedOut
    BY StateMarks DEF NumbersInv, HandedOutOK
  <2> QED BY <1>1, <1>5, <2>1 DEF NumbersInv, Distinct
<1>12. ASSUME faults' = 0 PROVE Clean' /\ \E past, top : Line(past, top)'
  <2>1. faults = 0 /\ Clean
    BY <1>4, <1>12 DEF NumbersInv, Lineage
  <2>2. PICK past, top : Line(past, top)
    BY <2>1 DEF NumbersInv, Lineage
  <2>3. Sync(t) /\ pc[t] = "sync"
    <3>1. Fault => faults' # 0
      BY <2>1 DEF Fault
    <3> QED BY <1>12, <3>1 DEF WriteFails, Sync, SyncFails
  <2>4. view = seed /\ erred = FALSE
    BY <2>1, <2>3 DEF Clean
  <2>5. disk' = seed /\ view' = seed /\ erred' = FALSE
    BY <2>3, <2>4 DEF Sync
  <2>6. Clean'
    BY <1>2, <1>3, <2>5 DEF Clean, Busy, SaveAt
  <2>7. /\ IsState(seed) /\ seed.seed = gen.seed
        /\ op[t] = "init" => seed.steps = 1
    BY <1>3, <2>3 DEF NumbersInv, SeedOK, Saves, SaveAt
  \* The generator has loaded the last seed.
  <2>8. gen.seed = top
    <3>1. CASE op[t] = "init"
      BY <1>3, <2>2, <2>3, <3>1 DEF Line, SaveAt
    <3>2. CASE op[t] = "save"
      <4>1. NoInit /\ gen # Freed
        BY <1>3, <2>3, <3>2 DEF NumbersInv, Generator, Exclusion, NoInit
      <4> QED BY <2>2, <4>1 DEF Line
    <3> QED BY <1>3, <3>1, <3>2
  <2>9. seed # top
    <3>1. top = NoSeed \/ top.seed \in past
      BY <2>2 DEF Line
    <3> QED BY <2>2, <2>7, <2>8, <3>1, StateMarks DEF Line
  <2>10. op[t] = "init" => \A h \in handedOut : h.seed # top
    BY <1>3, <2>2, <2>3 DEF Line, SaveAt
  <2>11. \A u \in Tasks : op[u] = "init" => u = t
    BY <1>2, <1>3 DEF Exclusion
  <2>12. Line(past, top)'
    BY <1>1, <1>2, <1>3, <1>5, <2>2, <2>5, <2>7, <2>8, <2>9, <2>10, <2>11 DEF Line, SaveAt
  <2> QED BY <2>6, <2>12
<1>13. Lineage'
  BY <1>12 DEF Lineage
<1> QED BY <1>6, <1>7, <1>8, <1>9, <1>10, <1>11, <1>13 DEF NumbersInv
-----------------------------------------------------------------------------
(* Steps of init(), deinit() and the device *)

\* The session begins.
LEMMA StartStep ==
  ASSUME MarksAreNoStates, TypeOK, Exclusion, NumbersInv, NEW t \in Tasks, Start(t)
  PROVE  NumbersInv'
<1> USE ConstantsAssumption DEF Threads
<1>1. /\ disk' = disk /\ view' = view /\ erred' = erred /\ mounted' = mounted
      /\ bootCount' = bootCount /\ gen' = gen /\ seed' = seed
      /\ faults' = faults /\ handedOut' = handedOut /\ repeated' = repeated
      /\ sessions' = Append(sessions, bootCount)
  BY DEF Start, fileVars, bootVars, runVars
<1>2. /\ pc \in [Threads -> PcValues] /\ pc[t] = "start" /\ pc'[t] = "idle"
      /\ pc'[Entropy] = "sample" /\ \A u \in Tasks : u # t => pc'[u] = pc[u]
  BY DEF TypeOK, Start
<1>3. /\ op[t] = "init" /\ ~NoInit /\ pc[Entropy] = "none"
      /\ \A u \in Tasks : u # t => pc[u] = "idle" /\ op[u] = "none"
  BY <1>2 DEF Exclusion, NoInit
<1>4. NoInit'
  <2>1. \A u \in Tasks : op'[u] = "none"
    BY <1>3 DEF TypeOK, Start
  <2> QED BY <2>1 DEF NoInit
<1>5. /\ IsState(gen) /\ gen # Freed /\ gen.fold = Fold(bootCount) /\ gen.steps = 2
      /\ seed = NoSeed
  BY <1>2, <1>3, StateMarks DEF NumbersInv, Initialising
<1>6. /\ DOMAIN sessions' = DOMAIN sessions \cup {Len(sessions) + 1}
      /\ Len(sessions) + 1 \notin DOMAIN sessions
      /\ sessions'[Len(sessions) + 1] = bootCount
      /\ \A i \in DOMAIN sessions : sessions'[i] = sessions[i]
  <2>1. sessions \in Seq(Nat) /\ bootCount \in Nat
    BY DEF TypeOK
  <2> QED BY <1>1, <2>1
<1>7. Folds' = Folds \cup {Fold(bootCount)}
  BY <1>6 DEF Folds
<1>8. Kept' = Kept
  BY <1>1 DEF Kept
<1>9. FoldsAlike => FoldsAlike'
  BY <1>6 DEF FoldsAlike
<1>10. ~FoldsAlike' => Fold(bootCount) \notin Folds
  BY <1>6 DEF FoldsAlike, Folds
<1>11. Spared' => Spared
  BY <1>1, <1>9 DEF Spared
<1>12. Initialising'
  BY <1>4 DEF Initialising, NoInit
<1>13. Generator'
  BY <1>1, <1>3, <1>5, <1>7, <1>4 DEF NumbersInv, Generator
<1>14. HandedOutOK' /\ KeptOK'
  BY <1>1, <1>7, <1>8 DEF NumbersInv, HandedOutOK, KeptOK
<1>15. \A u \in Threads : pc'[u] \in {"idle", "sample"}
  BY <1>2, <1>3
<1>16. SeedOK'
  BY <1>15 DEF SeedOK, Saves, SaveAt
<1>17. Distinct'
  BY <1>1, <1>8, <1>11 DEF NumbersInv, Distinct
<1>18. Clean => Clean'
  BY <1>1, <1>2, <1>3, <1>15 DEF Clean
<1>19. Ahead'
  <2> SUFFICES ASSUME Spared', NEW n \in Nat, n >= 2
               PROVE  State(gen.fold, gen.seed, n) \notin handedOut \cup Kept
    BY <1>1, <1>5, <1>8 DEF Ahead
  <2> DEFINE g == State(gen.fold, gen.seed, n)
  <2>1. IsState(g) /\ g.fold = Fold(bootCount) /\ g.seed = gen.seed /\ g.steps = n
    BY <1>5, StateParts
  <2>2. CASE faults = 0
    <3>1. Clean /\ \E past, top : Line(past, top)
      BY <2>2 DEF NumbersInv, Lineage
    <3>2. disk.steps = 1 /\ \A h \in handedOut : h.seed # gen.seed
      BY <1>2, <1>3, <3>1 DEF Line
    <3>3. view = disk
      BY <1>2, <1>3, <3>1 DEF Clean
    <3>4. g \notin handedOut /\ g # disk /\ g # NoSeed
      BY <2>1, <3>2, StateMarks
    <3> QED BY <1>5, <3>3, <3>4 DEF Kept
  <2>3. CASE ~FoldsAlike'
    <3>1. Fold(bootCount) \notin Folds
      BY <1>10, <2>3
    <3>2. g \notin handedOut
      BY <2>1, <3>1 DEF NumbersInv, HandedOutOK
    <3>3. g \notin Kept
      BY <2>1, <3>1, StateMarks DEF NumbersInv, KeptOK
    <3> QED BY <3>2, <3>3
  <2> QED BY <1>1, <2>2, <2>3 DEF Spared
<1>20. ASSUME NEW past, NEW top, Line(past, top) PROVE Line(past, top)'
  <2>1. gen.seed = top /\ disk # top
    BY <1>2, <1>3, <1>20 DEF Line
  <2>2. \A u \in Tasks : op'[u] # "init"
    BY <1>4 DEF NoInit
  <2> QED BY <1>1, <1>20, <2>1, <2>2 DEF Line
<1>21. Lineage'
  BY <1>1, <1>18, <1>20 DEF NumbersInv, Lineage
<1> QED BY <1>12, <1>13, <1>14, <1>16, <1>17, <1>19, <1>21 DEF NumbersInv

\* The session ends, and the generator with it.
LEMMA StopStep ==
  ASSUME MarksAreNoStates, TypeOK, Exclusion, NumbersInv, NEW t \in Tasks, Stop(t)
  PROVE  NumbersInv'
<1> USE ConstantsAssumption DEF Threads
<1>1. /\ disk' = disk /\ view' = view /\ erred' = erred /\ mounted' = mounted
      /\ bootCount' = bootCount /\ gen' = Freed /\ seed' = seed /\ sessions' = sessions
      /\ faults' = faults /\ handedOut' = handedOut /\ repeated' = repeated
  BY DEF Stop, fileVars, bootVars, ghostVars, runVars
<1>2. /\ pc \in [Threads -> PcValues] /\ pc[t] = "stop" /\ pc'[t] = "unlock"
      /\ pc'[Entropy] = "none" /\ \A u \in Tasks : u # t => pc'[u] = pc[u]
  BY DEF TypeOK, Stop
<1>3. /\ \A u \in Threads : pc[u] \notin Busy
      /\ NoInit
  BY <1>2 DEF Exclusion, NoInit
<1>4. NoInit'
  <2>1. \A u \in Tasks : op'[u] = op[u]
    BY DEF TypeOK, Stop
  <2> QED BY <1>3, <2>1 DEF NoInit
<1>5. Folds' = Folds /\ Kept' = Kept /\ Spared' = Spared
  BY <1>1 DEF Folds, Kept, Spared, FoldsAlike
<1>6. \A u \in Threads : pc'[u] \notin SaveAt
  BY <1>2, <1>3 DEF Busy, SaveAt
<1>7. Initialising' /\ Generator' /\ Ahead'
  BY <1>1, <1>2, <1>4 DEF Initialising, Generator, Ahead, NoInit
<1>8. HandedOutOK' /\ KeptOK' /\ Distinct'
  BY <1>1, <1>5 DEF NumbersInv, HandedOutOK, KeptOK, Distinct
<1>9. SeedOK'
  BY <1>6 DEF SeedOK, Saves
<1>10. Clean => Clean'
  BY <1>1, <1>3, <1>6 DEF Clean, Busy, SaveAt
<1>11. ASSUME NEW past, NEW top, Line(past, top) PROVE Line(past, top)'
  BY <1>1, <1>4, <1>11 DEF Line, NoInit
<1>12. Lineage'
  BY <1>1, <1>10, <1>11 DEF NumbersInv, Lineage
<1> QED BY <1>7, <1>8, <1>9, <1>12 DEF NumbersInv

\* file::init() reads what is committed.
LEMMA MountStep ==
  ASSUME MarksAreNoStates, TypeOK, Exclusion, NumbersInv, MountFiles
  PROVE  NumbersInv'
<1> USE ConstantsAssumption DEF Threads
<1>1. /\ disk' = disk /\ view' = disk /\ erred' = FALSE /\ gen' = gen /\ seed' = seed
      /\ sessions' = sessions /\ faults' = faults /\ handedOut' = handedOut
      /\ repeated' = repeated /\ pc' = pc /\ op' = op
  BY DEF MountFiles, lockVars, rndVars, threadVars, ghostVars, runVars
<1>2. /\ NoInit /\ pc[Entropy] = "none" /\ \A u \in Threads : pc[u] \in {"idle", "none"}
  <2>1. ~mounted /\ \A u \in Tasks : pc[u] = "idle"
    BY DEF MountFiles
  <2>2. NoInit /\ pc[Entropy] = "none"
    BY <2>1 DEF NumbersInv, Generator
  <2> QED BY <2>1, <2>2
<1>3. Folds' = Folds /\ Kept' \subseteq Kept /\ Spared' = Spared /\ NoInit'
  BY <1>1, <1>2 DEF Folds, Kept, Spared, FoldsAlike, NoInit
<1>4. Initialising' /\ SeedOK'
  BY <1>1, <1>2, <1>3 DEF Initialising, NoInit, SeedOK, Saves, SaveAt
<1>5. Generator' /\ Ahead'
  BY <1>1, <1>2, <1>3 DEF NumbersInv, Generator, Ahead
<1>6. HandedOutOK' /\ KeptOK' /\ Distinct'
  BY <1>1, <1>3 DEF NumbersInv, HandedOutOK, KeptOK, Distinct
<1>7. Clean'
  BY <1>1, <1>2 DEF Clean
<1>8. ASSUME NEW past, NEW top, Line(past, top) PROVE Line(past, top)'
  BY <1>1, <1>2, <1>8 DEF Line, NoInit
<1>9. Lineage'
  BY <1>1, <1>7, <1>8 DEF NumbersInv, Lineage
<1> QED BY <1>4, <1>5, <1>6, <1>9 DEF NumbersInv

\* A reset leaves what is committed.
LEMMA ResetStep ==
  ASSUME MarksAreNoStates, NumbersInv, Crash
  PROVE  NumbersInv'
<1> USE ConstantsAssumption DEF Threads
<1>1. /\ disk' = disk /\ view' = disk /\ erred' = FALSE /\ gen' = Freed /\ seed' = NoSeed
      /\ sessions' = sessions /\ faults' = faults /\ handedOut' = handedOut
      /\ repeated' = repeated /\ pc'[Entropy] = "none"
      /\ \A u \in Threads : op'[u] = "none" /\ pc'[u] \in {"idle", "none"}
  BY DEF Crash
<1>2. /\ Folds' = Folds /\ Kept' \subseteq Kept \cup {NoSeed} /\ Spared' = Spared /\ NoInit'
  BY <1>1 DEF Folds, Kept, Spared, FoldsAlike, NoInit
<1>3. Initialising' /\ SeedOK' /\ Generator' /\ Ahead'
  BY <1>1, <1>2 DEF Initialising, NoInit, SeedOK, Saves, SaveAt, Generator, Ahead
<1>4. HandedOutOK' /\ KeptOK'
  BY <1>1, <1>2 DEF NumbersInv, HandedOutOK, KeptOK
<1>5. Distinct'
  <2>1. NoSeed \notin handedOut
    BY StateMarks DEF NumbersInv, HandedOutOK
  <2> QED BY <1>1, <1>2, <2>1 DEF NumbersInv, Distinct
<1>6. Clean'
  BY <1>1 DEF Clean
<1>7. ASSUME NEW past, NEW top, Line(past, top) PROVE Line(past, top)'
  BY <1>1, <1>2, <1>7 DEF Line, NoInit
<1>8. Lineage'
  BY <1>1, <1>6, <1>7 DEF NumbersInv, Lineage
<1> QED BY <1>3, <1>4, <1>5, <1>8 DEF NumbersInv
-----------------------------------------------------------------------------
(* Every step *)

LEMMA NumbersStep ==
  ASSUME MarksAreNoStates, IInv, NumbersInv, [Next]_vars
  PROVE  NumbersInv'
<1> USE ConstantsAssumption DEF Threads
<1>1. TypeOK /\ Exclusion
  BY Excluded DEF IInv
<1>2. pc \in [Threads -> PcValues] /\ op \in [Threads -> Operations \cup {"none", "save"}]
  BY <1>1 DEF TypeOK
<1>3. ASSUME NEW t \in Threads, UNCHANGED numberVars, pc' = pc, op' = op PROVE Quiet(t)
  <2>1. pc' = [pc EXCEPT ![t] = pc[t]] /\ pc[t] \in PcValues
    BY <1>2, <1>3
  <2> QED BY <1>3, <2>1 DEF Quiet, SameStage
<1>4. CASE UNCHANGED vars
  <2>1. UNCHANGED numberVars /\ pc' = pc /\ op' = op
    BY <1>4 DEF vars, fileVars, bootVars, rndVars, threadVars, ghostVars, runVars, numberVars
  <2> QED BY <1>1, <1>3, <2>1, QuietStep
<1>5. CASE Crash
  BY <1>5, ResetStep
<1>6. CASE MountFiles
  BY <1>1, <1>6, MountStep
<1>7. ASSUME NEW t \in Tasks, Enter(t) PROVE NumbersInv'
  <2>1. PICK o \in Workload : Call(t, o) \/ CallRefused(t, o)
    BY <1>7 DEF Enter
  <2>2. UNCHANGED numberVars
    BY <2>1 DEF Call, CallRefused, fileVars, bootVars, rndVars, ghostVars, runVars, numberVars
  <2>3. CASE CallRefused(t, o)
    BY <1>1, <1>3, <2>2, <2>3, QuietStep DEF CallRefused
  <2>4. CASE Call(t, o)
    <3>1. /\ o \in Operations /\ pc[t] = "idle" /\ op' = [op EXCEPT ![t] = o]
          /\ o = "init" => mounted
          /\ o = "file" => mounted
          /\ o \notin {"init", "file"} => initialized
      BY <2>4 DEF Call, Refused
    <3>2. pc' = [pc EXCEPT ![t] = IF o = "init" THEN "create"
                                  ELSE IF o = "file" THEN "enter" ELSE "take"]
      BY <2>4 DEF Call, Goto
    <3>3. PICK q \in {"create", "enter", "take"} :
            pc' = [pc EXCEPT ![t] = q] /\ (o = "init" <=> q = "create")
      BY <3>2
    <3>4. pc[t] \in Elsewhere /\ op[t] # "init" /\ q \in Elsewhere \cup {"create"}
      BY <1>1, <3>1 DEF Elsewhere, Exclusion
    <3>5. q \in PcValues
      BY <3>3 DEF PcValues
    <3>6. Quiet(t)
      BY <2>2, <3>1, <3>3, <3>4, <3>5 DEF Quiet
    <3> QED BY <1>1, <3>6, QuietStep
  <2> QED BY <2>1, <2>3, <2>4
<1>8. ASSUME NEW t \in Threads, UseGenerator(t) PROVE NumbersInv'
  <2>1. CASE TakeMutex(t)
    <3>1. pc[t] = "take" /\ op[t] # "init"
      BY <1>1, <2>1 DEF TakeMutex, Exclusion
    <3>2. PICK q \in {"stop", "feed", "squeeze"} : pc' = [pc EXCEPT ![t] = q]
      BY <2>1 DEF TakeMutex, Goto
    <3>3. UNCHANGED numberVars /\ op' = op
      BY <2>1 DEF TakeMutex, fileVars, bootVars, rndVars, ghostVars, runVars, numberVars
    <3>4. Quiet(t)
      BY <3>1, <3>2, <3>3 DEF Quiet, Elsewhere, PcValues
    <3> QED BY <1>1, <3>4, QuietStep
  <2>2. CASE Squeeze(t)
    BY <1>1, <2>2, GiveNumber, SqueezeSeed
  <2>3. CASE Rekey(t)
    BY <1>1, <2>3, MoveOn
  <2>4. CASE Give(t)
    <3>1. pc[t] = "give" /\ op[t] # "init"
      BY <1>1, <2>4 DEF Give, Exclusion
    <3>2. PICK q \in {"judge", "idle"} : pc' = [pc EXCEPT ![t] = q]
      BY <2>4 DEF Give, Goto, Leave
    <3>3. UNCHANGED numberVars /\ op' \in {op, [op EXCEPT ![t] = "none"]}
      BY <2>4 DEF Give, Leave, fileVars, bootVars, rndVars, ghostVars, runVars, numberVars
    <3>4. Quiet(t)
      BY <3>1, <3>2, <3>3 DEF Quiet, Elsewhere, PcValues
    <3> QED BY <1>1, <3>4, QuietStep
  <2> QED BY <1>8, <2>1, <2>2, <2>3, <2>4 DEF UseGenerator
<1>9. ASSUME NEW t \in Threads, UseFiles(t) PROVE NumbersInv'
  <2>1. CASE TakeFiles(t)
    <3>1. /\ UNCHANGED numberVars /\ op' = op
          /\ \/ pc[t] = "load" /\ pc' = [pc EXCEPT ![t] = "read"]
             \/ pc[t] = "store" /\ pc' = [pc EXCEPT ![t] = "write"]
             \/ pc[t] = "commit" /\ pc' = [pc EXCEPT ![t] = "sync"]
             \/ pc[t] = "enter" /\ pc' = [pc EXCEPT ![t] = "other"]
      BY <2>1 DEF TakeFiles, Goto, fileVars, bootVars, rndVars, ghostVars, runVars, numberVars
    <3>2. pc[t] = "enter" => op[t] # "init"
      BY <1>1 DEF Exclusion
    <3>3. Quiet(t)
      BY <3>1, <3>2 DEF Quiet, SameStage, Elsewhere, PcValues
    <3> QED BY <1>1, <3>3, QuietStep
  <2>2. CASE UseOther(t)
    <3>1. pc[t] = "other" /\ op[t] # "init"
      BY <1>1, <2>2 DEF UseOther, Exclusion
    <3>2. /\ pc' = [pc EXCEPT ![t] = "idle"] /\ op' = [op EXCEPT ![t] = "none"]
          /\ UNCHANGED numberVars
      BY <2>2 DEF UseOther, Goto, Leave, fileVars, bootVars, rndVars, ghostVars, runVars,
         numberVars
    <3>3. Quiet(t)
      BY <3>1, <3>2 DEF Quiet, Elsewhere, PcValues
    <3> QED BY <1>1, <3>3, QuietStep
  <2>3. CASE Load(t) \/ LoadFails(t)
    BY <1>1, <2>3, LoadStep
  <2>4. CASE Write(t)
    BY <1>1, <2>4, WriteStep
  <2>5. CASE WriteFails(t) \/ Sync(t) \/ SyncFails(t)
    BY <1>1, <2>5, StoreEnds
  <2> QED BY <1>9, <2>1, <2>2, <2>3, <2>4, <2>5 DEF UseFiles
<1>10. ASSUME NEW t \in Tasks, InitOrDeinit(t) PROVE NumbersInv'
  <2>0. t \in Threads
    OBVIOUS
  <2>1. CASE Create(t)
    BY <1>1, <2>1, CreateStep
  <2>2. CASE Start(t)
    BY <1>1, <2>2, StartStep
  <2>3. CASE Stop(t)
    BY <1>1, <2>3, StopStep
  <2>4. CASE StopTwice(t)
    <3>1. UNCHANGED numberVars /\ pc' = pc /\ op' = op
      BY <2>4 DEF StopTwice, fileVars, bootVars, rndVars, threadVars, ghostVars, numberVars
    <3> QED BY <1>1, <1>3, <2>0, <3>1, QuietStep
  <2>5. CASE StopFails(t) \/ Unlock(t) \/ ClearInitialized(t)
    <3>1. PICK q \in {"give", "clear", "idle"} : pc' = [pc EXCEPT ![t] = q]
      BY <2>5 DEF StopFails, AfterStopFails, Unlock, ClearInitialized, Goto, Leave
    <3>2. op' \in {op, [op EXCEPT ![t] = "none"]}
      BY <2>5 DEF StopFails, Unlock, ClearInitialized, Leave
    <3>3. UNCHANGED numberVars
      BY <2>5 DEF StopFails, Unlock, ClearInitialized, fileVars, bootVars, rndVars, ghostVars,
         runVars, numberVars
    <3>4. pc[t] \in Elsewhere /\ op[t] # "init"
      <4>1. pc[t] \in {"stop", "unlock", "clear"}
        BY <2>5 DEF StopFails, Unlock, ClearInitialized
      <4> QED BY <1>1, <2>0, <4>1 DEF Exclusion, Elsewhere
    <3>5. Quiet(t)
      BY <3>1, <3>2, <3>3, <3>4 DEF Quiet, Elsewhere, PcValues
    <3> QED BY <1>1, <2>0, <3>5, QuietStep
  <2> QED BY <1>10, <2>1, <2>2, <2>3, <2>4, <2>5 DEF InitOrDeinit
<1>11. ASSUME EntropyTask PROVE NumbersInv'
  <2>1. CASE Feed
    BY <1>1, <2>1, MoveOn
  <2>2. CASE Sample \/ Judge
    <3>1. /\ pc[Entropy] \in {"sample", "judge"} /\ op' = op
          /\ \E q \in {"take", "sample"} : pc' = [pc EXCEPT ![Entropy] = q]
      BY <2>2 DEF Sample, Judge, Goto
    <3>2. UNCHANGED numberVars
      BY <2>2 DEF Sample, Judge, fileVars, bootVars, rndVars, ghostVars, runVars, numberVars
    <3>3. op[Entropy] # "init"
      BY <1>1, <3>1 DEF Exclusion
    <3>4. Quiet(Entropy)
      BY <3>1, <3>2, <3>3 DEF Quiet, Elsewhere, PcValues
    <3> QED BY <1>1, <3>4, QuietStep
  <2> QED BY <1>11, <2>1, <2>2 DEF EntropyTask
<1> QED
  BY <1>4, <1>5, <1>6, <1>7, <1>8, <1>9, <1>10, <1>11 DEF Next, Running
-----------------------------------------------------------------------------
(* The theorem *)

\* The generator gives no number twice, and gives none that it keeps as a seed,
\* unless a flash operation has failed and two boot counts fold alike; what
\* marks the absence of a seed or a state must not look like a state.
THEOREM NoNumberRepeats ==
  ASSUME MarksAreNoStates
  PROVE  Spec => []NumbersNeverRepeat
<1>1. Init => NumbersInv
  BY NumbersInit
<1>2. IInv /\ NumbersInv /\ [Next]_vars => NumbersInv'
  BY NumbersStep
<1>3. IInv /\ NumbersInv => NumbersNeverRepeat
  <2> SUFFICES ASSUME IInv, NumbersInv, ~(faults > 0 /\ FoldsAlike)
               PROVE  repeated = {} /\ disk \notin handedOut /\ view \notin handedOut
    BY DEF NumbersNeverRepeat
  <2>1. faults \in Nat
    BY DEF IInv, TypeOK
  <2>2. Spared
    BY <2>1 DEF Spared
  <2> QED BY <2>2 DEF NumbersInv, Distinct, Kept
<1> QED BY <1>1, <1>2, <1>3, Invariance, PTL DEF Spec
=============================================================================
