# Verification of the Secure Home System drivers

TLA+ modules, TLC configurations and TLAPS proofs about the firmware of the Secure Home System: an
STM32F103 with FreeRTOS, a SIM800L GSM module, a keypad, an LCD, two normally closed switches, and a
littlefs partition on the flash of the chip. Everything below is about the code under
`components/drivers`, and about the third-party code as far as the drivers depend on what it does.

- [The system](#the-system): components, state, operations, interactions, hard behaviours
- [The modules](#the-modules): what models what, and how
- [The runs](#the-runs): what TLC checks, the bounds, the fairness
- [The proofs](#the-proofs): what TLAPS proves, and along which argument
- [Findings](#findings)
- [Not modelled](#not-modelled) and [the plan](#the-plan)

To check one thing: `tlc -config gsm_sessions.cfg MCSim800l`, `tlapm Sim800lProofs.tla`.
`PROJECT.json` lists the components, the runs, the source lines of every definition, a mutant of the
code for every property, the hazards and the theorems.

## The system

| Component | State | Operations | Talks to |
|---|---|---|---|
| GSM driver `gsm` (`sim800l.cpp`) | `g_is_initialized`, recursive mutex, `g_calling_task_handle`, `g_rx_idle_line_size`, the HAL's UART and DMA handles | `init`, `deinit`, `get_sim_status`, `get_imsi`, `send_sms`; interrupt handlers of the UART and both DMA channels | calling tasks, SIM800L over USART1, the notification of the calling task |
| File store `file` (`file.cpp`) | `g_is_initialized`, mutex, littlefs handle, three open files, boot counter | `init`, `deinit`, `read`, `write`, `sync`, `get_boot_cycle_count` | calling tasks, flash through littlefs |
| CSPRNG `rnd` (`csprng.cpp`) | `g_is_initialized`, recursive mutex, ascon state, entropy accumulator, the entropy task | `init`, `deinit`, `get_random_numbers`; the entropy task; RTC interrupt | `file` (seed file, boot count), ADC, RTC |
| Keypad `pad::keypad_t` (`keypad.hpp`) | masks of the columns in the EXTI, debounce timer, event queue | `init`, `deinit`, `get_event_queue`; EXTI interrupt; timer callback | timer task, reader of the queue |
| Switches `nc::switch_t` (`switch.hpp`) | configuration, EXTI and NVIC line | `init`, `deinit`; EXTI interrupt | notification of the waiting task |
| LCD `lcd` (`hd44780.cpp`) | `g_is_initialized`, the I2C handle; in the display, half a byte | `init`, `deinit`, `put_char`, `println`, `clear_screen`, `backlight_on` | display over I2C |
| `utils` | a mutex per translation unit for the log | `log`, `panic`, macros | RTT |
| `ss`, `tasks`, `main` | none yet | `ss::init`, stubs | `rnd`, scheduler |

**Interactions.** Tasks call the drivers directly; a driver has a mutex of its own, and no call goes
back up. `rnd` calls `file` while it holds its own mutex, so the order is always the generator's
mutex first, then the files'. The GSM driver sleeps on the task notification of its caller, which an
interrupt handler gives; the switches use the same notification. The boot count is the one datum
that crosses sessions through RAM: `file::init()` counts, `rnd::init()` mixes the count in.

**What is hard.**

- *GSM*: an interrupt between any two statements of `transact()`; answers without a number that come
  after the timeout and are taken for the answer to the next command; a module left collecting the
  text of a message; a recursive mutex taken at two depths, with a dozen early returns; `deinit()`
  against tasks that wait for the mutex; a reception left armed into a stack frame that is gone.
- *File store*: a reset between any two flash operations; flash operations that fail and leave
  littlefs holding back later commits of the file, silently; an `init()` that fails halfway and is
  called again; a counter that must never come back.
- *CSPRNG*: two tasks and the entropy task on one generator; the entropy task deleted from outside
  while it may hold two mutexes; a reset between squeezing a seed, writing it and committing it;
  libraries that do not agree about what a result of 0 means.
- *Keypad, switches*: masks of interrupts that an interrupt and a timer change by turns, and that a
  switch reads and writes back; timer commands and queues that are full; an interrupt vector that
  two switches share.
- *LCD*: a byte sent in two halves of three transfers each, any of which can fail.

**What makes each correct.** One transaction with the module at a time and its result to the task
that asked; mutexes always given back; every call returns; a message goes to its number. Files are
saved as a whole, `NONE` means saved, boot counts never repeat. Numbers are never given out twice and
a saved seed is never given out; panic means that saving failed. A key press is reported once, and
the keypad is never deaf for ever; no alarm is lost; the display and the driver agree on which half
of a byte comes next.

## The modules

| Module | What it is |
|---|---|
| `Sim800l` | the GSM driver, the HAL's UART as the driver uses it, and the SIM800L |
| `GsmSession` | what the GSM driver promises: sessions that exclude each other |
| `FileStore` | the file driver and littlefs as it uses it |
| `DurableStore` | what the file driver promises: files that are saved as a whole |
| `Csprng` | the random number generator, the entropy task, ascon's PRNG and the seed file |
| `Keypad` | the keypad driver, its contacts, the EXTI and the NVIC, FreeRTOS' timer task, and the masks a switch writes |
| `Lcd` | the LCD driver, the port expander and the display behind it |
| `Screen` | what the LCD driver promises: a screen |
| `MCSim800l`, `MCFileStore`, `MCCsprng`, `MCKeypad`, `MCLcd` | workloads and small data for TLC |
| `Sim800lProofs`, `SmsProofs`, `FileStoreProofs`, `CsprngProofs`, `CsprngNumberProofs`, `KeypadProofs`, `LcdProofs` | invariants, lemmas and theorems |

The modules of drivers with tasks share a shape. `pc[t]` says where a task is inside an operation; a label stands between
two calls that something else can fall between. `Call` and `CallRefused` are the entry of an
operation with its checks; the operations a run calls are its `Workload`. Bounds (`MaxCalls`,
`MaxFaults`, `MaxCrashes`, `MaxBacklog`, ...) are constants and guards of nothing else. Definitions
that end in `_Something` next to one without are mutants: what a slip in that line of the code would
make of it.

### Sim800l

A step of a task is one call of the HAL or of FreeRTOS, or one write of a global an interrupt
handler reads. The command list of an operation is `Plan`; `Begin` to `Clean2` are `transact()`
statement by statement (remember the task, arm the reception, send, wait for the notification or
time out, abort, look at the buffer, run the `cleanup_t` guard); `JudgeOk`, `JudgeFailed` and
`Sleep` are what the operations do with the verdict, with the AT loop and the signal poll of
`init()` as `tries`. `NestedTake` and `NestedGive` are the recursive mutex of `send_sms()` around
`get_sim_status()`.

The UART is `rx`, `buf`, `half` and `tx`: `TxDone`, `RxHalf`, `RxEnd` and `RxError` are the paths of
`HAL_UART_IRQHandler()` and of the DMA handler that this configuration can take. Half of the buffer
makes the callback run early with 32 bytes, as the HAL does; a response that reaches over
those 32 bytes counts as not there (`Within`), though the code looks at its first bytes. A reception whose `transact()` has
returned is `"dead"`: it still writes to that frame. Responses are names with a length in bytes; a
verdict looks for the words the code looks for in whatever came, so two bursts in one buffer, or an
unsolicited `+CMTI`, are judged as the code judges them.

The module is external: it answers commands in order, at any time or never, with the answers the
driver's own parsing assumes, and after a prompt it takes everything for text until Ctrl-Z.

Once the mutex is deleted under a waiting task nothing is defined: the variable `fault` records it and
the task stops there (`TakeDeleted`). `DeinitAlone` chooses whether `deinit()` is called as its header
says, alone, or as its comment in `sim800l.cpp` expects, with other tasks waiting.

### FileStore

A step is one littlefs call; a reset falls between any two, and each flash operation may fail.
`Mount`, `Format`, `Count`, `SaveCount`, `OpenFile` are `init()`; `Seek`, `Write`, `Read`, `Sync` the
operations; `CloseFile` to `ClearInitialized` `deinit()`. Of littlefs the module has what the driver
can see: the list of open files, `LFS_F_DIRTY`/`LFS_F_WRITING` (`dirty`), `LFS_F_ERRED` (`erred`), that
`lfs_file_sync_()` returns 0 for a file with that mark (`SkipsCommit`), that a failed commit may have
reached the flash, and that a flush can fail in a read or a seek. A commit that fails marks the file,
but for a failure of `lfs_bd_sync()` at its start, which leaves no mark (`SyncFails` has both). Using a file that `deinit()` has
closed fails littlefs' assertion (`AssertFails`), and a deleted mutex leaves nothing defined: `halted`.
That littlefs mounts whatever it formatted is taken as its promise.

`DurableStore` says that each commit is whole and that a reset leaves the last one. It does not say that a
file is whole after a failure: a write that fails halfway leaves its part torn, the next write that
succeeds clears `LFS_F_ERRED`, and the sync after it commits the torn part with the new one.

`written`, `broken` and `announced` are history: what the callers know a file holds, whether they have
seen an operation on it fail, and the counts of the sessions so far.

### Csprng

The generator's state is a record of what it has absorbed: the folded boot count, the seed loaded and
how far it has run. Jitter, ADC samples and the call counter count for nothing, as if they were the
same in every session, which is the worst the README of the firmware allows for. Output is the state
it is squeezed from; `Squeeze` and `Rekey` are the two halves of `ascon_random_fetch()`. The seed file
is `DurableStore` for one file, with the file driver's mutex: `TakeFiles`, `Load`, `Write` (then the
mutex is given and taken again) and `Sync`. The entropy task is a thread that `Start` creates and `Stop`
deletes, wherever it is. `ascon_random_save_seed()` returns 1 for a seed it saved, and `TakenForError`
is the test the task makes of it.

`handedOut`, `repeated`, `sessions` and `failedInRow` are history. Output of a generator that has been freed
is not in `handedOut`, and `NumbersNeverRepeat` says nothing of it: that a task can be given it at all is
told under [Findings](#findings). `file::deinit()` is not called while
`rnd` is initialised.

### Keypad

Three kinds of execution interleave: the interrupt handler (`isr`), the callback of the debounce timer
in the timer task (`cb`), and `init()` and `deinit()` in a task of the application (`pc`). A handler
runs before any task (`HandlersDone`), and the timer task, whose priority `configTIMER_TASK_PRIORITY` is
the highest, before the application (`TimerTaskWaits`), so that stopping and deleting a timer take
effect at once. `ClearPending`, `MaskColumns` and `StartTimer` are `irq_handler()`; `RowsHigh`,
`ScanRow`, `Send`, `RowsLow`, `ClearEdges` and `UnmaskColumns` are `debounce_timer_cb()`; `ProcessCommand`
and `Expire` are the timer task. The hardware is `DriveRows`, `Edges`, `Signal` and `Enter`: a
contact between a low row and a column pulls the column low, a falling edge sets the pending bit
whether it is masked or not, and a pending bit that is not masked makes its vector pending.

The user is `Press` and `Release`, after which a contact may `Bounce` until it `Settle`s; bouncing is
shorter than `DEBOUNCE_TIME_MS`, so that when the timer expires only contacts that were touched after it
was started can still bounce (`touched`). `InitSwitch` and `WriteMasks` are `HAL_GPIO_Init()` of a
switch, which reads `EXTI->IMR`, changes it and writes it back with interrupts in between.

`alone` and `told` are history: the key that is pressed while no other is, and how often it was sent
since; `causes` names the two ways to go deaf that the code has, and `fault` the use of a pin or a
queue that `deinit()` has cleared. The code does get to `fault`; since nothing is defined after it, the
model stops there, and `DeinitIsFinal` confines it to the window between the clearing of the pins and the
stopping of the timer.

Four simplifications. `HAL_GPIO_Init()` of the columns is one step, though it goes pin by pin: an interrupt
between two pins finds no timer, as one after the last does. The columns of a row are read in one step: a
contact that changes between two reads gives what it gives when it changes before or after them. A timer expires only
when its commands have been worked off, though the timer task looks at the time first: a restart
that waits while the timer is due was sent by an interrupt of columns that should be masked, which
`causes` names. `gpio_enable_clk()` does not fail: it knows the ports the pins are on.

### Lcd

A call is a list of bytes (`Script`), a byte two nibbles, a nibble three transfers: `SetData`,
`RaiseEnable`, `DropEnable`. Any transfer may fail, before it has set the pins or after
(`TransferFails`), and the call then returns. The display takes what is on its pins when EN falls
(`SetPins`, `Latch`): the halves of a byte in 4 bit mode, a function set in 8 bit mode. Two halves
that do not belong together may do anything to it (`Scramble`), and so may pins that change while EN
falls (`Blur`). The port powers up with all pins high, EN included. `Reset` is a reset of the
processor at any point, with or without the display losing its power. A byte is an operation with an
argument; the lines, the characters stored behind the visible ones, and the address that moves on with
each character are as in the display's data sheet. That the display is ready for the next byte is
taken for granted: a nibble takes three transfers of 100 kHz I2C, and `init()` and `clear_screen()`
wait where more is needed. `deinit()` does not fail: `HAL_I2C_DeInit()` and `HAL_I2C_Init()` do so only
for a null handle or a clock too slow for the bus. A call that is refused with its arguments, the empty
string of `println()` among them, changes nothing and is left out.

`wanted` and `failed` are history: what the screen is to show when the call is done, and whether a call
has returned an error since `init()` was called.

## The runs

All runs turn deadlock checking off: the number of calls is bounded, and a system that has made
its calls stops.

| Run | Question | Bounds | Distinct states |
|---|---|---|---|
| `gsm_sessions` | Do two tasks that use every operation, `deinit()` while others wait included, exclude each other on a module that may be silent, is the mutex always given back, does every call return, does the driver implement `GsmSession`? | 2 tasks, 1 call each, 1 command late, 1 unsolicited message | 780,000 |
| `gsm_sms` | Does a message reach its number, and does `NONE` mean accepted, when the status is checked first? | 1 task, 5 calls, up to 3 commands late | 1.5 million |
| `gsm_dead_rx` | Does a reception left armed into a dead frame end? (It does not say that none is left: the code leaves one.) | 1 task, 3 calls, the module never drops a command | 130,000 |
| `gsm_sms_unchecked` | A message without the status check (violated) | 2 calls, 1 late | |
| `gsm_leak` | Does a transaction start clean? (violated) | 2 calls | |
| `file_store` | Is littlefs used by one task at a time, does `NONE` mean saved, does every call return, do boot counts differ, is a file always saved as a whole? | 2 tasks, 2 calls each between resets, 1 fault, 2 resets, `deinit()` at any time | 720,000 |
| `file_sync_retry` | Is a retried `sync()` durable? (violated) | 5 calls, 1 fault | |
| `csprng` | Is the entropy task deleted without a mutex, are the mutexes taken in order and given back, does every call return? | 2 tasks, 3 calls each, 2 seeds saved, other files in use | 170,000 |
| `csprng_seed` | Are numbers given out once, and are seeds never given out? | 1 task and the entropy task, 4 calls and 1 save between resets, 1 fault, 1 reset | 940,000 |
| `csprng_panic` | Does panic mean five failed saves? (violated) | 5 saves, no fault | |
| `keypad` | Is a press sent once, is the first closed key found, do start commands fit, do masks end, is `deinit()` final, does a press arrive? | 2 rows, 2 columns with a vector each, 2 presses of 2 keys, 2 calls | 470,000 |
| `lcd` | Does `init()` bring the display into step from any state, is the driver with its display a screen? | 2 lines of 2 visible characters and a third, 2 characters, 4 calls, 2 failing transfers, 1 reset | 880,000 |

**Why the bounds are enough.** Interference between tasks needs two of them, and the drivers treat
tasks alike, so the third adds a waiter and nothing new; the proofs do not bound them. A leak from
one transaction to the next needs two, and a message that goes astray needs a late prompt and the
message after it. `gsm_sms` holds for three late commands: before a `send_sms()` gets to its number
it takes a response for each of the four checks, which a late prompt would have to survive. With a
module four commands late and six calls the property fails, since four late answers in a row can then be
taken for the checks: the driver relies on a module that is not that slow. Two resets and a fault let an `init()` fail, be retried, be cut
short by a reset and be cut short again. A boot count that folds like an earlier one needs two
sessions; `XorOfBits` is the fold of `xor_bytes_in_word()` with bits in place of bytes, so that alike
counts come after three boots in place of 257. In the keypad two columns with different
vectors are what lets a second interrupt come while the first is handled, and two keys on a diagonal
tell the order of rows from that of columns and pull one row's key into another; two presses show a
second scan, and two calls a `deinit()` after an `init()` and the second `init()` with the vectors enabled.
In the display two lines of which the visible part is shorter than the stored one show a line that runs
on; four calls are `init()`, two prints over one another and a `deinit()`, and two failing transfers
break the re-initialisation after the first.

**Fairness.** `FairSpec` has weak fairness of each task's `Proceed`: the scheduler runs a task that is
ready, every timed wait expires, and a task that waits for a mutex is only ready when it is free. It
has no fairness of `Enter`: nobody must call. The transmission DMA ends (`WF` of `TxDone`), since the
UART has no flow control. The SIM800L owes nothing in `FairSpec`: `EveryCallReturns` holds on a dead
module. `FairModuleSpec`, for `gsm_dead_rx` alone, adds a module that answers what it receives and a
UART that notices the end of a burst. Weak fairness is enough for the mutexes in these bounded
workloads, because nobody can take one infinitely often.
In `Keypad`, contacts that bounce settle, the NVIC runs what is pending, and the timer task works off
its commands and expires timers: each has weak fairness, since each is a processor or a timer that does
not wait for anybody. Nobody must press or release a key, read the queue or call `init()`. `Lcd` has no
fairness and no liveness property: a transfer ends within `TIMEOUT_MS` and the code has no loop that waits.

**Non-vacuity.** Every property is broken by a mutant of the code under its own configuration, and
in `csprng_seed` both sides of `NumbersNeverRepeat` occur: numbers do repeat when a flash failure and
alike boot counts come together.

## The proofs

For every set of tasks, workload and value of the bounds:

| Theorem | Property |
|---|---|
| `Sim800lProofs!TypeCorrect` | `TypeOK` |
| `Sim800lProofs!TransactionsExclude` | `OneTransaction`: one task in `transact()`, and `g_calling_task_handle` names it |
| `Sim800lProofs!MutexGivenBack` | `NoLockLeak` |
| `Sim800lProofs!Implementation` | `Spec => GsmSession!Spec` |
| `SmsProofs!MessagesReachTheirNumbers` | `SmsReachesItsNumber`, on a module that is slow but not too slow |
| `SmsProofs!NoneMeansAccepted` | `SmsNoneMeansAccepted`, on the same |
| `FileStoreProofs!TypeCorrect` | `TypeOK` |
| `FileStoreProofs!LittlefsExclusive` | `OneInLittlefs` |
| `FileStoreProofs!SuccessMeansSaved` | `NoneMeansSaved` |
| `FileStoreProofs!BootCountsDiffer` | `BootCountFresh` |
| `FileStoreProofs!StoreImplemented` | `Spec => DurableStore!Spec` |
| `CsprngProofs!TypeCorrect` | `TypeOK` |
| `CsprngProofs!DeletedHoldsNothing` | `NothingOrphaned` |
| `CsprngProofs!NobodyWaitsInACircle` | `HoldersGoOn` |
| `CsprngNumberProofs!NoNumberRepeats` | `NumbersNeverRepeat` |
| `KeypadProofs!TypeCorrect` | `TypeOK` |
| `KeypadProofs!NothingLeftRunning` | `DeinitIsFinal` |
| `KeypadProofs!CommandsFit` | `CommandFits` |
| `KeypadProofs!MasksOpen` | `MasksEnd` |
| `KeypadProofs!FirstFound` | `FindsFirst` |
| `KeypadProofs!SentOnce` | `ReportedOnce` |
| `LcdProofs!TypeCorrect` | `TypeOK` |
| `LcdProofs!StaysInStep` | `InStep` |
| `LcdProofs!IsAScreen` | `Spec => Screen!Spec` |

The assumptions are the `ConstantsAssumption` of each module: distinct model values, workloads made of
operations, natural bounds. TLC evaluates them in every run. `NoNumberRepeats` has one more, stated in the
theorem since TLC cannot enumerate it: `MarksAreNoStates`, that `NoSeed`, `TornSeed` and `Freed` are no
states of a generator. The theorems of `SmsProofs` have two, since without them the properties are false:
`CheckedWorkload`, that messages are sent with the status checked first (`gsm_sms_unchecked` is what
happens otherwise), and `SlowModule`, that the module pauses after each response (`MaxBurst` at most 1) and
is at most two commands behind, or one if it sends unsolicited messages (`MaxBacklog`). Nothing bounds
the tasks, the numbers, the calls, the unsolicited messages or what other operations come in between,
`init()` and `deinit()` among them.

**GSM.** `OneTransaction` is not inductive: it says nothing of the mutex. `IInv` adds the lock
discipline: a task between taking the mutex and giving it back is its owner, or executes `init()` and
is alone; the owner is always such a task; the depth is 0 exactly when nobody owns it; and
`g_calling_task_handle` names exactly the task inside `transact()`. `SomethingToSend`, that a task in the
middle of an operation has a command left, is what types `Tail` and `Head`. The refinement maps the
session to the owner of the mutex, or to the task in `init()` before there is one; each step is
`Open`, `Ask`, `Hear`, `Close` or a stutter, and the lock discipline says which.

**GSM messages.** `SmsReachesItsNumber` says nothing of the commands and answers still on their way,
where a wrong delivery is prepared: a `send_sms()` gives up after 50 ms, its prompt comes late, and the
next one takes it for its own. `SmsInv` says where each `send_sms()` that has not failed is. Until it
sends its number (`OthersFar`) the argument counts: the checks it has passed, plus the responses in the
buffer and on the line that could still pass for a check, plus the commands the module answers before
another one's number, are together at most `MaxBacklog + 1`. An answer moves one from the commands to the
line, a check from the line to those passed, so that the sum only falls or stays. After the last check it
would have to be at least the number of checks, which is more: no other number, prompt or collecting
module is left (`NobodyElse`). One check counts for nothing if the module speaks unasked, since CHECK_REG takes
a `+CMTI` for a registration; a prompt never counts, since no check accepts one. From then on the
wire is its own: until the answer to its number a prompt is its own prompt (`OwnPrompt`), before the text
the module waits for that text and nothing else (`LineClear`), and after it a confirmation means that it
was accepted (`OwnConfirmation`), which is `SmsNoneMeansAccepted`. `TextInOrder` draws the conclusion: a text
is on its way only to a module that collects one for its number. The steps of other tasks leave the wire
alone by the lock discipline. With one response at a time no reception gets as far as half of its
buffer (`NoHalf`). The count is one short of `gsm_sms`, which also holds with three commands late: by
numbers alone four late answers could then pass the checks, but they do not line up with them.

**File store.** Mutual exclusion is the same argument. `BootCountFresh` needs `CountsSaved`: every count
announced is on flash or below what is there, and the count an `init()` prepares exceeds them before
and after it is saved, so that neither a failed commit that did reach the flash nor a reset can bring
one back. `NoneMeansSaved` needs `FilesKept`: for each file, unless its callers have seen a failure,
an open file is unmarked and either dirty or equal to the flash, and nothing is lost when `init()`
mounts the partition again after a failed `deinit()`. The refinement to `DurableStore` reads a closed
file from flash.

**Csprng.** `NothingOrphaned` needs what each thread can be doing (`Roles`), that `init()` is alone and
that the entropy task lives between `init()` and `deinit()` (`Lifecycle`), and that each mutex is held
exactly at certain places (`MutexHeld`, `FilesHeld`): a task at `"stop"` holds the generator's mutex, and
the entropy task uses the file driver only while it does. `HoldersGoOn` follows from the same places: it is as much
of `EveryCallReturns` as can be said without fairness, and so proved.

`NumbersNeverRepeat` says nothing of how a repetition is kept away, so `NumbersInv` does. A number is the
state it was squeezed from: a fold, a seed and a count of steps. `TypeOK` types the generator, the seeds and the flash (`SecretTypes`); it needs `Alive`, that the generator of a task in `init()`, once
it is created, and of the entropy task is not freed. Within a session the steps tell numbers
apart, as whoever squeezes the state holds the mutex until it has moved on (`Ahead`: nothing the generator
can still become was given or kept). The seed `init()` squeezes is at step 1, which nobody is ever given.
Between sessions there are two ways. If no two boot counts fold alike, the fold tells them apart. If no
flash operation has failed, the seed does: `Line` says that the seeds loaded so far form a line, each a
state that grew out of one before it; the seed on flash either is the last of them, and then nobody has
been given a number that rests on it, or grew out of the last and so was never loaded. That is where
committing the new seed before `init()` returns is needed. A reset anywhere between keeps the line, since
it puts back what is committed.

**Keypad.** The proof goes in layers, each invariant resting on the one before. `LifeInv`: what is
set up, enabled and running at each step of `init()` and `deinit()`; from the first step of `deinit()` on no
edge can come, so that what is left drains (`Quiet`), which gives `DeinitIsFinal`, the window for `fault`
included. `BurstInv`: once the
columns are masked no vector becomes pending again, so the commands in the queue and the vectors still
pending are together at most the number of vectors and the one whose handler masked them; since
`TimerQueueLength` exceeds the number of vectors (five to three on the board), each command finds room,
and masks always have a command, a timer or a callback behind them. The scan: the rows before the one
that is read are low, and while no contact changes none of them has a closed key, or the scan would have
ended there. Sent once: between the first edge and the unmasking only the one scan can see the key, and
the edges it makes itself are cleared with the columns still masked.

**Lcd.** `InStep` needs to know where a call is. `Port`: EN is high only in the last transfer of a
nibble, over the nibble that is being sent, but for the first transfer of `init()`. `Starting`: after the
first 0x3 the display is in 8 bit mode, or has no half, or has just 0x3; after the second in 8 bit mode or
has 0x3; after the third in 8 bit mode, whatever it was left in. That is the reason for three. From the
0x2 on it holds the high half of the byte whose low half comes next (`Aligned`). `Printing`: in step, the
address is that of the next character, and each cell shows what is wanted but for those still to be
written. When the last byte is through, none is left, which is `Finish` of `Screen`.

**Only model-checked**: everything under fairness (`EveryCallReturns`, `DeadReceptionEnds`,
`PressArrives`), which is out of the prover's reach; and `SmsReachesItsNumber` and `SmsNoneMeansAccepted` with
three late commands, one more than the theorems cover.

## Findings

1. **The entropy task panics on success** (`csprng_panic`, `csprng.cpp:198`). The firmware's README
   says that five failed seed writes in a row call `utils::panic()`. `ascon_random_save_seed()` returns 1
   when it has saved the seed and 0 when it has not, against its own header; the task counts anything
   but 0 as an error. The device halts after five minutes of successful saves, and never on failures.
2. **A message can go to the previous number** (`gsm_sms_unchecked`, `sim800l.cpp:556`). When the prompt
   of `AT+CMGS` comes after the 50 ms timeout, the module stays collecting text. Without the status
   check the next `send_sms()` sends its number as text and its text to the previous number.
3. **A notification leaks into the next transaction** (`gsm_leak`, `sim800l.cpp:158`). The guard that is to
   prevent stale state clears the size and the handle, but not the notification count.
4. **A retried `sync()` reports success and saves nothing** (`file_sync_retry`, `file.cpp:441`).

Seen while modelling and part of the models, without a run: `init()` of the GSM driver ends its AT
loop at the first burst, whatever it holds, where the README says until OK; CHECK_REG takes a `1` after
the first comma of anything, a `+CMTI` included, for a registration; `get_imsi()` takes any 25
bytes; a text whose confirmation takes longer than 50 ms is reported as failed though it is sent;
`deinit()` of `gsm` and `file` deletes the mutex under tasks that wait for it; a task that waited
while `rnd::deinit()` ran is told `NONE` and given output of a freed generator; the wait for the
first RTC interrupt is skipped after a first boot that lost power before it saved a seed.

In the keypad: an interrupt that comes in a second `init()` between the rows going low and the creation
of the timer masks the columns for a timer that is null, and the keypad is deaf until it is initialised
again; `HAL_GPIO_Init()` of a switch can write back a mask that an interrupt has changed meanwhile, which
leaves the columns masked for good or unmasks them early; a callback that runs while `deinit()` has
cleared the pins and not yet stopped the timer uses null pointers; a press between the end of the scan
and the clearing of the pending bits is not reported; since rows stay low behind the scan, a contact that
bounces in the middle of it can be reported as a key of a later row. `deinit()` of one switch disables the
vector EXTI15_10 of both.

In the display: the header says that every function asserts on failure and on a wrong call, and all of
them return an error; after an error nothing that is printed can be relied on until `deinit()` and
`init()`, and nothing tells the caller so. The on-target test `test_hd44780.cpp:43-52` expects
`println("")` to succeed and to blank the line; `hd44780.cpp:207` refuses an empty string with
`ERR_INVALID_ARG`, and the line stays as it is.

## Not modelled

- The configuration of clocks, pins, ADC, DMA and RTC: one step of `init()` that may fail.
- The other modes of the HAL and the rest of littlefs, ascon-suite, FreeRTOS, RTT and Unity: vendored.
  FreeRTOS mutexes and notifications are modelled by what their documentation and code say, without
  priorities.
- The 32-bit overflow of the boot counter, 2^32 boots away.
- `utils::log`, `utils::panic` beyond the halt, `syscalls.cpp`, and the application tasks, which are
  stubs at this commit. The on-target tests were read for the states the drivers are used in.
- The alarm of a switch: it sets a bit in the notification value of a task, which the GSM driver
  would take for its own if the task used it; but the tasks do not exist at this commit, and nothing says
  which task would do both.
- The backlight of the display, one pin nothing else depends on, and the display's timing.
- The bytes of the entropy mixture: the accumulator, the packing of the ADC samples; their noise counts
  for nothing in `Csprng`.

## The plan

Done, in this order: `Sim800l` with `GsmSession`, `FileStore` with `DurableStore`, `Csprng`, `Keypad`,
`Lcd` with `Screen`; the proofs of each. What is left, most important first:

1. Switch alarms beside the GSM driver, once the task exists that waits for both.
2. The entropy mixture as a pure function, against its bitwise definition.
3. `Csprng` over `FileStore` in place of `DurableStore`: `file::deinit()` under the entropy task.
