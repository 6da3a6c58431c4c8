-------------------------------- MODULE Lcd ---------------------------------
(***************************************************************************)
(* The LCD driver, components/drivers/src/hd44780.cpp, and the display     *)
(* behind its I2C port.  A byte goes in two nibbles, and a nibble in three *)
(* transfers: the data, the data with EN high, the data with EN low.  The  *)
(* display takes what is on its pins when EN falls.  Half a byte is state  *)
(* of the display the driver cannot see, and any transfer can fail, before *)
(* it has set the pins or after.                                           *)
(*                                                                         *)
(* A byte is an operation with its argument.  What the display makes of    *)
(* two halves that do not belong together is left open.                    *)
(***************************************************************************)
EXTENDS Integers, Sequences

CONSTANTS
  ROWS, COLUMNS, OFFSETS,
  WIDTH,      \* the characters the display stores for each line
  Chars,      \* the characters that are printed
  Blank,      \* ' '
  Unknown,    \* a character that is not known
  NoCall, NoNibble,
  Blur,       \* what is latched when the pins change while EN falls
  Released,   \* the port at power on: all pins high, which asks for a read
  MaxCalls,   \* bound: calls between resets
  MaxFaults,  \* bound: transfers that fail
  MaxResets   \* bound: resets of the processor, with and without the display

Lines == 0..ROWS - 1
Cols == 0..COLUMNS - 1
Cells == Lines \X Cols
AddressOf(l, i) == OFFSETS[l] + i
Addresses == {AddressOf(l, i) : l \in Lines, i \in 0..WIDTH - 1}

ASSUME ConstantsAssumption ==
  /\ ROWS \in Nat \ {0} /\ COLUMNS \in Nat \ {0}
  /\ WIDTH \in Nat /\ COLUMNS <= WIDTH
  /\ OFFSETS \in [Lines -> Nat]
  /\ \A l, m \in Lines : l # m => OFFSETS[l] + WIDTH <= OFFSETS[m] \/ OFFSETS[m] + WIDTH <= OFFSETS[l]
  /\ Blank \in Chars /\ Unknown \notin Chars /\ Unknown \notin Int
  /\ MaxCalls \in Nat /\ MaxFaults \in Nat /\ MaxResets \in Nat

(* Bytes and calls *)

Byte(op, arg) == [op |-> op, arg |-> arg]
Cmd(op) == Byte(op, Blank)

\* The three nibbles 0x3 and the 0x2 that init() sends on their own
Three == Cmd("three")
Two == Cmd("two")
Single == {Three, Two}

Commands == Single \cup {Cmd("lines"), Cmd("off"), Cmd("clear"), Cmd("entry"), Cmd("on")}
Bytes ==
  Commands \cup {Byte("address", a) : a \in Addresses} \cup {Byte("data", c) : c \in Chars}
Nibbles == [byte : Bytes, part : {"high", "low"}]

ASSUME NibblesAssumption ==
  /\ {NoNibble, Blur, Released} \cap Nibbles = {}
  /\ NoNibble # Blur

InitCall == [op |-> "init"]
ClearCall == [op |-> "clear"]
WriteCall(l, i, t, pad) == [op |-> "write", line |-> l, col |-> i, text |-> t, pad |-> pad]
PutChar(c, col, line) == WriteCall(line, col, <<c>>, FALSE)
Println(str, line, pad_to_whitespace) == WriteCall(line, 0, str, pad_to_whitespace)

\* An empty string is refused, as one that is too long is.
Strings == UNION {[1..n -> Chars] : n \in 1..COLUMNS}
Writes ==
  {PutChar(c, i, l) : c \in Chars, i \in Cols, l \in Lines}
    \cup {Println(s, l, pad) : s \in Strings, l \in Lines, pad \in BOOLEAN}
Calls == {InitCall, ClearCall} \cup Writes

\* Mutant: the padding stops one column early.
Sent_Short(c) ==
  IF c.pad THEN [i \in 1..(IF Len(c.text) < COLUMNS THEN COLUMNS - 1 ELSE COLUMNS) |->
                   IF i <= Len(c.text) THEN c.text[i] ELSE Blank]
           ELSE c.text

\* The characters that are sent: println() fills the line up with spaces if asked to.
Sent(c) ==
  IF c.pad THEN [i \in 1..COLUMNS |-> IF i <= Len(c.text) THEN c.text[i] ELSE Blank]
           ELSE c.text

\* Mutant: only two of the three nibbles 0x3
InitScript_TwoThrees ==
  <<Three, Three, Two, Cmd("lines"), Cmd("off"), Cmd("clear"), Cmd("entry"), Cmd("on")>>

InitScript ==
  <<Three, Three, Three, Two, Cmd("lines"), Cmd("off"), Cmd("clear"), Cmd("entry"), Cmd("on")>>

\* Mutant: the lines are taken to follow one another.
WriteScript_Linear(c) ==
  [k \in 1..Len(Sent(c)) + 1 |->
     IF k = 1 THEN Byte("address", c.line * COLUMNS + c.col) ELSE Byte("data", Sent(c)[k - 1])]

WriteScript(c) ==
  [k \in 1..Len(Sent(c)) + 1 |->
     IF k = 1 THEN Byte("address", AddressOf(c.line, c.col)) ELSE Byte("data", Sent(c)[k - 1])]

Script(c) ==
  CASE c.op = "init" -> InitScript
    [] c.op = "clear" -> <<Cmd("clear")>>
    [] OTHER -> WriteScript(c)

ASSUME NoCallAssumption == NoCall \notin Calls

VARIABLES
  initialized, \* g_is_initialized
  call,        \* the operation under way
  next,        \* which of its bytes is sent
  part,        \* which nibble of the byte
  phase,       \* which transfer of the nibble: data, EN high, EN low
  pins, en,    \* the port: the nibble with RS, and EN
  mode,        \* 4 or 8 bits
  half,        \* the nibble the display holds, in 4 bit mode
  ddram,       \* what it stores
  address,     \* where it stores the next character
  settings,    \* what it has been set to, as far as it is known
  wanted,      \* ghost: what the screen shows when the call is done
  failed,      \* ghost: a call has returned an error since init() was called
  calls, faults, resets

driverVars == <<initialized, call, next, part, phase>>
displayVars == <<mode, half, ddram, address, settings>>
portVars == <<pins, en>>
ghostVars == <<wanted, failed>>
boundVars == <<calls, faults, resets>>
vars == <<driverVars, portVars, displayVars, ghostVars, boundVars>>

Anything == [a \in Addresses |-> Unknown]
BlankScreen == [c \in Cells |-> Blank]

Init ==
  /\ initialized = FALSE /\ call = NoCall /\ next = 1 /\ part = "high" /\ phase = "data"
  /\ pins = Released /\ en = TRUE /\ mode = 8 /\ half = NoNibble
  /\ ddram = Anything /\ address = Unknown /\ settings = {}
  /\ wanted = BlankScreen /\ failed = FALSE
  /\ calls = 0 /\ faults = 0 /\ resets = 0
-----------------------------------------------------------------------------
(* The display *)

\* The address moves to the next line behind the last character of a line.
Following(a) ==
  CHOOSE b \in Addresses :
    \E l \in Lines, i \in 0..WIDTH - 1 :
      /\ a = AddressOf(l, i)
      /\ b = IF i + 1 < WIDTH THEN AddressOf(l, i + 1) ELSE AddressOf((l + 1) % ROWS, 0)

\* Two halves that do not belong together, or a nibble that is no function set
\* in 8 bit mode, may do anything to the display.
Scramble ==
  /\ mode' \in {4, 8}
  /\ ddram' = Anything /\ address' = Unknown /\ settings' = {}

SetFunction(bits) ==
  /\ mode' = bits /\ settings' = settings \ {"lines"}
  /\ UNCHANGED <<ddram, address>>

Store(c) ==
  /\ UNCHANGED <<mode, settings>>
  /\ IF address \in Addresses /\ "entry" \in settings
     THEN ddram' = [ddram EXCEPT ![address] = c] /\ address' = Following(address)
     ELSE ddram' = Anything /\ address' = Unknown

Execute(byte) ==
  \/ /\ byte.op = "lines" /\ settings' = settings \cup {"lines"}
     /\ UNCHANGED <<mode, ddram, address>>
  \/ /\ byte.op = "off" /\ settings' = settings \ {"on"}
     /\ UNCHANGED <<mode, ddram, address>>
  \/ /\ byte.op = "on" /\ settings' = settings \cup {"on"}
     /\ UNCHANGED <<mode, ddram, address>>
  \/ /\ byte.op = "entry" /\ settings' = settings \cup {"entry"}
     /\ UNCHANGED <<mode, ddram, address>>
  \/ /\ byte.op = "clear" /\ ddram' = [a \in Addresses |-> Blank] /\ address' = AddressOf(0, 0)
     /\ UNCHANGED <<mode, settings>>
  \/ /\ byte.op = "address" /\ address' = byte.arg
     /\ UNCHANGED <<mode, ddram, settings>>
  \/ byte.op = "data" /\ Store(byte.arg)

High(byte) == [byte |-> byte, part |-> "high"]
Low(byte) == [byte |-> byte, part |-> "low"]

\* In 8 bit mode 0x3 and 0x2 are 0x30 and 0x20, since the other pins are open;
\* in 4 bit mode 0x3 twice is 0x33.
Latch(n) ==
  \/ /\ mode = 8 /\ UNCHANGED half
     /\ \/ n = High(Three) /\ SetFunction(8)
        \/ n = High(Two) /\ SetFunction(4)
        \/ n \notin {High(Three), High(Two)} /\ Scramble
  \/ /\ mode = 4 /\ half = NoNibble /\ half' = n
     /\ UNCHANGED <<mode, ddram, address, settings>>
  \/ /\ mode = 4 /\ half # NoNibble /\ half' = NoNibble
     /\ \/ half = High(Three) /\ n = High(Three) /\ SetFunction(8)
        \/ \E b \in Bytes \ Single : half = High(b) /\ n = Low(b) /\ Execute(b)
        \/ /\ ~(half = High(Three) /\ n = High(Three))
           /\ \A b \in Bytes \ Single : ~(half = High(b) /\ n = Low(b))
           /\ Scramble

\* The port sets all pins at once: data that change with the falling EN are
\* latched as they were, as they will be, or as a mixture.
SetPins(n, level) ==
  /\ pins' = n /\ en' = level
  /\ \/ en /\ ~level /\ pins = n /\ Latch(n)
     \/ en /\ ~level /\ pins # n /\ Latch(Blur)
     \/ en /\ ~level /\ pins = Released /\ UNCHANGED displayVars
     \/ (~en \/ level) /\ UNCHANGED displayVars
-----------------------------------------------------------------------------
(* The driver *)

Sending == call # NoCall /\ next <= Len(Script(call))
Nibble == [byte |-> Script(call)[next], part |-> part]

\* What a cell is to show after a write: its character, a space where the rest of
\* the line is to be padded, and what it showed before elsewhere.
Asked(c, cell) ==
  LET i == cell[2] - c.col + 1 IN
  IF cell[1] = c.line /\ i \in 1..Len(c.text) THEN c.text[i]
  ELSE IF cell[1] = c.line /\ i > Len(c.text) /\ c.pad THEN Blank
  ELSE wanted[cell]

\* Not thread safe: one call after the other.  A call that is refused, that of
\* println("") included, changes nothing and is left out.
Call(c) ==
  /\ call = NoCall /\ calls < MaxCalls /\ calls' = calls + 1
  /\ initialized <=> c # InitCall
  /\ call' = c /\ next' = 1 /\ part' = "high" /\ phase' = "data"
  /\ failed' = (failed /\ c # InitCall)
  /\ wanted' = IF c.op = "write" THEN [cell \in Cells |-> Asked(c, cell)] ELSE BlankScreen
  /\ UNCHANGED <<initialized, portVars, displayVars, faults, resets>>

SetData ==
  /\ Sending /\ phase = "data" /\ phase' = "high"
  /\ SetPins(Nibble, FALSE)
  /\ UNCHANGED <<initialized, call, next, part, ghostVars, boundVars>>

RaiseEnable ==
  /\ Sending /\ phase = "high" /\ phase' = "low"
  /\ SetPins(Nibble, TRUE)
  /\ UNCHANGED <<initialized, call, next, part, ghostVars, boundVars>>

DropEnable ==
  /\ Sending /\ phase = "low" /\ phase' = "data"
  /\ SetPins(Nibble, FALSE)
  /\ \/ part = "high" /\ Nibble.byte \notin Single /\ part' = "low" /\ UNCHANGED next
     \/ (part = "low" \/ Nibble.byte \in Single) /\ part' = "high" /\ next' = next + 1
  /\ UNCHANGED <<initialized, call, ghostVars, boundVars>>

\* A transfer that fails may have set the pins; the call returns.
TransferFails ==
  /\ Sending /\ faults < MaxFaults /\ faults' = faults + 1
  /\ SetPins(Nibble, phase = "high") \/ UNCHANGED <<portVars, displayVars>>
  /\ call' = NoCall /\ next' = 1 /\ part' = "high" /\ phase' = "data"
  /\ failed' = TRUE
  /\ UNCHANGED <<initialized, wanted, calls, resets>>

Return ==
  /\ call # NoCall /\ ~Sending
  /\ call' = NoCall /\ next' = 1
  /\ initialized' = TRUE
  /\ UNCHANGED <<part, phase, portVars, displayVars, ghostVars, boundVars>>

\* HAL_I2C_DeInit() fails for a null handle only, and HAL_I2C_Init() in init() for
\* one or for a bus too slow for 100 kHz: neither does here.
Deinit ==
  /\ call = NoCall /\ initialized /\ calls < MaxCalls /\ calls' = calls + 1
  /\ initialized' = FALSE
  /\ UNCHANGED <<call, next, part, phase, portVars, displayVars, ghostVars, faults, resets>>

\* The display keeps its state when the processor is reset, unless it loses its
\* power too.
Reset ==
  /\ resets < MaxResets /\ resets' = resets + 1
  /\ initialized' = FALSE /\ call' = NoCall /\ next' = 1 /\ part' = "high" /\ phase' = "data"
  /\ \/ UNCHANGED <<portVars, displayVars>>
     \/ /\ pins' = Released /\ en' = TRUE /\ mode' = 8 /\ half' = NoNibble
        /\ ddram' = Anything /\ address' = Unknown /\ settings' = {}
  /\ calls' = 0
  /\ UNCHANGED <<ghostVars, faults>>
-----------------------------------------------------------------------------
Next ==
  \/ \E c \in Calls : Call(c)
  \/ SetData \/ RaiseEnable \/ DropEnable \/ TransferFails
  \/ Return \/ Deinit \/ Reset

Spec == Init /\ [][Next]_vars
-----------------------------------------------------------------------------
(* Properties *)

TypeOK ==
  /\ initialized \in BOOLEAN /\ failed \in BOOLEAN /\ en \in BOOLEAN
  /\ call \in Calls \cup {NoCall} /\ next \in Nat \ {0}
  /\ part \in {"high", "low"} /\ phase \in {"data", "high", "low"}
  /\ pins \in Nibbles \cup {Released} /\ half \in Nibbles \cup {NoNibble, Blur}
  /\ mode \in {4, 8} /\ settings \subseteq {"lines", "entry", "on"}
  /\ ddram \in [Addresses -> Chars \cup {Unknown}] /\ address \in Addresses \cup {Unknown}
  /\ wanted \in [Cells -> Chars \cup {Unknown}]
  /\ calls \in Nat /\ faults \in Nat /\ resets \in Nat

\* init() brings the display into step from whatever state it was left in, half a
\* byte or EN high included, and it stays in step until a call returns an error.
InStep ==
  initialized /\ ~failed =>
    /\ mode = 4 /\ settings = {"lines", "entry", "on"}
    /\ call = NoCall => half = NoNibble /\ ~en

Shown == [c \in Cells |-> ddram[AddressOf(c[1], c[2])]]
State ==
  IF ~initialized THEN "off" ELSE IF failed THEN "broken" ELSE IF call = NoCall THEN "ready" ELSE "busy"

\* What is printed is what the screen shows, and nothing else changes.
AScreen == INSTANCE Screen WITH text <- Shown, state <- State
ImplementsScreen == AScreen!Spec
=============================================================================
