----------------------------- MODULE LcdProofs ------------------------------
(***************************************************************************)
(* Proofs about Lcd, for every size of the display, every line it can be   *)
(* asked to print and every bound.                                         *)
(***************************************************************************)
EXTENDS Lcd, SequenceTheorems, TLAPS

(* Calls and what they send *)

LEMMA LengthOf ==
  ASSUME NEW S, NEW n \in Nat, NEW s \in [1..n -> S]
  PROVE  Len(s) = n
<1>1. s \in Seq(S)
  OBVIOUS
<1>2. Len(s) \in Nat /\ DOMAIN s = 1..Len(s) /\ DOMAIN s = 1..n
  BY <1>1, LenProperties
<1> DEFINE m == Len(s)
<1>3. m \in Nat /\ 1..m = 1..n
  BY <1>2
<1> HIDE DEF m
<1>4. m = n
  <2>1. \A k \in Nat : k \in 1..m <=> k \in 1..n
    BY <1>3
  <2> QED
    BY <1>3, <2>1
<1> QED
  BY <1>4 DEF m

LEMMA WriteShape ==
  ASSUME NEW c \in Writes
  PROVE  \E l \in Lines, i \in Cols, n \in 1..COLUMNS, pad \in BOOLEAN : \E t \in [1..n -> Chars] :
           /\ c = WriteCall(l, i, t, pad)
           /\ i + n <= COLUMNS /\ (pad => i = 0)
<1>1. CASE c \in {PutChar(d, i, l) : d \in Chars, i \in Cols, l \in Lines}
  <2>a. PICK d \in Chars, i \in Cols, l \in Lines : c = PutChar(d, i, l)
    BY <1>1
  <2>1. c = WriteCall(l, i, <<d>>, FALSE)
    BY <2>a DEF PutChar
  <2>2. <<d>> \in [1..1 -> Chars]
    OBVIOUS
  <2>3. 1 \in 1..COLUMNS /\ i + 1 <= COLUMNS
    BY ConstantsAssumption DEF Cols
  <2> QED
    BY <2>1, <2>2, <2>3
<1>2. CASE c \in {Println(s, l, pad) : s \in Strings, l \in Lines, pad \in BOOLEAN}
  <2>1. PICK s \in Strings, l \in Lines, pad \in BOOLEAN : c = WriteCall(l, 0, s, pad)
    BY <1>2 DEF Println
  <2>2. PICK n \in 1..COLUMNS : s \in [1..n -> Chars]
    BY DEF Strings
  <2>3. 0 \in Cols /\ 0 + n <= COLUMNS
    BY ConstantsAssumption DEF Cols
  <2> QED
    BY <2>1, <2>2, <2>3
<1> QED
  BY <1>1, <1>2 DEF Writes

\* What a write sends: its characters, and spaces up to the end of the line if it is padded.
LEMMA SentFacts ==
  ASSUME NEW c \in Writes
  PROVE  /\ c.op = "write" /\ c.line \in Lines /\ c.col \in Cols /\ c.pad \in BOOLEAN
         /\ Len(c.text) \in Nat /\ c.text \in [1..Len(c.text) -> Chars]
         /\ Len(Sent(c)) \in Nat /\ Sent(c) \in [1..Len(Sent(c)) -> Chars]
         /\ Len(c.text) <= Len(Sent(c)) /\ c.col + Len(Sent(c)) <= COLUMNS
         /\ \A i \in 1..Len(Sent(c)) : Sent(c)[i] = IF i <= Len(c.text) THEN c.text[i] ELSE Blank
         /\ c.pad => c.col + Len(Sent(c)) = COLUMNS
         /\ ~c.pad => Len(Sent(c)) = Len(c.text)
<1>1. PICK l \in Lines, i \in Cols, n \in 1..COLUMNS, pad \in BOOLEAN : \E t \in [1..n -> Chars] :
        c = WriteCall(l, i, t, pad) /\ i + n <= COLUMNS /\ (pad => i = 0)
  BY WriteShape
<1>2. PICK t \in [1..n -> Chars] : c = WriteCall(l, i, t, pad) /\ i + n <= COLUMNS /\ (pad => i = 0)
  BY <1>1
<1>3. c.op = "write" /\ c.line = l /\ c.col = i /\ c.text = t /\ c.pad = pad
  BY <1>2 DEF WriteCall
<1>4. n \in Nat /\ n <= COLUMNS /\ COLUMNS \in Nat /\ i \in Nat
  BY ConstantsAssumption DEF Cols
<1>5. Len(t) = n
  BY <1>4, LengthOf
<1>6. CASE pad
  <2> DEFINE s == [k \in 1..COLUMNS |-> IF k <= n THEN t[k] ELSE Blank]
  <2>1. Sent(c) = s
    BY <1>3, <1>5, <1>6 DEF Sent
  <2>2. s \in [1..COLUMNS -> Chars]
    <3>1. ASSUME NEW k \in 1..COLUMNS PROVE (IF k <= n THEN t[k] ELSE Blank) \in Chars
      BY <1>4, ConstantsAssumption
    <3> QED
      BY <3>1
  <2>3. \A k \in 1..COLUMNS : s[k] = IF k <= n THEN t[k] ELSE Blank
    OBVIOUS
  <2> HIDE DEF s
  <2>4. Len(s) = COLUMNS
    BY <1>4, <2>2, LengthOf
  <2>5. i = 0
    BY <1>2, <1>6
  <2> QED
    BY <1>3, <1>4, <1>5, <1>6, <2>1, <2>2, <2>3, <2>4, <2>5
<1>7. CASE ~pad
  <2>1. Sent(c) = t
    BY <1>3, <1>7 DEF Sent
  <2> QED
    BY <1>2, <1>3, <1>4, <1>5, <1>7, <2>1
<1> QED
  BY <1>6, <1>7

LEMMA CallKinds ==
  ASSUME NEW c \in Calls
  PROVE  /\ \/ c = InitCall /\ c.op = "init" /\ Script(c) = InitScript
            \/ c = ClearCall /\ c.op = "clear" /\ Script(c) = <<Cmd("clear")>>
            \/ c \in Writes /\ c.op = "write" /\ Script(c) = WriteScript(c)
         /\ c # NoCall
<1>1. CASE c = InitCall
  BY <1>1, NoCallAssumption DEF InitCall, Script, Calls
<1>2. CASE c = ClearCall
  BY <1>2, NoCallAssumption DEF ClearCall, Script, Calls
<1>3. CASE c \in Writes
  <2>1. c.op = "write"
    BY <1>3, SentFacts
  <2>2. Script(c) = WriteScript(c)
    BY <2>1 DEF Script
  <2> QED
    BY <1>3, <2>1, <2>2, NoCallAssumption
<1> QED
  BY <1>1, <1>2, <1>3 DEF Calls

LEMMA InitScriptFacts ==
  /\ Len(InitScript) = 9
  /\ InitScript[1] = Three /\ InitScript[2] = Three /\ InitScript[3] = Three /\ InitScript[4] = Two
  /\ InitScript[5] = Cmd("lines") /\ InitScript[6] = Cmd("off") /\ InitScript[7] = Cmd("clear")
  /\ InitScript[8] = Cmd("entry") /\ InitScript[9] = Cmd("on")
  BY DEF InitScript

LEMMA WriteScriptFacts ==
  ASSUME NEW c \in Writes
  PROVE  /\ Len(WriteScript(c)) = Len(Sent(c)) + 1
         /\ WriteScript(c)[1] = Byte("address", AddressOf(c.line, c.col))
         /\ \A k \in 2..Len(Sent(c)) + 1 : WriteScript(c)[k] = Byte("data", Sent(c)[k - 1])
<1> DEFINE n == Len(Sent(c))
<1> DEFINE e(k) == IF k = 1 THEN Byte("address", AddressOf(c.line, c.col)) ELSE Byte("data", Sent(c)[k - 1])
<1> DEFINE s == [k \in 1..n + 1 |-> e(k)]
<1>1. n \in Nat
  BY SentFacts
<1>2. WriteScript(c) = s
  BY DEF WriteScript
<1>3. s \in [1..n + 1 -> {e(k) : k \in 1..n + 1}]
  OBVIOUS
<1>4. \A k \in 1..n + 1 : s[k] = e(k)
  OBVIOUS
<1> HIDE DEF s, n
<1>5. Len(s) = n + 1
  <2>1. n + 1 \in Nat
    BY <1>1
  <2> QED
    BY <1>3, <2>1, LengthOf
<1>6. s[1] = Byte("address", AddressOf(c.line, c.col))
  BY <1>1, <1>4
<1>7. \A k \in 2..n + 1 : s[k] = Byte("data", Sent(c)[k - 1])
  BY <1>1, <1>4
<1> QED
  BY <1>2, <1>5, <1>6, <1>7 DEF n

\* Whatever is sent is a byte the display knows.
LEMMA ScriptTyped ==
  ASSUME NEW c \in Calls
  PROVE  /\ Len(Script(c)) \in Nat \ {0}
         /\ \A k \in 1..Len(Script(c)) : Script(c)[k] \in Bytes
<1>1. CASE c = InitCall
  <2>1. Script(c) = InitScript
    BY <1>1, CallKinds DEF InitCall, ClearCall
  <2>2. \A k \in 1..9 : InitScript[k] \in Commands
    BY InitScriptFacts DEF Commands, Single
  <2> QED
    BY <2>1, <2>2, InitScriptFacts DEF Bytes
<1>2. CASE c = ClearCall
  <2>1. Script(c) = <<Cmd("clear")>>
    BY <1>2, CallKinds DEF InitCall, ClearCall
  <2>2. Cmd("clear") \in Bytes
    BY DEF Bytes, Commands
  <2> QED
    BY <2>1, <2>2
<1>3. CASE c \in Writes
  <2>1. Script(c) = WriteScript(c)
    BY <1>3, CallKinds, SentFacts DEF InitCall, ClearCall
  <2>2. AddressOf(c.line, c.col) \in Addresses
    <3>1. c.line \in Lines /\ c.col \in 0..WIDTH - 1
      BY <1>3, SentFacts, ConstantsAssumption DEF Cols
    <3> QED
      BY <3>1 DEF Addresses
  <2>3. Byte("address", AddressOf(c.line, c.col)) \in Bytes
    BY <2>2 DEF Bytes
  <2>4. \A k \in 2..Len(Sent(c)) + 1 : Byte("data", Sent(c)[k - 1]) \in Bytes
    <3> SUFFICES ASSUME NEW k \in 2..Len(Sent(c)) + 1 PROVE Byte("data", Sent(c)[k - 1]) \in Bytes
      OBVIOUS
    <3>1. k - 1 \in 1..Len(Sent(c))
      BY <1>3, SentFacts
    <3>2. Sent(c)[k - 1] \in Chars
      BY <1>3, <3>1, SentFacts
    <3> QED
      BY <3>2 DEF Bytes
  <2>5. Len(Sent(c)) \in Nat
    BY <1>3, SentFacts
  <2>6. \A k \in 1..Len(Sent(c)) + 1 : WriteScript(c)[k] \in Bytes
    <3> SUFFICES ASSUME NEW k \in 1..Len(Sent(c)) + 1 PROVE WriteScript(c)[k] \in Bytes
      OBVIOUS
    <3>1. CASE k = 1
      BY <1>3, <2>3, <3>1, WriteScriptFacts
    <3>2. CASE k # 1
      <4>1. k \in 2..Len(Sent(c)) + 1
        BY <2>5, <3>2
      <4> QED
        BY <1>3, <2>4, <4>1, WriteScriptFacts
    <3> QED
      BY <3>1, <3>2
  <2> QED
    BY <1>3, <2>1, <2>5, <2>6, WriteScriptFacts
<1> QED
  BY <1>1, <1>2, <1>3 DEF Calls

(* The display *)

DisplayTypes ==
  /\ half \in Nibbles \cup {NoNibble, Blur}
  /\ mode \in {4, 8} /\ settings \subseteq {"lines", "entry", "on"}
  /\ ddram \in [Addresses -> Chars \cup {Unknown}] /\ address \in Addresses \cup {Unknown}

\* It holds half a byte in 4 bit mode only.
HalfIn4 == mode = 8 => half = NoNibble

\* Each address is that of one character of one line.
LEMMA OnePlace ==
  ASSUME NEW l \in Lines, NEW m \in Lines, NEW i \in 0..WIDTH - 1, NEW j \in 0..WIDTH - 1,
         AddressOf(l, i) = AddressOf(m, j)
  PROVE  l = m /\ i = j
<1>1. OFFSETS[l] \in Nat /\ OFFSETS[m] \in Nat /\ WIDTH \in Nat
  BY ConstantsAssumption
<1>2. OFFSETS[l] + i = OFFSETS[m] + j
  BY DEF AddressOf
<1>3. l = m
  <2> SUFFICES ASSUME l # m PROVE FALSE
    OBVIOUS
  <2>1. OFFSETS[l] + WIDTH <= OFFSETS[m] \/ OFFSETS[m] + WIDTH <= OFFSETS[l]
    BY ConstantsAssumption
  <2> QED
    BY <1>1, <1>2, <2>1
<1> QED
  BY <1>1, <1>2, <1>3

LEMMA FollowingFacts ==
  ASSUME NEW l \in Lines, NEW i \in 0..WIDTH - 1
  PROVE  /\ Following(AddressOf(l, i)) \in Addresses
         /\ i + 1 < WIDTH => Following(AddressOf(l, i)) = AddressOf(l, i + 1)
<1> DEFINE then(m, j) == IF j + 1 < WIDTH THEN AddressOf(m, j + 1) ELSE AddressOf((m + 1) % ROWS, 0)
           a == AddressOf(l, i)
           good(b) == \E m \in Lines, j \in 0..WIDTH - 1 : a = AddressOf(m, j) /\ b = then(m, j)
<1>1. then(l, i) \in Addresses
  <2>1. CASE i + 1 < WIDTH
    <3>1. i + 1 \in 0..WIDTH - 1
      BY <2>1, ConstantsAssumption
    <3> QED
      BY <2>1, <3>1 DEF Addresses
  <2>2. CASE ~(i + 1 < WIDTH)
    <3>1. (l + 1) % ROWS \in Lines /\ 0 \in 0..WIDTH - 1
      BY ConstantsAssumption DEF Lines
    <3> QED
      BY <2>2, <3>1 DEF Addresses
  <2> QED
    BY <2>1, <2>2
<1>2. \E b \in Addresses : good(b)
  <2>1. good(then(l, i))
    OBVIOUS
  <2> QED
    BY <1>1, <2>1
<1>3. Following(a) = CHOOSE b \in Addresses : good(b)
  BY DEF Following
<1>4. Following(a) \in Addresses /\ good(Following(a))
  BY <1>2, <1>3
<1>5. PICK m \in Lines, j \in 0..WIDTH - 1 : a = AddressOf(m, j) /\ Following(a) = then(m, j)
  BY <1>4
<1>6. m = l /\ j = i
  BY <1>5, OnePlace
<1> QED
  BY <1>4, <1>5, <1>6

LEMMA ByteFacts ==
  ASSUME NEW b \in Bytes
  PROVE  /\ b.op = "address" => b.arg \in Addresses
         /\ b.op = "data" => b.arg \in Chars
<1>1. CASE b \in Commands
  BY <1>1 DEF Commands, Single, Three, Two, Cmd, Byte
<1>2. CASE b \in {Byte("address", a) : a \in Addresses}
  BY <1>2 DEF Byte
<1>3. CASE b \in {Byte("data", c) : c \in Chars}
  BY <1>3 DEF Byte
<1> QED
  BY <1>1, <1>2, <1>3 DEF Bytes

LEMMA StoreTyped ==
  ASSUME DisplayTypes, NEW c \in Chars, Store(c)
  PROVE  ddram' \in [Addresses -> Chars \cup {Unknown}] /\ address' \in Addresses \cup {Unknown}
<1>1. CASE address \in Addresses /\ "entry" \in settings
  <2>1. ddram' = [ddram EXCEPT ![address] = c] /\ address' = Following(address)
    BY <1>1 DEF Store
  <2>2. Following(address) \in Addresses
    <3>1. PICK l \in Lines, i \in 0..WIDTH - 1 : address = AddressOf(l, i)
      BY <1>1 DEF Addresses
    <3> QED
      BY <3>1, FollowingFacts
  <2> QED
    BY <2>1, <2>2 DEF DisplayTypes
<1>2. CASE ~(address \in Addresses /\ "entry" \in settings)
  BY <1>2 DEF Store, Anything
<1> QED
  BY <1>1, <1>2

LEMMA ExecuteTyped ==
  ASSUME DisplayTypes, NEW b \in Bytes, Execute(b)
  PROVE  /\ mode' = mode /\ settings' \subseteq {"lines", "entry", "on"}
         /\ ddram' \in [Addresses -> Chars \cup {Unknown}] /\ address' \in Addresses \cup {Unknown}
<1>1. CASE b.op = "data" /\ Store(b.arg)
  BY <1>1, ByteFacts, StoreTyped DEF Store, DisplayTypes
<1>2. CASE b.op = "clear" /\ ddram' = [a \in Addresses |-> Blank] /\ address' = AddressOf(0, 0)
           /\ UNCHANGED <<mode, settings>>
  <2>1. 0 \in Lines /\ 0 \in 0..WIDTH - 1
    BY ConstantsAssumption DEF Lines
  <2>2. AddressOf(0, 0) \in Addresses
    BY <2>1 DEF Addresses
  <2>3. Blank \in Chars
    BY ConstantsAssumption
  <2> QED
    BY <1>2, <2>2, <2>3 DEF DisplayTypes
<1>3. CASE b.op = "address" /\ address' = b.arg /\ UNCHANGED <<mode, ddram, settings>>
  BY <1>3, ByteFacts DEF DisplayTypes
<1>4. CASE /\ UNCHANGED <<mode, ddram, address>>
           /\ settings' \in {settings \cup {"lines"}, settings \ {"on"}, settings \cup {"on"}, settings \cup {"entry"}}
  BY <1>4 DEF DisplayTypes
<1> QED
  BY <1>1, <1>2, <1>3, <1>4 DEF Execute

LEMMA ScrambleTyped ==
  ASSUME Scramble
  PROVE  /\ mode' \in {4, 8} /\ settings' = {} /\ address' = Unknown
         /\ ddram' \in [Addresses -> Chars \cup {Unknown}]
  BY DEF Scramble, Anything

\* Whatever the display latches, it stays a display.
LEMMA LatchTyped ==
  ASSUME DisplayTypes, HalfIn4, NEW n \in Nibbles \cup {Blur}, Latch(n)
  PROVE  DisplayTypes' /\ HalfIn4'
<1>1. CASE mode = 8 /\ UNCHANGED half /\ (SetFunction(8) \/ SetFunction(4) \/ Scramble)
  <2>1. half' = NoNibble
    BY <1>1 DEF HalfIn4
  <2>2. CASE Scramble
    BY <2>1, <2>2, ScrambleTyped DEF DisplayTypes, HalfIn4
  <2>3. CASE SetFunction(8) \/ SetFunction(4)
    BY <2>1, <2>3 DEF DisplayTypes, HalfIn4, SetFunction
  <2> QED
    BY <1>1, <2>2, <2>3
<1>2. CASE mode = 4 /\ half' = n /\ UNCHANGED <<mode, ddram, address, settings>>
  BY <1>2 DEF DisplayTypes, HalfIn4
<1>3. CASE /\ mode = 4 /\ half' = NoNibble
           /\ SetFunction(8) \/ Scramble \/ \E b \in Bytes \ Single : Execute(b)
  <2>1. CASE Scramble
    BY <1>3, <2>1, ScrambleTyped DEF DisplayTypes, HalfIn4
  <2>2. CASE SetFunction(8)
    BY <1>3, <2>2 DEF DisplayTypes, HalfIn4, SetFunction
  <2>3. CASE \E b \in Bytes \ Single : Execute(b)
    BY <1>3, <2>3, ExecuteTyped DEF DisplayTypes, HalfIn4
  <2> QED
    BY <1>3, <2>1, <2>2, <2>3
<1> QED
  BY <1>1, <1>2, <1>3 DEF Latch

LEMMA PinsTyped ==
  ASSUME DisplayTypes, HalfIn4, NEW n \in Nibbles, NEW level \in BOOLEAN, SetPins(n, level)
  PROVE  DisplayTypes' /\ HalfIn4' /\ pins' = n /\ en' = level
<1>1. pins' = n /\ en' = level
  BY DEF SetPins
<1>2. CASE Latch(n) \/ Latch(Blur)
  BY <1>1, <1>2, LatchTyped
<1>3. CASE UNCHANGED displayVars
  BY <1>1, <1>3 DEF displayVars, DisplayTypes, HalfIn4
<1> QED
  BY <1>2, <1>3 DEF SetPins

(* Types, and where a call can be *)

DriverTypes ==
  /\ initialized \in BOOLEAN /\ call \in Calls \cup {NoCall} /\ next \in Nat \ {0}
  /\ part \in {"high", "low"} /\ phase \in {"data", "high", "low"}
PortTypes == pins \in Nibbles \cup {Released} /\ en \in BOOLEAN
GhostTypes == wanted \in [Cells -> Chars \cup {Unknown}] /\ failed \in BOOLEAN
BoundTypes == calls \in Nat /\ faults \in Nat /\ resets \in Nat

LEMMA TypeParts == TypeOK <=> DriverTypes /\ DisplayTypes /\ PortTypes /\ GhostTypes /\ BoundTypes
  BY Zenon DEF TypeOK, DriverTypes, DisplayTypes, PortTypes, GhostTypes, BoundTypes

LEMMA TypePartsNext == TypeOK' <=> DriverTypes' /\ DisplayTypes' /\ PortTypes' /\ GhostTypes' /\ BoundTypes'
  BY Zenon DEF TypeOK, DriverTypes, DisplayTypes, PortTypes, GhostTypes, BoundTypes

LEMMA Frames ==
  ASSUME TypeOK, HalfIn4
  PROVE  /\ UNCHANGED displayVars => DisplayTypes' /\ HalfIn4'
         /\ UNCHANGED portVars => PortTypes'
         /\ UNCHANGED ghostVars => GhostTypes'
         /\ UNCHANGED boundVars => BoundTypes'
  BY TypeParts DEF displayVars, portVars, ghostVars, boundVars, DisplayTypes, HalfIn4, PortTypes, GhostTypes, BoundTypes

\* A call is at one of its bytes or behind the last, and in the low nibble only of
\* a byte that has two.
Control ==
  /\ call = NoCall => next = 1 /\ part = "high" /\ phase = "data"
  /\ call # NoCall =>
       /\ next \in 1..Len(Script(call)) + 1
       /\ part = "low" => Sending /\ Script(call)[next] \notin Single
       /\ phase # "data" => Sending
       /\ initialized <=> call # InitCall
  /\ call = InitCall => ~failed

Basic == TypeOK /\ HalfIn4 /\ Control

LEMMA InitBasic == Init => Basic
<1> SUFFICES ASSUME Init PROVE Basic
  OBVIOUS
<1>1. DriverTypes
  <2>1. 1 \in Nat \ {0}
    OBVIOUS
  <2> QED
    BY <2>1, Zenon DEF Init, DriverTypes
<1>2. DisplayTypes /\ PortTypes /\ HalfIn4
  BY DEF Init, DisplayTypes, PortTypes, HalfIn4, Anything
<1>3. GhostTypes /\ BoundTypes
  BY ConstantsAssumption DEF Init, GhostTypes, BoundTypes, BlankScreen
<1>4. Control
  BY NoCallAssumption DEF Init, Control, Calls
<1> QED
  BY <1>1, <1>2, <1>3, <1>4, TypeParts DEF Basic

\* What is being sent.
LEMMA SendingTyped ==
  ASSUME Basic, Sending
  PROVE  /\ call \in Calls /\ call # NoCall
         /\ next \in 1..Len(Script(call)) /\ Len(Script(call)) \in Nat
         /\ Script(call)[next] \in Bytes
         /\ Nibble \in Nibbles /\ Nibble.byte = Script(call)[next] /\ Nibble.part = part
<1>1. call \in Calls /\ call # NoCall
  BY TypeParts DEF Basic, Sending, DriverTypes
<1>2. Len(Script(call)) \in Nat
  BY <1>1, ScriptTyped
<1>3. next \in 1..Len(Script(call))
  BY <1>1, <1>2 DEF Basic, Sending, Control
<1>4. Script(call)[next] \in Bytes
  BY <1>1, <1>3, ScriptTyped
<1>5. part \in {"high", "low"}
  BY TypeParts DEF Basic, DriverTypes
<1> QED
  BY <1>1, <1>2, <1>3, <1>4, <1>5 DEF Nibble, Nibbles

LEMMA AskedTyped ==
  ASSUME TypeOK, NEW c \in Writes, NEW cell \in Cells
  PROVE  Asked(c, cell) \in Chars \cup {Unknown}
<1>1. wanted[cell] \in Chars \cup {Unknown} /\ Blank \in Chars
  BY TypeParts, ConstantsAssumption DEF GhostTypes
<1>2. cell[1] \in Lines /\ cell[2] \in Cols
  BY DEF Cells
<1>3. cell[2] \in Int /\ c.col \in Int /\ Len(c.text) \in Nat
  BY <1>2, SentFacts DEF Cols
<1> DEFINE i == cell[2] - c.col + 1
<1>4. CASE i \in 1..Len(c.text)
  <2>1. c.text[i] \in Chars
    BY <1>4, SentFacts
  <2>2. Asked(c, cell) \in {c.text[i], wanted[cell]}
    BY <1>3, <1>4 DEF Asked
  <2> QED
    BY <1>1, <2>1, <2>2
<1>5. CASE i \notin 1..Len(c.text)
  <2>1. Asked(c, cell) \in {Blank, wanted[cell]}
    BY <1>5 DEF Asked
  <2> QED
    BY <1>1, <2>1
<1> QED
  BY <1>4, <1>5

LEMMA CallBasic ==
  ASSUME Basic, NEW c \in Calls, Call(c)
  PROVE  Basic'
<1>1. call' = c /\ next' = 1 /\ part' = "high" /\ phase' = "data" /\ UNCHANGED initialized
  BY DEF Call
<1>2. DriverTypes'
  <2>1. 1 \in Nat \ {0} /\ initialized \in BOOLEAN
    BY TypeParts DEF Basic, DriverTypes
  <2> QED
    BY <1>1, <2>1, Zenon DEF DriverTypes
<1>3. DisplayTypes' /\ HalfIn4' /\ PortTypes'
  BY Frames DEF Basic, Call
<1>4. GhostTypes'
  <2>1. failed' \in BOOLEAN
    BY Zenon DEF Call
  <2>2. CASE c.op = "write"
    <3>1. c \in Writes
      BY <2>2, CallKinds
    <3>2. wanted' = [cell \in Cells |-> Asked(c, cell)]
      BY <2>2 DEF Call
    <3>3. \A cell \in Cells : Asked(c, cell) \in Chars \cup {Unknown}
      BY <3>1, AskedTyped DEF Basic
    <3> QED
      BY <2>1, <3>2, <3>3 DEF GhostTypes
  <2>3. CASE c.op # "write"
    <3>1. wanted' = BlankScreen
      BY <2>3 DEF Call
    <3> QED
      BY <2>1, <3>1, ConstantsAssumption DEF GhostTypes, BlankScreen
  <2> QED
    BY <2>2, <2>3
<1>5. BoundTypes'
  BY TypeParts DEF Basic, BoundTypes, Call
<1>6. Control'
  <2>1. c # NoCall
    BY CallKinds
  <2>2. 1 \in 1..Len(Script(c)) + 1
    BY ScriptTyped
  <2>3. (initialized <=> c # InitCall) /\ (failed' = (failed /\ c # InitCall))
    BY Zenon DEF Call
  <2> QED
    BY <1>1, <2>1, <2>2, <2>3, Zenon DEF Control
<1> QED
  BY <1>2, <1>3, <1>4, <1>5, <1>6, TypePartsNext DEF Basic

LEMMA PortTyped ==
  ASSUME Basic, Sending, NEW level \in BOOLEAN, SetPins(Nibble, level)
  PROVE  DisplayTypes' /\ HalfIn4' /\ PortTypes' /\ pins' = Nibble /\ en' = level
<1>1. DisplayTypes /\ HalfIn4 /\ Nibble \in Nibbles
  BY TypeParts, SendingTyped DEF Basic
<1>2. DisplayTypes' /\ HalfIn4' /\ pins' = Nibble /\ en' = level
  BY <1>1, PinsTyped
<1> QED
  BY <1>1, <1>2 DEF PortTypes

LEMMA PulseBasic ==
  ASSUME Basic, SetData \/ RaiseEnable
  PROVE  Basic'
<1>1. Sending /\ phase' \in {"high", "low"} /\ UNCHANGED <<initialized, call, next, part, ghostVars, boundVars>>
  BY DEF SetData, RaiseEnable
<1>2. SetPins(Nibble, FALSE) \/ SetPins(Nibble, TRUE)
  BY DEF SetData, RaiseEnable
<1>3. DisplayTypes' /\ HalfIn4' /\ PortTypes'
  BY <1>1, <1>2, PortTyped
<1>4. DriverTypes'
  <2>1. DriverTypes
    BY TypeParts DEF Basic
  <2> QED
    BY <1>1, <2>1, Zenon DEF DriverTypes
<1>5. GhostTypes' /\ BoundTypes'
  BY <1>1, Frames DEF Basic
<1>6. Control'
  <2>1. Control /\ Sending'
    BY <1>1 DEF Basic, Sending
  <2>2. UNCHANGED failed
    BY <1>1 DEF ghostVars
  <2> QED
    BY <1>1, <2>1, <2>2, Zenon DEF Control, Sending
<1> QED
  BY <1>3, <1>4, <1>5, <1>6, TypePartsNext DEF Basic

LEMMA DropBasic ==
  ASSUME Basic, DropEnable
  PROVE  Basic'
<1>1. Sending /\ phase' = "data" /\ UNCHANGED <<initialized, call, ghostVars, boundVars>>
  BY DEF DropEnable
<1>2. call \in Calls /\ call # NoCall /\ next \in 1..Len(Script(call)) /\ Len(Script(call)) \in Nat
      /\ Nibble.byte = Script(call)[next]
  BY <1>1, SendingTyped
<1>3. DisplayTypes' /\ HalfIn4' /\ PortTypes'
  BY <1>1, PortTyped DEF DropEnable
<1>4. GhostTypes' /\ BoundTypes'
  BY <1>1, Frames DEF Basic
<1>5. \/ part' = "low" /\ next' = next /\ Nibble.byte \notin Single
      \/ part' = "high" /\ next' = next + 1
  BY Zenon DEF DropEnable
<1>6. next' \in 1..Len(Script(call)) + 1 /\ next' \in Nat \ {0}
  BY <1>2, <1>5
<1>7. DriverTypes'
  <2>1. DriverTypes
    BY TypeParts DEF Basic
  <2> QED
    BY <1>1, <1>5, <1>6, <2>1, Zenon DEF DriverTypes
<1>8. Control'
  <2>1. Control /\ UNCHANGED failed
    BY <1>1 DEF Basic, ghostVars
  <2>2. CASE part' = "low" /\ next' = next /\ Nibble.byte \notin Single
    <3>1. Sending'
      BY <1>1, <2>2, Zenon DEF Sending
    <3> QED
      BY <1>1, <1>2, <1>6, <2>1, <2>2, <3>1, Zenon DEF Control
  <2>3. CASE part' = "high" /\ next' = next + 1
    <3>1. part' # "low"
      BY <2>3
    <3> QED
      BY <1>1, <1>2, <1>6, <2>1, <3>1, Zenon DEF Control
  <2> QED
    BY <1>5, <2>2, <2>3
<1> QED
  BY <1>3, <1>4, <1>7, <1>8, TypePartsNext DEF Basic

\* Between calls there is nothing to control.
LEMMA IdleControl ==
  ASSUME call' = NoCall, next' = 1, part' = "high", phase' = "data"
  PROVE  Control'
  BY NoCallAssumption DEF Control, Calls

LEMMA FailBasic ==
  ASSUME Basic, TransferFails
  PROVE  Basic'
<1>1. /\ Sending /\ call' = NoCall /\ next' = 1 /\ part' = "high" /\ phase' = "data"
      /\ failed' = TRUE /\ faults' = faults + 1 /\ UNCHANGED <<initialized, wanted, calls, resets>>
  BY DEF TransferFails
<1>2. DisplayTypes' /\ HalfIn4' /\ PortTypes'
  <2>1. CASE UNCHANGED <<portVars, displayVars>>
    BY <2>1, Frames DEF Basic
  <2>2. CASE SetPins(Nibble, phase = "high")
    BY <1>1, <2>2, PortTyped
  <2> QED
    BY <2>1, <2>2 DEF TransferFails
<1>3. DriverTypes'
  <2>1. DriverTypes /\ 1 \in Nat \ {0}
    BY TypeParts DEF Basic
  <2> QED
    BY <1>1, <2>1, Zenon DEF DriverTypes
<1>4. GhostTypes'
  BY <1>1, TypeParts DEF Basic, GhostTypes
<1>5. BoundTypes'
  BY <1>1, TypeParts DEF Basic, BoundTypes
<1>6. Control'
  BY <1>1, IdleControl
<1> QED
  BY <1>2, <1>3, <1>4, <1>5, <1>6, TypePartsNext DEF Basic

LEMMA IdleBasic ==
  ASSUME Basic, Return \/ Deinit
  PROVE  Basic'
<1>1. call' = NoCall /\ next' = 1 /\ part' = "high" /\ phase' = "data"
      /\ initialized' \in BOOLEAN /\ UNCHANGED <<portVars, displayVars, ghostVars>>
  <2>1. CASE Return
    <3>1. ~Sending /\ call # NoCall
      BY <2>1 DEF Return
    <3>2. phase = "data" /\ part = "high"
      BY <3>1, TypeParts DEF Basic, Control, DriverTypes
    <3> QED
      BY <2>1, <3>2, Zenon DEF Return
  <2>2. CASE Deinit
    BY <2>2, Zenon DEF Deinit, Basic, Control
  <2> QED
    BY <2>1, <2>2
<1>2. DisplayTypes' /\ HalfIn4' /\ PortTypes' /\ GhostTypes'
  BY <1>1, Frames DEF Basic
<1>3. DriverTypes'
  <2>1. 1 \in Nat \ {0}
    OBVIOUS
  <2> QED
    BY <1>1, <2>1, Zenon DEF DriverTypes
<1>4. BoundTypes'
  BY TypeParts DEF Basic, BoundTypes, Return, Deinit, boundVars
<1>5. Control'
  BY <1>1, IdleControl
<1> QED
  BY <1>2, <1>3, <1>4, <1>5, TypePartsNext DEF Basic

LEMMA ResetBasic ==
  ASSUME Basic, Reset
  PROVE  Basic'
<1>1. call' = NoCall /\ next' = 1 /\ part' = "high" /\ phase' = "data" /\ initialized' = FALSE
      /\ UNCHANGED ghostVars
  BY DEF Reset
<1>2. DisplayTypes' /\ HalfIn4' /\ PortTypes'
  <2>1. CASE UNCHANGED <<portVars, displayVars>>
    BY <2>1, Frames DEF Basic
  <2>2. CASE ~UNCHANGED <<portVars, displayVars>>
    BY <2>2 DEF Reset, DisplayTypes, PortTypes, HalfIn4, Anything
  <2> QED
    BY <2>1, <2>2
<1>3. DriverTypes'
  <2>1. 1 \in Nat \ {0}
    OBVIOUS
  <2> QED
    BY <1>1, <2>1, Zenon DEF DriverTypes
<1>4. GhostTypes' /\ BoundTypes'
  BY <1>1, Frames, TypeParts DEF Basic, BoundTypes, Reset
<1>5. Control'
  BY <1>1, IdleControl
<1> QED
  BY <1>2, <1>3, <1>4, <1>5, TypePartsNext DEF Basic

LEMMA StutterBasic ==
  ASSUME Basic, UNCHANGED vars
  PROVE  Basic'
<1>1. UNCHANGED <<initialized, call, next, part, phase, failed>> /\ UNCHANGED <<displayVars, portVars, ghostVars, boundVars>>
  BY DEF vars, driverVars, ghostVars
<1>2. DisplayTypes' /\ HalfIn4' /\ PortTypes' /\ GhostTypes' /\ BoundTypes'
  BY <1>1, Frames DEF Basic
<1>3. DriverTypes'
  BY <1>1, TypeParts, Zenon DEF Basic, DriverTypes
<1>4. Control'
  BY <1>1, Zenon DEF Basic, Control, Sending
<1> QED
  BY <1>2, <1>3, <1>4, TypePartsNext DEF Basic

LEMMA BasicStep == Basic /\ [Next]_vars => Basic'
<1> SUFFICES ASSUME Basic, [Next]_vars PROVE Basic'
  OBVIOUS
<1>1. CASE Next
  BY <1>1, CallBasic, PulseBasic, DropBasic, FailBasic, IdleBasic, ResetBasic, Zenon DEF Next
<1>2. CASE UNCHANGED vars
  BY <1>2, StutterBasic
<1> QED
  BY <1>1, <1>2

\* The variables keep their types.
THEOREM TypeCorrect == Spec => []TypeOK
<1>1. Basic => TypeOK
  BY DEF Basic
<1> QED
  BY <1>1, InitBasic, BasicStep, PTL DEF Spec

(* What the display makes of a nibble *)

LEMMA NibbleFacts ==
  ASSUME NEW b \in Bytes
  PROVE  /\ High(b) \in Nibbles /\ Low(b) \in Nibbles
         /\ High(b) # NoNibble /\ Low(b) # NoNibble /\ High(b).byte = b /\ Low(b).byte = b
         /\ \A c : High(b) # Low(c) /\ (High(b) = High(c) => b = c) /\ (Low(b) = Low(c) => b = c)
<1>1. High(b) \in Nibbles /\ Low(b) \in Nibbles /\ High(b).byte = b /\ Low(b).byte = b
      /\ High(b).part = "high" /\ Low(b).part = "low"
  BY DEF High, Low, Nibbles
<1>2. \A c : High(c).byte = c /\ Low(c).byte = c /\ Low(c).part = "low"
  BY DEF High, Low
<1>3. High(b) # NoNibble /\ Low(b) # NoNibble
  BY <1>1, NibblesAssumption
<1>4. "high" # "low"
  OBVIOUS
<1> QED
  BY <1>1, <1>2, <1>3, <1>4, Zenon

LEMMA SingleFacts ==
  /\ Three \in Bytes /\ Two \in Bytes /\ Three \in Single /\ Two \in Single /\ Three # Two
  /\ \A op \in {"lines", "off", "clear", "entry", "on"} : Cmd(op) \in Bytes \ Single
  /\ \A arg : Byte("address", arg) \notin Single /\ Byte("data", arg) \notin Single
<1>1. Three # Two /\ Three \in Single /\ Two \in Single /\ Three \in Bytes /\ Two \in Bytes
  BY DEF Three, Two, Single, Cmd, Byte, Bytes, Commands
<1>2. \A op \in {"lines", "off", "clear", "entry", "on"} : Cmd(op) \in Bytes
  BY DEF Bytes, Commands
<1>3. \A op, arg : Byte(op, arg) \in Single => op \in {"three", "two"}
  <2> SUFFICES ASSUME NEW op, NEW arg, Byte(op, arg) \in Single PROVE op \in {"three", "two"}
    OBVIOUS
  <2>1. Byte(op, arg).op = op /\ Three.op = "three" /\ Two.op = "two"
    BY DEF Three, Two, Cmd, Byte
  <2>2. Byte(op, arg) = Three \/ Byte(op, arg) = Two
    BY DEF Single
  <2> QED
    BY <2>1, <2>2
<1>4. \A op \in {"lines", "off", "clear", "entry", "on"} : Cmd(op) \notin Single
  BY <1>3 DEF Cmd
<1> QED
  BY <1>1, <1>2, <1>3, <1>4

LEMMA LatchIn8 ==
  ASSUME mode = 8
  PROVE  /\ Latch(High(Three)) => mode' = 8 /\ half' = half
         /\ Latch(High(Two)) => mode' = 4 /\ half' = half
<1>1. High(Three) # High(Two)
  BY SingleFacts, NibbleFacts
<1> QED
  BY <1>1 DEF Latch, SetFunction

LEMMA LatchFirst ==
  ASSUME mode = 4, half = NoNibble, NEW n, Latch(n)
  PROVE  half' = n /\ UNCHANGED <<mode, ddram, address, settings>>
  BY DEF Latch

LEMMA LatchSecond ==
  ASSUME mode = 4, half # NoNibble, NEW n, Latch(n)
  PROVE  half' = NoNibble
  BY DEF Latch

LEMMA LatchThrees ==
  ASSUME mode = 4, half = High(Three), Latch(High(Three))
  PROVE  mode' = 8 /\ half' = NoNibble
<1>1. half # NoNibble
  BY SingleFacts, NibbleFacts
<1>2. \A b \in Bytes \ Single : half # High(b)
  BY SingleFacts, NibbleFacts
<1> QED
  BY <1>1, <1>2 DEF Latch, SetFunction

LEMMA LatchPair ==
  ASSUME mode = 4, NEW b \in Bytes \ Single, half = High(b), Latch(Low(b))
  PROVE  half' = NoNibble /\ Execute(b)
<1>1. half # NoNibble /\ Low(b) # High(Three)
  BY SingleFacts, NibbleFacts
<1>2. \A c \in Bytes \ Single : half = High(c) => c = b
  BY NibbleFacts
<1> QED
  BY <1>1, <1>2 DEF Latch

(* The port *)

\* EN is high in the last third of a nibble only, over the data of the nibble;
\* but a reset, a fault or power on may leave it high for the first one of init().
Port ==
  /\ phase = "low" => en /\ pins = Nibble
  /\ phase = "data" /\ (next # 1 \/ part = "low" \/ (initialized /\ ~failed)) => ~en

LEMMA InitPort == Init => Port
  BY Zenon DEF Init, Port

LEMMA PortStep ==
  ASSUME Basic, Port, [Next]_vars
  PROVE  Port'
<1>1. CASE \E c \in Calls : Call(c)
  <2>1. PICK c \in Calls : Call(c)
    BY <1>1
  <2>2. call = NoCall /\ call' = c /\ next' = 1 /\ part' = "high" /\ phase' = "data"
        /\ UNCHANGED <<initialized, en>>
    BY <2>1 DEF Call, portVars
  <2>3. failed' = (failed /\ c # InitCall) /\ (initialized <=> c # InitCall)
    BY <2>1, Zenon DEF Call
  <2>4. phase = "data"
    BY <2>2 DEF Basic, Control
  <2>5. initialized' /\ ~failed' => ~en'
    BY <2>2, <2>3, <2>4, Zenon DEF Port
  <2> QED
    BY <2>2, <2>5, Zenon DEF Port
<1>2. CASE SetData
  <2>1. phase' = "high"
    BY <1>2 DEF SetData
  <2> QED
    BY <2>1 DEF Port
<1>3. CASE RaiseEnable
  <2>1. Sending /\ phase' = "low" /\ UNCHANGED <<call, next, part>> /\ SetPins(Nibble, TRUE)
    BY <1>3 DEF RaiseEnable
  <2>2. pins' = Nibble /\ en' = TRUE
    BY <2>1, PortTyped
  <2>3. Nibble' = Nibble
    BY <2>1 DEF Nibble
  <2> QED
    BY <2>1, <2>2, <2>3, Zenon DEF Port
<1>4. CASE DropEnable
  <2>1. Sending /\ phase' = "data" /\ SetPins(Nibble, FALSE)
    BY <1>4 DEF DropEnable
  <2>2. en' = FALSE
    BY <2>1, PortTyped
  <2> QED
    BY <2>1, <2>2, Zenon DEF Port
<1>5. CASE TransferFails
  BY <1>5, Zenon DEF TransferFails, Port
<1>6. CASE Return
  <2>1. call \in Calls /\ ~Sending /\ next' = 1 /\ UNCHANGED <<part, phase, en>>
    BY <1>6, TypeParts DEF Return, Basic, DriverTypes, portVars
  <2>2. next # 1 /\ phase = "data" /\ part = "high"
    <3>1. call # NoCall /\ Len(Script(call)) \in Nat \ {0}
      BY <2>1, ScriptTyped, NoCallAssumption
    <3>2. ~(next <= Len(Script(call)))
      BY <2>1, <3>1 DEF Sending
    <3> QED
      BY <2>1, <3>1, <3>2, TypeParts DEF Basic, Control, DriverTypes
  <2>3. ~en
    BY <2>2, Zenon DEF Port
  <2> QED
    BY <2>1, <2>2, <2>3, Zenon DEF Port
<1>7. CASE Deinit
  <2>1. call = NoCall /\ initialized' = FALSE /\ UNCHANGED <<next, part, phase>>
    BY <1>7 DEF Deinit
  <2>2. next = 1 /\ part = "high" /\ phase = "data"
    BY <2>1, Zenon DEF Basic, Control
  <2> QED
    BY <2>1, <2>2, Zenon DEF Port
<1>8. CASE Reset
  BY <1>8, Zenon DEF Reset, Port
<1>9. CASE UNCHANGED vars
  <2>1. UNCHANGED <<initialized, call, next, part, phase, pins, en, failed>>
    BY <1>9 DEF vars, driverVars, portVars, ghostVars
  <2> QED
    BY <2>1, Zenon DEF Port, Nibble
<1> QED
  BY <1>1, <1>2, <1>3, <1>4, <1>5, <1>6, <1>7, <1>8, <1>9, Zenon DEF Next

\* Data and EN high change nothing in the display once EN is low.
LEMMA PulseQuiet ==
  ASSUME Port, SetData \/ RaiseEnable, next # 1 \/ part = "low" \/ (initialized /\ ~failed)
  PROVE  UNCHANGED displayVars
<1>1. CASE RaiseEnable
  BY <1>1, Zenon DEF RaiseEnable, SetPins
<1>2. CASE SetData
  <2>1. phase = "data" /\ SetPins(Nibble, FALSE)
    BY <1>2 DEF SetData
  <2>2. ~en
    BY <2>1, Zenon DEF Port
  <2> QED
    BY <2>1, <2>2, Zenon DEF SetPins
<1> QED
  BY <1>1, <1>2

\* When EN falls the display takes the nibble that is being sent.
LEMMA FallLatches ==
  ASSUME Basic, Port, Sending, phase = "low", SetPins(Nibble, FALSE)
  PROVE  Latch(Nibble)
<1>1. en /\ pins = Nibble
  BY Zenon DEF Port
<1>2. Nibble # Released
  BY SendingTyped, NibblesAssumption
<1> QED
  BY <1>1, <1>2, Zenon DEF SetPins

(* init() *)

Aligned == mode = 4 /\ half = IF part = "low" THEN High(Script(call)[next]) ELSE NoNibble

\* The three nibbles 0x3 bring the display to 8 bit mode whatever it was in: the
\* first may complete an old byte, the second may be the first half of 0x33, and
\* the third then completes it.
Syncing ==
  /\ next = 2 /\ mode = 4 => half \in {NoNibble, High(Three)}
  /\ next = 3 /\ mode = 4 => half = High(Three)
  /\ next = 4 => mode = 8
  /\ next >= 5 => Aligned

Setting ==
  /\ next >= 6 => "lines" \in settings
  /\ next >= 8 => ddram = [a \in Addresses |-> Blank]
  /\ next >= 9 => "entry" \in settings
  /\ next >= 10 => "on" \in settings

Starting == call = InitCall => Syncing /\ Setting /\ wanted = BlankScreen

LEMMA ExecuteCmd ==
  /\ Execute(Cmd("lines")) => settings' = settings \cup {"lines"} /\ UNCHANGED <<mode, ddram, address>>
  /\ Execute(Cmd("off")) => settings' = settings \ {"on"} /\ UNCHANGED <<mode, ddram, address>>
  /\ Execute(Cmd("on")) => settings' = settings \cup {"on"} /\ UNCHANGED <<mode, ddram, address>>
  /\ Execute(Cmd("entry")) => settings' = settings \cup {"entry"} /\ UNCHANGED <<mode, ddram, address>>
  /\ Execute(Cmd("clear")) => ddram' = [a \in Addresses |-> Blank] /\ UNCHANGED <<mode, settings>>
<1>1. \A op : Cmd(op).op = op
  BY DEF Cmd, Byte
<1> QED
  BY <1>1 DEF Execute

\* What is sent, as the halves of a byte.
LEMMA NibbleIs ==
  /\ part = "high" => Nibble = High(Script(call)[next])
  /\ part = "low" => Nibble = Low(Script(call)[next])
  BY DEF Nibble, High, Low

LEMMA SyncStep ==
  ASSUME Basic, call = InitCall, Syncing, next \in 1..4, Latch(Nibble), part = "high",
         part' = "high", next' = next + 1
  PROVE  Syncing'
<1>1. mode \in {4, 8} /\ (mode = 8 => half = NoNibble)
  BY TypeParts DEF Basic, DisplayTypes, HalfIn4
<1>2. Script(call) = InitScript
  BY CallKinds DEF Calls, InitCall, ClearCall, Script
<1>3. next \in 1..3 => Nibble = High(Three)
  BY <1>2, NibbleIs, InitScriptFacts
<1>4. next = 4 => Nibble = High(Two)
  BY <1>2, NibbleIs, InitScriptFacts
<1>5. CASE next = 1
  <2>1. mode = 8 => mode' = 8
    BY <1>3, <1>5, LatchIn8
  <2>2. mode = 4 /\ half = NoNibble => half' = High(Three)
    BY <1>3, <1>5, LatchFirst
  <2>3. mode = 4 /\ half # NoNibble => half' = NoNibble
    BY LatchSecond
  <2> QED
    BY <1>1, <1>5, <2>1, <2>2, <2>3 DEF Syncing
<1>6. CASE next = 2
  <2>1. mode = 8 => mode' = 8
    BY <1>3, <1>6, LatchIn8
  <2>2. mode = 4 /\ half = NoNibble => half' = High(Three)
    BY <1>3, <1>6, LatchFirst
  <2>3. mode = 4 /\ half # NoNibble => mode' = 8
    BY <1>3, <1>6, LatchThrees DEF Syncing
  <2> QED
    BY <1>1, <1>6, <2>1, <2>2, <2>3 DEF Syncing
<1>7. CASE next = 3
  <2>1. mode = 8 => mode' = 8
    BY <1>3, <1>7, LatchIn8
  <2>2. mode = 4 => mode' = 8
    BY <1>3, <1>7, LatchThrees DEF Syncing
  <2> QED
    BY <1>1, <1>7, <2>1, <2>2 DEF Syncing
<1>8. CASE next = 4
  <2>1. mode' = 4 /\ half' = NoNibble
    BY <1>1, <1>4, <1>8, LatchIn8 DEF Syncing
  <2> QED
    BY <1>8, <2>1 DEF Syncing, Aligned
<1> QED
  BY <1>5, <1>6, <1>7, <1>8

\* In 4 bit mode the two halves of a byte meet.
LEMMA HalvesMeet ==
  ASSUME Basic, Aligned, Sending, Latch(Nibble), Script(call)[next] \notin Single
  PROVE  /\ mode' = 4
         /\ part = "high" => half' = High(Script(call)[next]) /\ UNCHANGED <<ddram, address, settings>>
         /\ part = "low" => half' = NoNibble /\ Execute(Script(call)[next])
<1> DEFINE b == Script(call)[next]
<1>1. b \in Bytes \ Single /\ mode = 4 /\ part \in {"high", "low"}
  BY SendingTyped, TypeParts DEF Aligned, Basic, DriverTypes
<1>2. CASE part = "high"
  <2>1. Nibble = High(b) /\ half = NoNibble
    BY <1>2, NibbleIs DEF Aligned
  <2> QED
    BY <1>1, <1>2, <2>1, LatchFirst
<1>3. CASE part = "low"
  <2>1. Nibble = Low(b) /\ half = High(b)
    BY <1>3, NibbleIs DEF Aligned
  <2>2. half' = NoNibble /\ Execute(b)
    BY <1>1, <2>1, LatchPair
  <2>3. mode' = mode
    BY <1>1, <2>2, ExecuteTyped, TypeParts DEF Basic
  <2> QED
    BY <1>1, <1>3, <2>2, <2>3
<1> QED
  BY <1>1, <1>2, <1>3

LEMMA AlignedStep ==
  ASSUME Basic, Aligned, Sending, Latch(Nibble), UNCHANGED call,
         LET b == Script(call)[next] IN
         /\ b \notin Single
         /\ \/ part = "high" /\ part' = "low" /\ UNCHANGED next
            \/ part = "low" /\ part' = "high" /\ next' = next + 1
  PROVE  /\ Aligned'
         /\ part = "high" => UNCHANGED <<ddram, address, settings>>
         /\ part = "low" => Execute(Script(call)[next])
  BY HalvesMeet DEF Aligned

LEMMA SettingStep ==
  ASSUME next \in 5..9, Setting, next' = next + 1, Execute(InitScript[next])
  PROVE  Setting'
<1>1. CASE next = 5
  <2>1. settings' = settings \cup {"lines"}
    BY <1>1, InitScriptFacts, ExecuteCmd
  <2> QED
    BY <1>1, <2>1 DEF Setting
<1>2. CASE next = 6
  <2>1. settings' = settings \ {"on"}
    BY <1>2, InitScriptFacts, ExecuteCmd
  <2> QED
    BY <1>2, <2>1 DEF Setting
<1>3. CASE next = 7
  <2>1. ddram' = [a \in Addresses |-> Blank] /\ settings' = settings
    BY <1>3, InitScriptFacts, ExecuteCmd
  <2> QED
    BY <1>3, <2>1 DEF Setting
<1>4. CASE next = 8
  <2>1. settings' = settings \cup {"entry"} /\ ddram' = ddram
    BY <1>4, InitScriptFacts, ExecuteCmd
  <2> QED
    BY <1>4, <2>1 DEF Setting
<1>5. CASE next = 9
  <2>1. settings' = settings \cup {"on"} /\ ddram' = ddram
    BY <1>5, InitScriptFacts, ExecuteCmd
  <2> QED
    BY <1>5, <2>1 DEF Setting
<1> QED
  BY <1>1, <1>2, <1>3, <1>4, <1>5

LEMMA InitIsSent ==
  ASSUME call = InitCall
  PROVE  /\ Script(call) = InitScript /\ call # NoCall
         /\ Sending <=> next <= 9
<1>1. call \in Calls
  BY DEF Calls
<1>2. Script(call) = InitScript /\ call # NoCall
  BY <1>1, CallKinds, NoCallAssumption DEF Calls, InitCall, ClearCall, Script
<1> QED
  BY <1>2, InitScriptFacts DEF Sending

LEMMA DropStarting ==
  ASSUME Basic, Port, Starting, DropEnable, call = InitCall
  PROVE  Starting'
<1>1. Sending /\ phase = "low" /\ UNCHANGED <<call, wanted>> /\ SetPins(Nibble, FALSE)
      /\ Syncing /\ Setting /\ wanted = BlankScreen
  BY DEF DropEnable, ghostVars, Starting
<1>2. Latch(Nibble)
  BY <1>1, FallLatches
<1>3. Script(call) = InitScript /\ next \in 1..9 /\ Nibble.byte = InitScript[next]
  BY <1>1, InitIsSent, SendingTyped, InitScriptFacts
<1>4. \/ part = "high" /\ InitScript[next] \notin Single /\ part' = "low" /\ UNCHANGED next
      \/ (part = "low" \/ InitScript[next] \in Single) /\ part' = "high" /\ next' = next + 1
  BY <1>3, Zenon DEF DropEnable
<1>5. part = "low" => InitScript[next] \notin Single
  BY <1>3, Zenon DEF Basic, Control, Sending
<1>6. CASE next \in 1..4
  <2>1. InitScript[next] \in Single
    BY <1>6, InitScriptFacts, SingleFacts
  <2>2. part = "high" /\ part' = "high" /\ next' = next + 1
    BY <1>4, <1>5, <2>1, TypeParts DEF Basic, DriverTypes
  <2>3. Syncing'
    BY <1>1, <1>2, <1>6, <2>2, SyncStep
  <2>4. Setting'
    BY <1>6, <2>2 DEF Setting
  <2> QED
    BY <1>1, <2>3, <2>4 DEF Starting, BlankScreen
<1>7. CASE next \in 5..9
  <2>1. InitScript[next] \notin Single
    BY <1>7, InitScriptFacts, SingleFacts
  <2>2. Aligned
    BY <1>1, <1>7 DEF Syncing
  <2>3. \/ part = "high" /\ part' = "low" /\ UNCHANGED next
        \/ part = "low" /\ part' = "high" /\ next' = next + 1
    BY <1>4, <2>1
  <2>4. /\ Aligned'
        /\ part = "high" => UNCHANGED <<ddram, address, settings>>
        /\ part = "low" => Execute(InitScript[next])
    BY <1>1, <1>2, <1>3, <2>1, <2>2, <2>3, AlignedStep
  <2>5. Syncing'
    BY <1>7, <2>3, <2>4 DEF Syncing
  <2>6. Setting'
    <3>1. CASE part = "high"
      BY <1>1, <2>3, <2>4, <3>1 DEF Setting
    <3>2. CASE part = "low"
      BY <1>1, <1>7, <2>3, <2>4, <3>2, SettingStep
    <3> QED
      BY <2>3, <3>1, <3>2
  <2> QED
    BY <1>1, <2>5, <2>6 DEF Starting, BlankScreen
<1> QED
  BY <1>3, <1>6, <1>7

LEMMA StartingStep ==
  ASSUME Basic, Port, Starting, [Next]_vars
  PROVE  Starting'
<1>1. CASE \E c \in Calls : Call(c)
  <2>1. PICK c \in Calls : Call(c)
    BY <1>1
  <2>2. call' = c /\ next' = 1
    BY <2>1 DEF Call
  <2>3. c = InitCall => wanted' = BlankScreen
    BY <2>1 DEF Call, InitCall
  <2> QED
    BY <2>2, <2>3 DEF Starting, Syncing, Setting, BlankScreen
<1>2. CASE SetData \/ RaiseEnable
  <2>1. UNCHANGED <<call, next, part, wanted>>
    BY <1>2 DEF SetData, RaiseEnable, ghostVars
  <2>2. CASE next = 1
    BY <2>1, <2>2 DEF Starting, Syncing, Setting, BlankScreen
  <2>3. CASE next # 1
    <3>1. UNCHANGED <<mode, half, ddram, settings>>
      BY <1>2, <2>3, PulseQuiet DEF displayVars
    <3> QED
      BY <2>1, <3>1 DEF Starting, Syncing, Setting, Aligned, BlankScreen
  <2> QED
    BY <2>2, <2>3
<1>3. CASE DropEnable
  <2>1. CASE call = InitCall
    BY <1>3, <2>1, DropStarting
  <2>2. CASE call # InitCall
    BY <1>3, <2>2 DEF Starting, DropEnable
  <2> QED
    BY <2>1, <2>2
<1>4. CASE TransferFails \/ Return \/ Deinit \/ Reset
  <2>1. call' = NoCall
    BY <1>4, Zenon DEF TransferFails, Return, Deinit, Reset
  <2>2. call' # InitCall
    BY <2>1, NoCallAssumption DEF Calls
  <2> QED
    BY <2>2 DEF Starting
<1>5. CASE UNCHANGED vars
  <2>1. UNCHANGED <<call, next, part, wanted, mode, half, ddram, settings>>
    BY <1>5 DEF vars, driverVars, displayVars, ghostVars
  <2> QED
    BY <2>1 DEF Starting, Syncing, Setting, Aligned, BlankScreen
<1> QED
  BY <1>1, <1>2, <1>3, <1>4, <1>5, Zenon DEF Next

(* Printing *)

\* The cells of the call that are still to be written.
Done == IF next = 1 THEN 0 ELSE next - 2
Pending(cell) ==
  \/ call = ClearCall /\ next = 1
  \/ /\ call \in Writes /\ cell[1] = call.line
     /\ cell[2] \in call.col + Done..call.col + Len(Sent(call)) - 1

Placed ==
  call \in Writes =>
    /\ \A i \in 1..Len(Sent(call)) : wanted[<<call.line, call.col + i - 1>>] = Sent(call)[i]
    /\ next \in 2..Len(Sent(call)) + 1 => address = AddressOf(call.line, call.col + next - 2)

Filled ==
  /\ call = ClearCall => wanted = BlankScreen
  /\ \A cell \in Cells : Pending(cell) \/ Shown[cell] = wanted[cell]

Printing ==
  initialized /\ ~failed =>
    Aligned /\ settings = {"lines", "entry", "on"} /\ Placed /\ Filled

IInv == Basic /\ Port /\ Starting /\ Printing

LEMMA CellFacts ==
  ASSUME NEW cell \in Cells
  PROVE  /\ cell = <<cell[1], cell[2]>> /\ cell[1] \in Lines /\ cell[2] \in Cols
         /\ cell[2] \in 0..WIDTH - 1 /\ cell[2] \in Int
         /\ AddressOf(cell[1], cell[2]) \in Addresses
         /\ Shown[cell] = ddram[AddressOf(cell[1], cell[2])]
<1>1. cell = <<cell[1], cell[2]>> /\ cell[1] \in Lines /\ cell[2] \in Cols
  BY DEF Cells
<1>2. cell[2] \in 0..WIDTH - 1 /\ cell[2] \in Int
  BY <1>1, ConstantsAssumption DEF Cols
<1>3. AddressOf(cell[1], cell[2]) \in Addresses
  BY <1>1, <1>2 DEF Addresses
<1> QED
  BY <1>1, <1>2, <1>3 DEF Shown

LEMMA OtherCalls ==
  ASSUME Basic, initialized
  PROVE  call = NoCall \/ call = ClearCall \/ call \in Writes
<1>1. call \in Calls \cup {NoCall}
  BY TypeParts DEF Basic, DriverTypes
<1>2. call # InitCall
  <2>1. InitCall # NoCall
    BY NoCallAssumption DEF Calls
  <2> QED
    BY <2>1, Zenon DEF Basic, Control
<1> QED
  BY <1>1, <1>2 DEF Calls

LEMMA WriteIsSent ==
  ASSUME Basic, Sending, call \in Writes
  PROVE  /\ next \in 1..Len(Sent(call)) + 1 /\ Len(Sent(call)) \in Nat
         /\ Len(Script(call)) = Len(Sent(call)) + 1
         /\ next = 1 => Script(call)[next] = Byte("address", AddressOf(call.line, call.col))
         /\ next # 1 => /\ next - 1 \in 1..Len(Sent(call))
                        /\ Script(call)[next] = Byte("data", Sent(call)[next - 1])
<1>1. Script(call) = WriteScript(call)
  BY CallKinds, SentFacts DEF Calls, InitCall, ClearCall
<1>2. Len(Script(call)) = Len(Sent(call)) + 1 /\ Len(Sent(call)) \in Nat
  BY <1>1, WriteScriptFacts, SentFacts
<1>3. next \in 1..Len(Sent(call)) + 1
  BY <1>2, SendingTyped
<1>4. next = 1 => Script(call)[next] = Byte("address", AddressOf(call.line, call.col))
  BY <1>1, WriteScriptFacts
<1>5. ASSUME next # 1 PROVE next - 1 \in 1..Len(Sent(call)) /\ next \in 2..Len(Sent(call)) + 1
  BY <1>2, <1>3, <1>5
<1> QED
  BY <1>1, <1>2, <1>3, <1>4, <1>5, WriteScriptFacts

LEMMA ClearIsSent ==
  ASSUME Basic, Sending, call = ClearCall
  PROVE  next = 1 /\ Len(Script(call)) = 1 /\ Script(call)[next] = Cmd("clear")
<1>1. Script(call) = <<Cmd("clear")>>
  BY CallKinds DEF Calls, InitCall, ClearCall, Script
<1> QED
  BY <1>1, SendingTyped

LEMMA NotSingle ==
  ASSUME Basic, Sending, initialized
  PROVE  Script(call)[next] \notin Single
<1>1. call = ClearCall \/ call \in Writes
  BY OtherCalls DEF Sending
<1> QED
  BY <1>1, WriteIsSent, ClearIsSent, SingleFacts

\* What a complete byte of a write or of clear_screen() does to the cells.
LEMMA ByteEffect ==
  ASSUME Basic, Sending, initialized, ~failed, settings = {"lines", "entry", "on"}, Placed,
         Execute(Script(call)[next])
  PROVE  /\ settings' = settings
         /\ call = ClearCall => ddram' = [a \in Addresses |-> Blank]
         /\ call \in Writes /\ next = 1 => ddram' = ddram /\ address' = AddressOf(call.line, call.col)
         /\ call \in Writes /\ next # 1 =>
              /\ \A cell \in Cells :
                   Shown'[cell] = IF cell = <<call.line, call.col + next - 2>> THEN Sent(call)[next - 1]
                                  ELSE Shown[cell]
              /\ next <= Len(Sent(call)) => address' = AddressOf(call.line, call.col + next - 1)
<1>1. call = ClearCall \/ call \in Writes
  BY OtherCalls DEF Sending
<1>2. CASE call = ClearCall
  <2>1. settings' = settings /\ ddram' = [a \in Addresses |-> Blank]
    BY <1>2, ClearIsSent, ExecuteCmd
  <2>2. call \notin Writes
    BY <1>2, SentFacts DEF ClearCall
  <2> QED
    BY <2>1, <2>2
<1>3. CASE call \in Writes /\ next = 1
  <2>1. Script(call)[next].op = "address" /\ Script(call)[next].arg = AddressOf(call.line, call.col)
    BY <1>3, WriteIsSent DEF Byte
  <2>2. UNCHANGED <<ddram, settings>> /\ address' = AddressOf(call.line, call.col)
    BY <2>1 DEF Execute
  <2>3. call # ClearCall
    BY <1>3, SentFacts DEF ClearCall
  <2> QED
    BY <1>3, <2>2, <2>3
<1>4. CASE call \in Writes /\ next # 1
  <2> DEFINE ch == Sent(call)[next - 1]
             i == call.col + next - 2
  <2>1. next - 1 \in 1..Len(Sent(call)) /\ next \in 2..Len(Sent(call)) + 1 /\ Len(Sent(call)) \in Nat
        /\ call.line \in Lines /\ call.col \in Cols /\ call.col + Len(Sent(call)) <= COLUMNS
    BY <1>4, WriteIsSent, SentFacts
  <2>2. Script(call)[next].op = "data" /\ Script(call)[next].arg = ch
    BY <1>4, WriteIsSent DEF Byte
  <2>3. Store(ch)
    BY <2>2 DEF Execute
  <2>4. address = AddressOf(call.line, i)
    BY <1>4, <2>1 DEF Placed
  <2>5. i \in Cols /\ i \in 0..WIDTH - 1 /\ (next <= Len(Sent(call)) => i + 1 < WIDTH /\ i + 1 = call.col + next - 1)
    BY <2>1, ConstantsAssumption DEF Cols
  <2>6. address \in Addresses
    BY <2>1, <2>4, <2>5 DEF Addresses
  <2>7. UNCHANGED settings /\ ddram' = [ddram EXCEPT ![address] = ch] /\ address' = Following(address)
    BY <2>3, <2>6 DEF Store
  <2>8. next <= Len(Sent(call)) => address' = AddressOf(call.line, call.col + next - 1)
    BY <2>1, <2>4, <2>5, <2>7, FollowingFacts
  <2>9. ASSUME NEW cell \in Cells
        PROVE  Shown'[cell] = IF cell = <<call.line, i>> THEN ch ELSE Shown[cell]
    <3> DEFINE a == AddressOf(cell[1], cell[2])
    <3>1. a \in Addresses /\ Shown[cell] = ddram[a] /\ Shown'[cell] = ddram'[a]
      <4>1. Shown'[cell] = ddram'[a]
        BY DEF Shown
      <4> QED
        BY <4>1, CellFacts
    <3>2. a = address => cell = <<call.line, i>>
      BY <2>1, <2>4, <2>5, CellFacts, OnePlace
    <3>3. cell = <<call.line, i>> => a = address
      BY <2>4
    <3>4. ddram \in [Addresses -> Chars \cup {Unknown}]
      BY TypeParts DEF Basic, DisplayTypes
    <3> HIDE DEF a
    <3>5. ddram'[a] = IF a = address THEN ch ELSE ddram[a]
      BY <2>7, <3>1, <3>4
    <3> QED
      BY <3>1, <3>2, <3>3, <3>5
  <2>10. call # ClearCall
    BY <1>4, SentFacts DEF ClearCall
  <2> QED
    BY <1>4, <2>7, <2>8, <2>9, <2>10
<1> QED
  BY <1>1, <1>2, <1>3, <1>4

LEMMA CallPrinting ==
  ASSUME IInv, NEW c \in Calls, Call(c)
  PROVE  Printing'
<1> SUFFICES ASSUME initialized', ~failed'
             PROVE  Aligned' /\ (settings = {"lines", "entry", "on"})' /\ Placed' /\ Filled'
  BY Zenon DEF Printing
<1>1. call = NoCall /\ call' = c /\ next' = 1 /\ part' = "high" /\ UNCHANGED <<mode, half, ddram, settings>>
  BY DEF Call, displayVars
<1>2. initialized /\ ~failed /\ c # InitCall
  <2>1. initialized' = initialized /\ (failed' = (failed /\ c # InitCall)) /\ (initialized <=> c # InitCall)
    BY Zenon DEF Call
  <2> QED
    BY <2>1, Zenon
<1>3. Aligned /\ settings = {"lines", "entry", "on"} /\ Filled /\ part = "high"
  BY <1>1, <1>2, Zenon DEF IInv, Printing, Basic, Control
<1>4. Aligned'
  BY <1>1, <1>3 DEF Aligned
<1>5. \A cell \in Cells : Shown[cell] = wanted[cell] /\ Shown'[cell] = Shown[cell]
  <2>1. NoCall # ClearCall /\ NoCall \notin Writes
    BY NoCallAssumption DEF Calls
  <2>2. Shown' = Shown
    BY <1>1 DEF Shown
  <2> QED
    BY <1>1, <1>3, <2>1, <2>2 DEF Filled, Pending
<1>6. CASE c = ClearCall
  <2>1. c.op # "write" /\ c \notin Writes
    BY <1>6, SentFacts DEF ClearCall
  <2>2. wanted' = BlankScreen
    BY <2>1 DEF Call
  <2> QED
    BY <1>1, <1>3, <1>4, <1>6, <2>1, <2>2 DEF Placed, Filled, Pending, BlankScreen
<1>7. CASE c \in Writes
  <2>1. c # ClearCall /\ c.op = "write"
    BY <1>7, SentFacts DEF ClearCall
  <2>2. wanted' = [cell \in Cells |-> Asked(c, cell)]
    BY <2>1 DEF Call
  <2>3. /\ c.line \in Lines /\ c.col \in Nat /\ Len(Sent(c)) \in Nat /\ Len(c.text) \in Nat
        /\ c.col + Len(Sent(c)) <= COLUMNS /\ COLUMNS \in Nat /\ Len(c.text) <= Len(Sent(c))
        /\ (c.pad => c.col + Len(Sent(c)) = COLUMNS) /\ (~c.pad => Len(Sent(c)) = Len(c.text))
    BY <1>7, SentFacts, ConstantsAssumption DEF Cols
  <2>4. ASSUME NEW i \in 1..Len(Sent(c)) PROVE wanted'[<<c.line, c.col + i - 1>>] = Sent(c)[i]
    <3> DEFINE cell == <<c.line, c.col + i - 1>>
    <3>1. cell \in Cells /\ cell[1] = c.line /\ cell[2] - c.col + 1 = i
      BY <2>3 DEF Cells, Cols
    <3>2. wanted'[cell] = Asked(c, cell)
      BY <2>2, <3>1
    <3>3. Sent(c)[i] = IF i <= Len(c.text) THEN c.text[i] ELSE Blank
      BY <1>7, SentFacts
    <3>4. CASE i <= Len(c.text)
      <4>1. i \in 1..Len(c.text)
        BY <2>3, <3>4
      <4>2. Asked(c, cell) = c.text[i]
        BY <3>1, <4>1 DEF Asked
      <4> QED
        BY <3>2, <3>3, <3>4, <4>2
    <3>5. CASE ~(i <= Len(c.text))
      <4>1. i \notin 1..Len(c.text) /\ i > Len(c.text) /\ c.pad
        BY <2>3, <3>5
      <4>2. Asked(c, cell) = Blank
        BY <3>1, <4>1 DEF Asked
      <4> QED
        BY <3>2, <3>3, <3>5, <4>2
    <3> QED
      BY <3>4, <3>5
  <2>5. Placed'
    <3>1. next' \notin 2..Len(Sent(c)) + 1
      BY <1>1
    <3> QED
      BY <1>1, <2>4, <3>1 DEF Placed
  <2>6. ASSUME NEW cell \in Cells,
               ~(cell[1] = c.line /\ cell[2] \in c.col..c.col + Len(Sent(c)) - 1)
        PROVE  Shown'[cell] = wanted'[cell]
    <3> DEFINE i == cell[2] - c.col + 1
    <3>1. wanted'[cell] = Asked(c, cell)
      BY <2>2
    <3>2. cell[2] \in Nat /\ cell[2] <= COLUMNS - 1
      BY <2>3, CellFacts DEF Cols
    <3>3. cell[1] = c.line => i \notin 1..Len(c.text) /\ ~(i > Len(c.text) /\ c.pad)
      BY <2>3, <2>6, <3>2
    <3>4. Asked(c, cell) = wanted[cell]
      BY <3>3 DEF Asked
    <3> QED
      BY <1>5, <3>1, <3>4
  <2>7. Filled'
    <3>1. Done' = 0
      BY <1>1 DEF Done
    <3>2. ASSUME NEW cell \in Cells PROVE Pending(cell)' \/ Shown'[cell] = wanted'[cell]
      <4>1. CASE cell[1] = c.line /\ cell[2] \in c.col..c.col + Len(Sent(c)) - 1
        <5>1. c.col + Done' = c.col
          BY <2>3, <3>1
        <5> QED
          BY <1>1, <1>7, <4>1, <5>1 DEF Pending
      <4>2. CASE ~(cell[1] = c.line /\ cell[2] \in c.col..c.col + Len(Sent(c)) - 1)
        BY <2>6, <4>2
      <4> QED
        BY <4>1, <4>2
    <3> QED
      BY <1>1, <2>1, <3>2 DEF Filled
  <2> QED
    BY <1>1, <1>3, <1>4, <2>5, <2>7
<1> QED
  BY <1>2, <1>6, <1>7 DEF Calls

\* The driver's side of Printing depends on these variables only.
LEMMA PrintingFrame ==
  ASSUME Printing, UNCHANGED <<initialized, failed, call, next, part, wanted, displayVars>>
  PROVE  Printing'
<1>1. UNCHANGED <<mode, half, ddram, address, settings>> /\ UNCHANGED <<initialized, failed>>
      /\ UNCHANGED <<call, next, part, wanted>>
  BY DEF displayVars
<1>2. Aligned => Aligned'
  BY <1>1 DEF Aligned
<1>3. Placed => Placed'
  BY <1>1 DEF Placed
<1>4. Filled => Filled'
  BY <1>1, Zenon DEF Filled, Pending, Done, Shown
<1>5. settings' = settings /\ initialized' = initialized /\ failed' = failed
  BY <1>1
<1>6. ASSUME initialized', ~failed'
      PROVE  Aligned' /\ settings' = {"lines", "entry", "on"} /\ Placed' /\ Filled'
  <2>1. initialized /\ ~failed
    BY <1>5, <1>6
  <2>2. Aligned /\ settings = {"lines", "entry", "on"} /\ Placed /\ Filled
    BY <2>1 DEF Printing
  <2> QED
    BY <1>2, <1>3, <1>4, <1>5, <2>2
<1> QED
  BY <1>6 DEF Printing

LEMMA DropPrinting ==
  ASSUME IInv, DropEnable, initialized, ~failed
  PROVE  Printing'
<1>1. /\ Sending /\ phase = "low" /\ UNCHANGED <<call, wanted>> /\ SetPins(Nibble, FALSE)
      /\ Basic /\ Port /\ Aligned /\ settings = {"lines", "entry", "on"} /\ Placed /\ Filled
  BY DEF DropEnable, ghostVars, IInv, Printing
<1>2. Latch(Nibble)
  BY <1>1, FallLatches
<1>3. Script(call)[next] \notin Single
  BY <1>1, NotSingle
<1>4. \/ part = "high" /\ part' = "low" /\ UNCHANGED next
      \/ part = "low" /\ part' = "high" /\ next' = next + 1
  <2>1. Nibble.byte = Script(call)[next]
    BY <1>1, SendingTyped
  <2>2. \/ part = "high" /\ Nibble.byte \notin Single /\ part' = "low" /\ UNCHANGED next
        \/ (part = "low" \/ Nibble.byte \in Single) /\ part' = "high" /\ next' = next + 1
    BY DEF DropEnable
  <2> QED
    BY <1>3, <2>1, <2>2
<1>5. /\ Aligned'
      /\ part = "high" => UNCHANGED <<ddram, address, settings>>
      /\ part = "low" => Execute(Script(call)[next])
  BY <1>1, <1>2, <1>3, <1>4, AlignedStep
<1>6. CASE part = "high"
  <2>1. UNCHANGED <<call, next, wanted, ddram, address, settings>>
    BY <1>1, <1>4, <1>5, <1>6
  <2>2. Placed'
    BY <1>1, <2>1 DEF Placed
  <2>3. Filled'
    BY <1>1, <2>1, Zenon DEF Filled, Pending, Done, Shown
  <2> QED
    BY <1>1, <1>5, <2>1, <2>2, <2>3, Zenon DEF Printing
<1>7. CASE part = "low"
  <2>1. Execute(Script(call)[next]) /\ next' = next + 1
    BY <1>4, <1>5, <1>7
  <2>2. /\ settings' = settings
        /\ call = ClearCall => ddram' = [a \in Addresses |-> Blank]
        /\ call \in Writes /\ next = 1 => ddram' = ddram /\ address' = AddressOf(call.line, call.col)
        /\ call \in Writes /\ next # 1 =>
             /\ \A cell \in Cells :
                  Shown'[cell] = IF cell = <<call.line, call.col + next - 2>> THEN Sent(call)[next - 1]
                                 ELSE Shown[cell]
             /\ next <= Len(Sent(call)) => address' = AddressOf(call.line, call.col + next - 1)
    BY <1>1, <2>1, ByteEffect
  <2>3. CASE call = ClearCall
    <3>1. call \notin Writes /\ wanted' = BlankScreen
      BY <1>1, <2>3, SentFacts DEF ClearCall, Filled
    <3>2. \A cell \in Cells : Shown'[cell] = Blank
      BY <2>2, <2>3, CellFacts DEF Shown
    <3> QED
      BY <1>1, <1>5, <2>2, <3>1, <3>2 DEF Printing, Placed, Filled, BlankScreen
  <2>4. CASE call \in Writes
    <3>1. /\ next \in 1..Len(Sent(call)) + 1 /\ Len(Sent(call)) \in Nat /\ call.col \in Nat
          /\ next # 1 => next - 1 \in 1..Len(Sent(call))
      BY <1>1, <2>4, WriteIsSent, SentFacts DEF Cols
    <3>2. call # ClearCall
      BY <2>4, SentFacts DEF ClearCall
    <3>3. CASE next = 1
      <4>1. Done = 0 /\ Done' = 0 /\ next' = 2 /\ call.col + next' - 2 = call.col
        BY <2>1, <3>1, <3>3 DEF Done
      <4>2. ddram' = ddram /\ address' = AddressOf(call.line, call.col)
        BY <2>2, <2>4, <3>3
      <4>3. Placed'
        BY <1>1, <4>1, <4>2 DEF Placed
      <4>4. Filled'
        BY <1>1, <3>2, <4>1, <4>2, Zenon DEF Filled, Pending, Shown
      <4> QED
        BY <1>1, <1>5, <2>2, <4>3, <4>4, Zenon DEF Printing
    <3>4. CASE next # 1
      <4>1. Done = next - 2 /\ Done' = next - 1 /\ next' - 2 = next - 1
        BY <2>1, <3>1, <3>4 DEF Done
      <4>2. Placed'
        <5>1. \A i \in 1..Len(Sent(call)) : wanted'[<<call.line, call.col + i - 1>>] = Sent(call)[i]
          BY <1>1, <2>4 DEF Placed
        <5>2. ASSUME next' \in 2..Len(Sent(call)) + 1
              PROVE  address' = AddressOf(call.line, call.col + next' - 2)
          <6>1. next <= Len(Sent(call)) /\ call.col + next' - 2 = call.col + next - 1
            BY <2>1, <3>1, <5>2
          <6> QED
            BY <2>2, <2>4, <3>4, <6>1
        <5> QED
          BY <1>1, <5>1, <5>2 DEF Placed
      <4>3. ASSUME NEW cell \in Cells PROVE Pending(cell)' \/ Shown'[cell] = wanted'[cell]
        <5>1. CASE cell = <<call.line, call.col + next - 2>>
          <6>1. next - 1 \in 1..Len(Sent(call)) /\ call.col + next - 2 = call.col + (next - 1) - 1
            BY <3>1, <3>4
          <6>2. wanted[<<call.line, call.col + (next - 1) - 1>>] = Sent(call)[next - 1]
            BY <1>1, <2>4, <6>1 DEF Placed
          <6>3. wanted'[cell] = Sent(call)[next - 1]
            BY <1>1, <5>1, <6>1, <6>2
          <6> QED
            BY <2>2, <2>4, <3>4, <5>1, <6>3
        <5>2. CASE cell # <<call.line, call.col + next - 2>>
          <6>1. Shown'[cell] = Shown[cell]
            BY <2>2, <2>4, <3>4, <5>2
          <6>2. ASSUME Pending(cell) PROVE Pending(cell)'
            <7>1. cell[1] = call.line /\ cell[2] \in call.col + (next - 2)..call.col + Len(Sent(call)) - 1
              BY <3>2, <4>1, <6>2 DEF Pending
            <7>2. cell[2] \in Int /\ cell = <<cell[1], cell[2]>>
              BY CellFacts
            <7>3. cell[2] # call.col + next - 2
              BY <5>2, <7>1, <7>2
            <7>4. cell[2] \in call.col + (next - 1)..call.col + Len(Sent(call)) - 1
              BY <3>1, <7>1, <7>2, <7>3
            <7> QED
              BY <1>1, <2>4, <4>1, <7>1, <7>4 DEF Pending
          <6> QED
            BY <1>1, <6>1, <6>2 DEF Filled
        <5> QED
          BY <5>1, <5>2
      <4>4. Filled'
        BY <1>1, <3>2, <4>3 DEF Filled
      <4> QED
        BY <1>1, <1>5, <2>2, <4>2, <4>4, Zenon DEF Printing
    <3> QED
      BY <3>3, <3>4
  <2> QED
    BY <1>1, <2>3, <2>4, OtherCalls DEF Sending
<1> QED
  BY <1>4, <1>6, <1>7

LEMMA ReturnPrinting ==
  ASSUME IInv, Return
  PROVE  Printing'
<1> SUFFICES ASSUME ~failed'
             PROVE  Aligned' /\ (settings = {"lines", "entry", "on"})' /\ Placed' /\ Filled'
  BY Zenon DEF Printing
<1>1. /\ call # NoCall /\ ~Sending /\ call' = NoCall /\ next' = 1 /\ UNCHANGED part /\ ~failed
      /\ UNCHANGED <<wanted, mode, half, ddram, address, settings>>
  BY DEF Return, displayVars, ghostVars
<1>2. Basic /\ Starting /\ Printing /\ Control /\ part \in {"high", "low"}
  BY TypeParts DEF IInv, Basic, DriverTypes
<1>3. part = "high"
  BY <1>1, <1>2 DEF Control
<1>4. call \in Calls /\ (initialized <=> call # InitCall)
  BY <1>1, <1>2, TypeParts, Zenon DEF Control, Basic, DriverTypes
<1>5. Aligned /\ settings = {"lines", "entry", "on"} /\ \A cell \in Cells : Shown[cell] = wanted[cell]
  <2>1. CASE call = InitCall
    <3>1. next >= 10
      <4>1. ~(next <= 9) /\ next \in Nat
        BY <1>1, <1>2, <2>1, InitIsSent, TypeParts DEF Basic, DriverTypes
      <4> QED
        BY <4>1
    <3>2. next >= 5 /\ next >= 6 /\ next >= 8 /\ next >= 9
      <4>1. next \in Nat
        BY <1>2, TypeParts DEF Basic, DriverTypes
      <4> QED
        BY <3>1, <4>1
    <3>3. Aligned /\ Setting /\ wanted = BlankScreen
      BY <1>2, <2>1, <3>2 DEF Starting, Syncing
    <3>4. "lines" \in settings /\ "entry" \in settings /\ "on" \in settings /\ ddram = [a \in Addresses |-> Blank]
      BY <3>1, <3>2, <3>3 DEF Setting
    <3>5. settings \subseteq {"lines", "entry", "on"}
      BY <1>2, TypeParts DEF Basic, DisplayTypes
    <3>6. \A cell \in Cells : Shown[cell] = Blank
      BY <3>4, CellFacts
    <3> QED
      BY <3>3, <3>4, <3>5, <3>6 DEF BlankScreen
  <2>2. CASE call # InitCall
    <3>1. Aligned /\ settings = {"lines", "entry", "on"} /\ Filled
      BY <1>1, <1>2, <1>4, <2>2, Zenon DEF Printing
    <3>2. \A cell \in Cells : ~Pending(cell)
      <4>1. CASE call = ClearCall
        <5>1. Script(call) = <<Cmd("clear")>> /\ call \notin Writes
          BY <1>4, <4>1, CallKinds, SentFacts DEF InitCall, ClearCall
        <5>2. next # 1
          BY <1>1, <5>1 DEF Sending
        <5> QED
          BY <5>1, <5>2 DEF Pending
      <4>2. CASE call \in Writes
        <5>1. Script(call) = WriteScript(call) /\ call # ClearCall
          BY <1>4, <4>2, CallKinds, SentFacts DEF InitCall, ClearCall
        <5>2. Len(Script(call)) = Len(Sent(call)) + 1 /\ Len(Sent(call)) \in Nat /\ call.col \in Nat
          BY <4>2, <5>1, WriteScriptFacts, SentFacts DEF Cols
        <5>3. next \in 1..Len(Script(call)) + 1 /\ ~(next <= Len(Script(call)))
          BY <1>1, <1>2 DEF Control, Sending
        <5>4. Done = Len(Sent(call))
          BY <5>2, <5>3 DEF Done
        <5>5. call.col + Done..call.col + Len(Sent(call)) - 1 = {}
          BY <5>2, <5>4
        <5> QED
          BY <5>1, <5>5 DEF Pending
      <4> QED
        BY <1>4, <2>2, <4>1, <4>2 DEF Calls
    <3> QED
      BY <3>1, <3>2 DEF Filled
  <2> QED
    BY <2>1, <2>2
<1>6. Aligned'
  BY <1>1, <1>3, <1>5 DEF Aligned
<1>7. NoCall # ClearCall /\ NoCall \notin Writes
  BY NoCallAssumption DEF Calls
<1>8. Shown' = Shown
  BY <1>1 DEF Shown
<1>9. Placed' /\ Filled'
  BY <1>1, <1>5, <1>7, <1>8 DEF Placed, Filled
<1> QED
  BY <1>1, <1>5, <1>6, <1>9

LEMMA PrintingStep ==
  ASSUME IInv, [Next]_vars
  PROVE  Printing'
<1>1. CASE \E c \in Calls : Call(c)
  BY <1>1, CallPrinting
<1>2. CASE SetData \/ RaiseEnable
  <2>1. UNCHANGED <<initialized, failed, call, next, part, wanted>>
    BY <1>2 DEF SetData, RaiseEnable, ghostVars
  <2>2. CASE initialized /\ ~failed
    <3>1. UNCHANGED displayVars
      BY <1>2, <2>2, PulseQuiet DEF IInv
    <3> QED
      BY <2>1, <3>1, PrintingFrame DEF IInv
  <2>3. CASE ~(initialized /\ ~failed)
    BY <2>1, <2>3, Zenon DEF Printing
  <2> QED
    BY <2>2, <2>3
<1>3. CASE DropEnable
  <2>1. UNCHANGED <<initialized, failed>>
    BY <1>3 DEF DropEnable, ghostVars
  <2>2. CASE ~(initialized /\ ~failed)
    BY <2>1, <2>2, Zenon DEF Printing
  <2> QED
    BY <1>3, <2>2, DropPrinting
<1>4. CASE TransferFails
  BY <1>4, Zenon DEF TransferFails, Printing
<1>5. CASE Return
  BY <1>5, ReturnPrinting
<1>6. CASE Deinit \/ Reset
  BY <1>6, Zenon DEF Deinit, Reset, Printing
<1>7. CASE UNCHANGED vars
  <2>1. UNCHANGED <<initialized, failed, call, next, part, wanted, displayVars>>
    BY <1>7 DEF vars, driverVars, ghostVars
  <2> QED
    BY <2>1, PrintingFrame DEF IInv
<1> QED
  BY <1>1, <1>2, <1>3, <1>4, <1>5, <1>6, <1>7, Zenon DEF Next

LEMMA InitInvariant == Init => IInv
<1> SUFFICES ASSUME Init PROVE IInv
  OBVIOUS
<1>1. call # InitCall /\ initialized = FALSE
  BY NoCallAssumption DEF Init, Calls
<1> QED
  BY <1>1, InitBasic, InitPort, Zenon DEF IInv, Starting, Printing

LEMMA InvariantStep == IInv /\ [Next]_vars => IInv'
<1> SUFFICES ASSUME IInv, [Next]_vars PROVE IInv'
  OBVIOUS
<1>1. Basic /\ Port /\ Starting
  BY DEF IInv
<1> QED
  BY <1>1, BasicStep, PortStep, StartingStep, PrintingStep, Zenon DEF IInv

LEMMA InvariantHolds == IInv => InStep
<1> SUFFICES ASSUME IInv, initialized, ~failed
             PROVE  /\ mode = 4 /\ settings = {"lines", "entry", "on"}
                    /\ call = NoCall => half = NoNibble /\ ~en
  BY DEF InStep
<1>1. Aligned /\ settings = {"lines", "entry", "on"} /\ Port /\ Control
  BY Zenon DEF IInv, Printing, Basic
<1>2. call = NoCall => part = "high" /\ phase = "data"
  BY <1>1 DEF Control
<1>3. call = NoCall => ~en
  BY <1>1, <1>2, Zenon DEF Port
<1> QED
  BY <1>1, <1>2, <1>3 DEF Aligned

\* Whatever state the display and the port were left in, it is in 4 bit mode, set
\* up and between two bytes after init() and stays so until a call returns an error.
THEOREM StaysInStep == Spec => []InStep
<1> QED
  BY InitInvariant, InvariantStep, InvariantHolds, PTL DEF Spec

(* The driver and the display implement a screen. *)

LEMMA ShownTyped ==
  ASSUME Basic
  PROVE  Shown \in AScreen!Texts /\ wanted \in AScreen!Texts
<1>1. ddram \in [Addresses -> Chars \cup {Unknown}] /\ wanted \in [Cells -> Chars \cup {Unknown}]
  BY TypeParts DEF Basic, DisplayTypes, GhostTypes
<1>2. \A cell \in Cells : AddressOf(cell[1], cell[2]) \in Addresses
  BY CellFacts
<1> QED
  BY <1>1, <1>2 DEF Shown, AScreen!Texts

LEMMA ShownTypedNext ==
  ASSUME Basic'
  PROVE  Shown' \in AScreen!Texts /\ wanted' \in AScreen!Texts
<1>1. ddram' \in [Addresses -> Chars \cup {Unknown}] /\ wanted' \in [Cells -> Chars \cup {Unknown}]
  BY TypePartsNext DEF Basic, DisplayTypes, GhostTypes
<1>2. \A cell \in Cells : AddressOf(cell[1], cell[2]) \in Addresses
  BY CellFacts
<1> QED
  BY <1>1, <1>2 DEF Shown, AScreen!Texts

\* No transfer of a call changes a cell but to what is wanted.
LEMMA TransferRedraws ==
  ASSUME IInv, initialized, ~failed, Sending, SetPins(Nibble, phase = "high")
  PROVE  \A cell \in Cells : Shown'[cell] \in {Shown[cell], wanted[cell]}
<1>1. Basic /\ Port /\ Aligned /\ settings = {"lines", "entry", "on"} /\ Placed /\ Filled
  BY DEF IInv, Printing
<1>2. CASE UNCHANGED displayVars
  BY <1>2 DEF displayVars, Shown
<1>3. CASE phase = "low"
  <2>1. SetPins(Nibble, FALSE)
    BY <1>3
  <2>2. Latch(Nibble) /\ Script(call)[next] \notin Single
    BY <1>1, <1>3, <2>1, FallLatches, NotSingle
  <2>3. CASE part = "high"
    <3>1. ddram' = ddram
      BY <1>1, <2>2, <2>3, HalvesMeet
    <3> QED
      BY <3>1 DEF Shown
  <2>4. CASE part = "low"
    <3>1. Execute(Script(call)[next])
      BY <1>1, <2>2, <2>4, HalvesMeet
    <3>2. /\ call = ClearCall => ddram' = [a \in Addresses |-> Blank]
          /\ call \in Writes /\ next = 1 => ddram' = ddram
          /\ call \in Writes /\ next # 1 =>
               \A cell \in Cells :
                 Shown'[cell] = IF cell = <<call.line, call.col + next - 2>> THEN Sent(call)[next - 1]
                                ELSE Shown[cell]
      BY <1>1, <3>1, ByteEffect
    <3>3. CASE call = ClearCall
      <4>1. \A cell \in Cells : Shown'[cell] = Blank
        BY <3>2, <3>3, CellFacts DEF Shown
      <4> QED
        BY <1>1, <3>3, <4>1 DEF Filled, BlankScreen
    <3>4. CASE call \in Writes /\ next = 1
      BY <3>2, <3>4 DEF Shown
    <3>5. CASE call \in Writes /\ next # 1
      <4>1. next - 1 \in 1..Len(Sent(call)) /\ call.col + next - 2 = call.col + (next - 1) - 1
        BY <1>1, <3>5, WriteIsSent, SentFacts DEF Cols
      <4>2. wanted[<<call.line, call.col + next - 2>>] = Sent(call)[next - 1]
        BY <1>1, <3>5, <4>1 DEF Placed
      <4> QED
        BY <3>2, <3>5, <4>2
    <3> QED
      BY <1>1, <3>3, <3>4, <3>5, OtherCalls DEF Sending
  <2> QED
    BY <1>1, <2>3, <2>4, TypeParts DEF Basic, DriverTypes
<1>4. CASE phase = "data"
  <2>1. ~en /\ SetPins(Nibble, FALSE)
    BY <1>1, <1>4 DEF Port
  <2>2. UNCHANGED displayVars
    BY <2>1, Zenon DEF SetPins
  <2> QED
    BY <1>2, <2>2
<1>5. CASE phase = "high"
  <2>1. SetPins(Nibble, TRUE)
    BY <1>5
  <2>2. UNCHANGED displayVars
    BY <2>1, Zenon DEF SetPins
  <2> QED
    BY <1>2, <2>2
<1> QED
  BY <1>1, <1>3, <1>4, <1>5, TypeParts DEF Basic, DriverTypes

LEMMA StateFacts ==
  /\ State \in {"off", "broken", "ready", "busy"}
  /\ State = "off" <=> ~initialized
  /\ State = "broken" <=> initialized /\ failed
  /\ State = "ready" <=> initialized /\ ~failed /\ call = NoCall
  /\ State = "busy" <=> initialized /\ ~failed /\ call # NoCall
  BY DEF State

LEMMA StateFactsNext ==
  /\ State' \in {"off", "broken", "ready", "busy"}
  /\ State' = "off" <=> ~initialized'
  /\ State' = "broken" <=> initialized' /\ failed'
  /\ State' = "ready" <=> initialized' /\ ~failed' /\ call' = NoCall
  /\ State' = "busy" <=> initialized' /\ ~failed' /\ call' # NoCall
  BY DEF State

ScreenStep == AScreen!Next \/ UNCHANGED <<Shown, wanted, State>>

LEMMA FlickerStep ==
  ASSUME Basic', State \in {"off", "broken"}, State' = State
  PROVE  ScreenStep
  BY ShownTypedNext DEF ScreenStep, AScreen!Next, AScreen!Flicker

LEMMA CloseStep ==
  ASSUME Basic', State' = "off"
  PROVE  ScreenStep
<1>1. CASE State = "off"
  BY <1>1, FlickerStep
<1>2. CASE State # "off"
  BY <1>2, ShownTypedNext DEF ScreenStep, AScreen!Next, AScreen!Close
<1> QED
  BY <1>1, <1>2

LEMMA CallScreen ==
  ASSUME Basic', NEW c \in Calls, Call(c)
  PROVE  ScreenStep
<1>1. call = NoCall /\ call' = c /\ c # NoCall /\ UNCHANGED <<initialized, ddram>>
  BY CallKinds DEF Call, displayVars
<1>2. (failed' = (failed /\ c # InitCall)) /\ (initialized <=> c # InitCall)
  BY Zenon DEF Call
<1>3. CASE initialized /\ ~failed
  <2>1. State = "ready" /\ State' = "busy"
    BY <1>1, <1>2, <1>3, StateFacts, StateFactsNext, Zenon
  <2>2. Shown' = Shown
    BY <1>1 DEF Shown
  <2> QED
    BY <2>1, <2>2, ShownTypedNext DEF ScreenStep, AScreen!Next, AScreen!Begin
<1>4. CASE ~(initialized /\ ~failed)
  <2>1. State \in {"off", "broken"} /\ State' = State
    <3>1. CASE initialized
      <4>1. failed /\ c # InitCall
        BY <1>2, <1>4, <3>1, Zenon
      <4>2. initialized' /\ failed'
        BY <1>1, <1>2, <3>1, <4>1, Zenon
      <4> QED
        BY <3>1, <4>1, <4>2, StateFacts, StateFactsNext
    <3>2. CASE ~initialized
      <4>1. ~initialized'
        BY <1>1, <3>2
      <4> QED
        BY <3>2, <4>1, StateFacts, StateFactsNext
    <3> QED
      BY <3>1, <3>2
  <2> QED
    BY <2>1, FlickerStep
<1> QED
  BY <1>3, <1>4

LEMMA TransferScreen ==
  ASSUME IInv, Basic', SetData \/ RaiseEnable \/ DropEnable
  PROVE  ScreenStep
<1>1. Sending /\ UNCHANGED <<initialized, call, failed, wanted>>
  BY DEF SetData, RaiseEnable, DropEnable, ghostVars
<1>2. SetPins(Nibble, phase = "high")
  <2>1. CASE SetData
    <3>1. SetPins(Nibble, FALSE) /\ (phase = "high") = FALSE
      BY <2>1 DEF SetData
    <3> QED
      BY <3>1
  <2>2. CASE RaiseEnable
    <3>1. SetPins(Nibble, TRUE) /\ (phase = "high") = TRUE
      BY <2>2 DEF RaiseEnable
    <3> QED
      BY <3>1
  <2>3. CASE DropEnable
    <3>1. SetPins(Nibble, FALSE) /\ (phase = "high") = FALSE
      BY <2>3 DEF DropEnable
    <3> QED
      BY <3>1
  <2> QED
    BY <2>1, <2>2, <2>3
<1>3. State' = State
  BY <1>1 DEF State
<1>4. CASE initialized /\ ~failed
  <2>1. State = "busy"
    BY <1>1, <1>4, StateFacts DEF Sending
  <2>2. \A cell \in Cells : Shown'[cell] \in {Shown[cell], wanted[cell]}
    BY <1>1, <1>2, <1>4, TransferRedraws
  <2> QED
    BY <1>1, <1>3, <2>1, <2>2, ShownTypedNext DEF ScreenStep, AScreen!Next, AScreen!Draw, AScreen!Redraw
<1>5. CASE ~(initialized /\ ~failed)
  <2>1. State \in {"off", "broken"}
    BY <1>5, StateFacts
  <2> QED
    BY <1>3, <2>1, FlickerStep
<1> QED
  BY <1>4, <1>5

LEMMA FailScreen ==
  ASSUME IInv, Basic', TransferFails
  PROVE  ScreenStep
<1>1. Sending /\ UNCHANGED <<initialized, wanted>> /\ failed' = TRUE
  BY DEF TransferFails
<1>2. CASE initialized /\ ~failed
  <2>1. State = "busy" /\ State' = "broken"
    BY <1>1, <1>2, StateFacts, StateFactsNext DEF Sending
  <2>2. \A cell \in Cells : Shown'[cell] \in {Shown[cell], wanted[cell]}
    <3>1. CASE SetPins(Nibble, phase = "high")
      BY <1>1, <1>2, <3>1, TransferRedraws
    <3>2. CASE UNCHANGED <<portVars, displayVars>>
      BY <3>2 DEF displayVars, Shown
    <3> QED
      BY <3>1, <3>2 DEF TransferFails
  <2> QED
    BY <1>1, <2>1, <2>2, ShownTypedNext DEF ScreenStep, AScreen!Next, AScreen!Break, AScreen!Redraw
<1>3. CASE ~(initialized /\ ~failed)
  <2>1. State \in {"off", "broken"} /\ State' = State
    BY <1>1, <1>3, StateFacts, StateFactsNext
  <2> QED
    BY <2>1, FlickerStep
<1> QED
  BY <1>2, <1>3

LEMMA ReturnScreen ==
  ASSUME IInv, IInv', Return
  PROVE  ScreenStep
<1>1. call # NoCall /\ call' = NoCall /\ initialized' = TRUE /\ UNCHANGED <<failed, wanted, ddram>>
  BY DEF Return, ghostVars, displayVars
<1>2. Shown' = Shown /\ Basic'
  BY <1>1 DEF Shown, IInv
<1>3. CASE failed
  <2>1. initialized
    <3>1. call # InitCall
      BY <1>3, Zenon DEF IInv, Basic, Control
    <3> QED
      BY <1>1, <3>1, Zenon DEF IInv, Basic, Control
  <2>2. State = "broken" /\ State' = "broken"
    BY <1>1, <1>3, <2>1, StateFacts, StateFactsNext
  <2> QED
    BY <1>2, <2>2, FlickerStep
<1>4. CASE ~failed
  <2>1. State' = "ready"
    BY <1>1, <1>4, StateFactsNext
  <2>2. \A cell \in Cells : Shown'[cell] = wanted'[cell]
    <3>1. Filled'
      <4>1. Printing' /\ initialized' /\ ~failed'
        BY <1>1, <1>4 DEF IInv
      <4> QED
        BY <4>1 DEF Printing
    <3>2. NoCall # ClearCall /\ NoCall \notin Writes
      BY NoCallAssumption DEF Calls
    <3> QED
      BY <1>1, <3>1, <3>2 DEF Filled, Pending
  <2>3. Shown' = wanted'
    BY <1>2, <2>2, ShownTypedNext DEF AScreen!Texts
  <2>4. CASE initialized
    <3>1. State = "busy"
      BY <1>1, <1>4, <2>4, StateFacts
    <3> QED
      BY <1>1, <1>2, <2>1, <2>3, <3>1 DEF ScreenStep, AScreen!Next, AScreen!Finish
  <2>5. CASE ~initialized
    <3>1. State = "off"
      BY <2>5, StateFacts
    <3>2. call = InitCall
      BY <1>1, <2>5, Zenon DEF IInv, Basic, Control
    <3>3. wanted = BlankScreen
      BY <3>2 DEF IInv, Starting
    <3>4. Shown' = [cell \in Cells |-> Blank]
      BY <1>1, <2>3, <3>3 DEF BlankScreen
    <3> QED
      BY <2>1, <2>3, <3>1, <3>4 DEF ScreenStep, AScreen!Next, AScreen!Open
  <2> QED
    BY <2>4, <2>5
<1> QED
  BY <1>3, <1>4

LEMMA EveryStepIsScreen == IInv /\ IInv' /\ [Next]_vars => ScreenStep
<1> SUFFICES ASSUME IInv, IInv', [Next]_vars PROVE ScreenStep
  OBVIOUS
<1>1. Basic'
  BY DEF IInv
<1>2. CASE Deinit \/ Reset
  <2>1. initialized' = FALSE
    BY <1>2, Zenon DEF Deinit, Reset
  <2>2. State' = "off"
    BY <2>1, StateFactsNext
  <2> QED
    BY <1>1, <2>2, CloseStep
<1>3. CASE UNCHANGED vars
  BY <1>3 DEF vars, driverVars, displayVars, ghostVars, ScreenStep, Shown, State
<1> QED
  BY <1>1, <1>2, <1>3, CallScreen, TransferScreen, FailScreen, ReturnScreen, Zenon DEF Next

LEMMA InitIsScreen == Init => AScreen!Init
<1> SUFFICES ASSUME Init PROVE AScreen!Init
  OBVIOUS
<1>1. Basic
  BY InitBasic
<1>2. State = "off"
  BY StateFacts DEF Init
<1> QED
  BY <1>1, <1>2, ShownTyped DEF AScreen!Init

\* Every behaviour of the driver and the display is one of a screen: a call
\* changes the cells it is to change and no other, and when it returns without
\* an error the screen shows what was asked for.
THEOREM IsAScreen == Spec => ImplementsScreen
<1>1. ScreenStep => [AScreen!Next]_<<Shown, wanted, State>>
  BY DEF ScreenStep
<1>2. IInv /\ IInv' /\ [Next]_vars => [AScreen!Next]_<<Shown, wanted, State>>
  BY <1>1, EveryStepIsScreen
<1> QED
  BY <1>2, InitInvariant, InvariantStep, InitIsScreen, PTL DEF Spec, ImplementsScreen, AScreen!Spec
=============================================================================
