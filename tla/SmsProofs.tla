------------------------------ MODULE SmsProofs ------------------------------
(***************************************************************************)
(* Proofs about the messages the GSM driver sends: each goes to the number *)
(* it was meant for, and send_sms() returns NONE only for a message the    *)
(* module has accepted.  For every set of tasks and of numbers, every      *)
(* number of calls and every mixture of operations in which send_sms()     *)
(* checks the status first, on a module that answers in order, pauses      *)
(* after each response, and lags few enough commands behind.               *)
(*                                                                         *)
(* The danger is a late prompt: the prompt of a send_sms() that gave up,   *)
(* taken by a later one for its own, so that its text goes to the earlier  *)
(* number.  The argument counts.  Before the later send_sms() gets as far  *)
(* as its own number it has to pass the checks of the status, and each of  *)
(* them takes a response away.  The responses that come before the late    *)
(* prompt are too few for that: one in the buffer, one on the line, and    *)
(* one for each command the module has yet to answer before the number.    *)
(***************************************************************************)
EXTENDS Sim800lProofs

\* Every message of the workload is sent with the status checked first.
CheckedWorkload == \A num \in Numbers : SmsOp(num, FALSE) \notin Workload

\* The checks that no other message than the late answers can satisfy.  The
\* test of the registration takes an unsolicited message for its answer.
Gates == IF MaxUrc = 0 THEN 4 ELSE 3

\* The module pauses after each response, and the responses ahead of a late
\* prompt are fewer than the checks.
SlowModule == MaxBurst <= 1 /\ MaxBacklog + 1 < Gates
-----------------------------------------------------------------------------
(* The wire: what is on its way between the driver and the module *)

AtMostOne(s) == s = <<>> \/ \E r \in Responses : s = <<r>>

WireTypeOK ==
  /\ AtMostOne(out) /\ AtMostOne(buf)
  /\ inbox \in Seq(Command) /\ Len(inbox) <= MaxBacklog
  /\ mode \in Numbers \cup {NoNumber}
  /\ idleSize \in Nat /\ urcs \in Nat
  /\ rx # "ready" => buf = <<>> /\ ~half
  /\ MaxUrc = 0 => out # <<"URC">> /\ buf # <<"URC">>

\* A text is on its way only while the module collects one for its number,
\* and it is the next command the module sees.
TextInOrder ==
  /\ tx.name = "TEXT" => mode = tx.num /\ inbox = <<>>
  /\ \A i \in DOMAIN inbox : inbox[i].name = "TEXT" => i = 1 /\ mode = inbox[i].num

NumbersGiven ==
  /\ tx.name = "CMGS" => tx.num \in Numbers
  /\ \A i \in DOMAIN inbox : inbox[i].name = "CMGS" => inbox[i].num \in Numbers

\* A prompt on the line is one whose text is still to come.
PromptCollects == out = <<"PROMPT">> => mode # NoNumber

WireOK == WireTypeOK /\ TextInOrder /\ NumbersGiven /\ PromptCollects
-----------------------------------------------------------------------------
(* Where a send_sms() is *)

Sms(t) == op[t].name = "send_sms"
Cmgs(t) == [name |-> "CMGS", num |-> op[t].num, by |-> NoTask, id |-> 0]
Text(t) == [name |-> "TEXT", num |-> op[t].num, by |-> t, id |-> calls[t]]

\* What send_sms() has left to send, before and after each of its commands.
SmsTodos(t) ==
  {<<Plain("AT"), Plain("CHECK_SIM"), Plain("CHECK_REG"), Plain("CHECK_SIGNAL"), Cmgs(t), Text(t)>>,
   <<Plain("CHECK_SIM"), Plain("CHECK_REG"), Plain("CHECK_SIGNAL"), Cmgs(t), Text(t)>>,
   <<Plain("CHECK_REG"), Plain("CHECK_SIGNAL"), Cmgs(t), Text(t)>>,
   <<Plain("CHECK_SIGNAL"), Cmgs(t), Text(t)>>,
   <<Cmgs(t), Text(t)>>,
   <<Text(t)>>}

\* Only send_sms() sends numbers and texts, and it starts at the beginning.
TodoOK(t) ==
  pc[t] \in SendingPcs =>
    IF Sms(t)
    THEN /\ todo[t] \in SmsTodos(t)
         /\ pc[t] = "take" => Len(todo[t]) = 6
         /\ op[t].num \in Numbers
    ELSE \A i \in DOMAIN todo[t] : todo[t][i].name \notin {"CMGS", "TEXT"}

\* The last command has had the answer it wants.
Ok(t) == pc[t] \in {"clean1", "clean2", "judge"} /\ outcome[t] = "ok"

\* Not yet failed.
Hopeful(t) == Sms(t) /\ (pc[t] \in {"next", "arm", "send", "wait", "view"} \/ Ok(t))
Unsent(t) == pc[t] \in {"next", "arm", "send"}

\* The checks of the status it has passed, and those of them that count.
Checks(t) == 6 - Len(todo[t]) + IF Ok(t) THEN 1 ELSE 0
Progress(n) == IF MaxUrc = 0 \/ n < 3 THEN n ELSE n - 1

\* What the current reception has brought.
Received(t) == IF pc[t] \in {"send", "wait", "view"} THEN buf ELSE <<>>

\* What a response is worth to a check of the status.
Worth(s) == IF s \in {<<>>, <<"URC">>, <<"PROMPT">>} THEN 0 ELSE 1
Credit(t) == Progress(Checks(t)) + Worth(out) + Worth(Received(t))
-----------------------------------------------------------------------------
(* The three phases of a send_sms() that has not failed *)

\* Until it sends its number: the number of another send_sms() is too far away
\* for its prompt to be in time.
OthersFar(t) ==
  /\ tx.name = "CMGS" => Checks(t) = 0 /\ Unsent(t)
  /\ \A i \in DOMAIN inbox : inbox[i].name = "CMGS" => Credit(t) + (i - 1) <= MaxBacklog + 1
  /\ mode # NoNumber => Credit(t) <= MaxBacklog + 1
  /\ Len(todo[t]) = 2 => Received(t) # <<"PROMPT">>

Searching(t) == Len(todo[t]) > 2 \/ (Len(todo[t]) = 2 /\ Unsent(t))

\* Until its number is answered: a prompt is its own.
OwnPrompt(t) ==
  /\ tx # NoCmd => tx = Cmgs(t) /\ mode = NoNumber /\ \A i \in DOMAIN inbox : inbox[i].name # "CMGS"
  /\ \A i \in DOMAIN inbox : inbox[i].name = "CMGS" =>
       i = Len(inbox) /\ inbox[i] = Cmgs(t) /\ mode = NoNumber
  /\ mode # NoNumber => mode = op[t].num /\ inbox = <<>> /\ tx = NoCmd
  /\ Received(t) = <<"PROMPT">> \/ Ok(t) => mode # NoNumber /\ out \in {<<>>, <<"URC">>}

Prompting(t) == Len(todo[t]) = 2 /\ ~Unsent(t)

\* Before it sends its text: the module waits for it, and for nothing else.
LineClear(t) ==
  /\ mode = op[t].num /\ inbox = <<>> /\ tx = NoCmd
  /\ out \in {<<>>, <<"URC">>} /\ Received(t) \in {<<>>, <<"URC">>}

\* After that: a confirmation is the one of its text.
Recorded(t) == \E a \in accepted : a.by = t /\ a.id = calls[t]

OwnConfirmation(t) ==
  /\ tx # NoCmd => tx = Text(t) /\ inbox = <<>>
  /\ inbox # <<>> => inbox = <<Text(t)>>
  /\ out = <<"CMGS">> \/ Received(t) = <<"CMGS">> \/ Ok(t) => Recorded(t)

Phase(t) ==
  Hopeful(t) =>
    /\ Searching(t) => OthersFar(t)
    /\ Prompting(t) => OwnPrompt(t)
    /\ Len(todo[t]) = 1 => IF Unsent(t) THEN LineClear(t) ELSE OwnConfirmation(t)

\* Only deinit() takes things down, and only init() sleeps.
LabelOK(t) ==
  /\ pc[t] \in {"teardown", "delete", "clear"} => op[t].name = "deinit"
  /\ pc[t] = "sleep" => op[t].name = "init"

NoneOK(t) == op[t].name = "send_sms" /\ result[t] = "NONE" => Recorded(t)

SmsInv ==
  /\ WireOK /\ SmsReachesItsNumber
  /\ \A t \in Tasks : TodoOK(t) /\ Phase(t) /\ LabelOK(t) /\ NoneOK(t)
-----------------------------------------------------------------------------
(* What the driver makes of a reception *)

LEMMA BytesEmpty == Bytes(<<>>) = 0
<1> DEFINE sum == CHOOSE f : f = [i \in 0..0 |-> IF i = 0 THEN 0 ELSE f[i - 1] + Size[<<>>[i]]]
<1>1. \E f : f = [i \in 0..0 |-> IF i = 0 THEN 0 ELSE f[i - 1] + Size[<<>>[i]]]
  <2> DEFINE f == [i \in 0..0 |-> 0]
  <2>1. f = [i \in 0..0 |-> IF i = 0 THEN 0 ELSE f[i - 1] + Size[<<>>[i]]]
    OBVIOUS
  <2> QED BY <2>1
<1>2. sum = [i \in 0..0 |-> IF i = 0 THEN 0 ELSE sum[i - 1] + Size[<<>>[i]]]
  BY <1>1
<1> HIDE DEF sum
<1>3. sum[0] = 0
  BY <1>2
<1>4. Len(<<>>) = 0
  OBVIOUS
<1> QED BY <1>3, <1>4 DEF Bytes, sum

LEMMA BytesOne ==
  ASSUME NEW r \in Responses PROVE Bytes(<<r>>) \in 1..25
<1> DEFINE sum == CHOOSE f : f = [i \in 0..1 |-> IF i = 0 THEN 0 ELSE f[i - 1] + Size[<<r>>[i]]]
<1>1. \E f : f = [i \in 0..1 |-> IF i = 0 THEN 0 ELSE f[i - 1] + Size[<<r>>[i]]]
  <2> DEFINE f == [i \in 0..1 |-> IF i = 0 THEN 0 ELSE 0 + Size[<<r>>[1]]]
  <2>1. f = [i \in 0..1 |-> IF i = 0 THEN 0 ELSE f[i - 1] + Size[<<r>>[i]]]
    OBVIOUS
  <2> QED BY <2>1
<1>2. sum = [i \in 0..1 |-> IF i = 0 THEN 0 ELSE sum[i - 1] + Size[<<r>>[i]]]
  BY <1>1
<1>3. Size[r] \in 1..25
  BY DEF Responses, Size
<1> HIDE DEF sum
<1>4. sum[0] = 0 /\ sum[1] = sum[0] + Size[<<r>>[1]]
  BY <1>2
<1>5. sum[1] \in 1..25
  BY <1>3, <1>4
<1>6. Len(<<r>>) = 1
  OBVIOUS
<1> QED BY <1>5, <1>6 DEF Bytes, sum

LEMMA BytesFew ==
  ASSUME NEW s, AtMostOne(s) PROVE Bytes(s) \in Nat /\ Bytes(s) < 32
<1>1. CASE s = <<>>
  BY <1>1, BytesEmpty
<1>2. CASE \E r \in Responses : s = <<r>>
  BY <1>2, BytesOne
<1> QED BY <1>1, <1>2 DEF AtMostOne

\* What is left of at most one response after the first missed of them
LEMMA RestOfOne ==
  ASSUME NEW s, AtMostOne(s), NEW missed \in 0..Len(s)
  PROVE  LET rest == <<>> \o SubSeq(s, missed + 1, Len(s)) IN rest = <<>> \/ rest = s
<1>1. <<>> \o <<>> = <<>>
  OBVIOUS
<1>2. Len(s) \in 0..1 /\ SubSeq(s, 1, 0) = <<>> /\ (Len(s) = 1 => SubSeq(s, 1, 1) = s)
  BY DEF AtMostOne
<1>3. CASE s = <<>>
  <2>1. missed = 0 /\ Len(s) = 0 /\ SubSeq(s, 1, 0) = <<>>
    BY <1>3
  <2> QED BY <1>1, <2>1
<1>4. ASSUME NEW r \in Responses, s = <<r>>
      PROVE  LET rest == <<>> \o SubSeq(s, missed + 1, Len(s)) IN rest = <<>> \/ rest = s
  <2>1. Len(s) = 1
    BY <1>4
  <2>2. SubSeq(s, 1, 1) = s
    BY <1>2, <2>1
  <2>3. SubSeq(s, 2, 1) = <<>>
    BY <1>4
  <2>4. <<>> \o s = s
    BY <1>4 DEF Responses
  <2>5. CASE missed = 0
    BY <2>1, <2>2, <2>4, <2>5
  <2>6. CASE missed = 1
    BY <1>1, <2>1, <2>3, <2>6
  <2> QED BY <2>1, <2>5, <2>6
<1> QED BY <1>3, <1>4 DEF AtMostOne

\* One response is in the first n bytes as a whole, or not at all.
LEMMA WithinOne ==
  ASSUME NEW s, AtMostOne(s), NEW n \in Nat PROVE Within(s, n) = <<>> \/ Within(s, n) = s
<1>1. Len(s) \in 0..1 /\ SubSeq(s, 1, 0) = <<>> /\ (Len(s) = 1 => SubSeq(s, 1, 1) = s)
  BY DEF AtMostOne
<1>2. Fits(s, n) \subseteq 0..1 /\ 0 \in Fits(s, n) /\ (1 \in Fits(s, n) => Len(s) = 1)
  <2>1. Bytes(SubSeq(s, 1, 0)) = 0
    BY <1>1, BytesEmpty, Zenon
  <2>2. 0 \in 0..Len(s) /\ 0 <= n
    BY <1>1
  <2>3. 0 \in Fits(s, n)
    BY <2>1, <2>2, Zenon DEF Fits
  <2>4. Fits(s, n) \subseteq 0..Len(s)
    BY Zenon DEF Fits
  <2> QED BY <1>1, <2>3, <2>4
<1>3. \E k \in Fits(s, n) : \A j \in Fits(s, n) : j <= k
  <2>1. CASE 1 \in Fits(s, n)
    BY <1>2, <2>1
  <2>2. CASE 1 \notin Fits(s, n)
    <3>1. \A j \in Fits(s, n) : j = 0
      BY <1>2, <2>2
    <3> QED BY <1>2, <3>1
  <2> QED BY <2>1, <2>2
<1> DEFINE k == CHOOSE k \in Fits(s, n) : \A j \in Fits(s, n) : j <= k
<1>4. k \in Fits(s, n)
  BY <1>3
<1>5. k = 0 \/ (k = 1 /\ Len(s) = 1)
  BY <1>2, <1>4
<1>6. Within(s, n) = SubSeq(s, 1, k)
  BY DEF Within
<1> HIDE DEF k
<1> QED BY <1>1, <1>5, <1>6

LEMMA FirstOfOne ==
  ASSUME NEW r \in Responses, NEW set PROVE FirstIn(<<r>>, set) = IF r \in set THEN r ELSE "none"
<1> DEFINE hits == {i \in DOMAIN <<r>> : <<r>>[i] \in set}
<1>1. CASE r \in set
  <2>1. hits = {1}
    BY <1>1
  <2>2. (CHOOSE i \in {1} : \A j \in {1} : i <= j) = 1
    OBVIOUS
  <2> QED BY <1>1, <2>1, <2>2 DEF FirstIn
<1>2. CASE r \notin set
  BY <1>2 DEF FirstIn
<1> QED BY <1>1, <1>2

LEMMA FirstOfNone == ASSUME NEW set PROVE FirstIn(<<>>, set) = "none"
BY DEF FirstIn

\* A check of the status takes a response, and it is not the prompt; only the
\* check of the registration takes an unsolicited message.
LEMMA CheckAccepts ==
  ASSUME NEW name \in {"AT", "CHECK_SIM", "CHECK_REG", "CHECK_SIGNAL"}, NEW size,
         NEW s, AtMostOne(s), Accepts(name, s, size)
  PROVE  s \notin {<<>>, <<"PROMPT">>} /\ (name # "CHECK_REG" => s # <<"URC">>)
<1>1. CASE s = <<>>
  <2>1. \A set : ~Contains(s, set) /\ FirstIn(s, set) = "none"
    BY <1>1, FirstOfNone DEF Contains
  <2>2. ~Registered(s) /\ ~SignalGood(s)
    BY <2>1 DEF Registered, SignalGood, CommaThenOne
  <2> QED BY <2>1, <2>2 DEF Accepts
<1>2. ASSUME NEW r \in {"PROMPT", "URC"}, s = <<r>>, r = "URC" => name # "CHECK_REG" PROVE FALSE
  <2>1. r \in Responses
    BY <1>2 DEF Responses
  <2>2. ~Contains(s, {"CPIN"}) /\ ~Contains(s, EndInOk)
    BY <1>2 DEF Contains, EndInOk
  <2>3. ~SignalGood(s)
    BY <1>2, <2>1, FirstOfOne DEF SignalGood, HaveCsq
  <2>4. r = "PROMPT" => ~Registered(s)
    BY <1>2, <2>1, FirstOfOne DEF Registered, HaveComma, CommaThenOne
  <2>5. CASE name = "AT"
    BY <2>2, <2>5 DEF Accepts
  <2>6. CASE name = "CHECK_SIM"
    BY <2>2, <2>6 DEF Accepts
  <2>7. CASE name = "CHECK_REG"
    BY <1>2, <2>4, <2>7 DEF Accepts
  <2>8. CASE name = "CHECK_SIGNAL"
    BY <2>3, <2>8 DEF Accepts
  <2> QED BY <2>5, <2>6, <2>7, <2>8
<1> QED BY <1>1, <1>2

LEMMA NumberAccepts ==
  ASSUME NEW size, NEW s, AtMostOne(s), Accepts("CMGS", s, size) PROVE s = <<"PROMPT">>
<1>1. Contains(s, {"PROMPT"})
  BY DEF Accepts
<1> QED BY <1>1 DEF Contains, AtMostOne

LEMMA TextAccepts ==
  ASSUME NEW size, NEW s, AtMostOne(s), Accepts("TEXT", s, size) PROVE s = <<"CMGS">>
<1>1. Contains(s, {"CMGS"})
  BY DEF Accepts, TextAccepted
<1> QED BY <1>1 DEF Contains, AtMostOne
-----------------------------------------------------------------------------
(* The commands of send_sms() *)

LEMMA TodoFacts ==
  ASSUME NEW t, NEW s \in SmsTodos(t)
  PROVE  /\ Len(s) \in {1, 2, 3, 4, 5, 6}
         /\ Len(s) > 2 => Head(s).name \in {"AT", "CHECK_SIM", "CHECK_REG", "CHECK_SIGNAL"}
         /\ Head(s).name = "CHECK_REG" <=> Len(s) = 4
         /\ Len(s) = 2 => Head(s) = Cmgs(t)
         /\ Len(s) = 1 => Head(s) = Text(t)
         /\ Len(s) # 1 => Tail(s) \in SmsTodos(t) /\ Len(Tail(s)) = Len(s) - 1
<1> DEFINE A == Plain("AT")  S == Plain("CHECK_SIM")  R == Plain("CHECK_REG")
           G == Plain("CHECK_SIGNAL")  C == Cmgs(t)  X == Text(t)
<1>1. A.name = "AT" /\ S.name = "CHECK_SIM" /\ R.name = "CHECK_REG" /\ G.name = "CHECK_SIGNAL"
  BY DEF Plain
<1>2. C.name = "CMGS" /\ X.name = "TEXT"
  BY DEF Cmgs, Text
<1>3. SmsTodos(t) =
        {<<A, S, R, G, C, X>>, <<S, R, G, C, X>>, <<R, G, C, X>>, <<G, C, X>>, <<C, X>>, <<X>>}
  BY DEF SmsTodos
<1> HIDE DEF A, S, R, G, C, X
<1>4. CASE s = <<A, S, R, G, C, X>>
  <2>1. Len(s) = 6 /\ Head(s) = A /\ Tail(s) = <<S, R, G, C, X>> /\ Len(Tail(s)) = 5
    BY <1>4
  <2> QED BY <1>1, <1>3, <2>1
<1>5. CASE s = <<S, R, G, C, X>>
  <2>1. Len(s) = 5 /\ Head(s) = S /\ Tail(s) = <<R, G, C, X>> /\ Len(Tail(s)) = 4
    BY <1>5
  <2> QED BY <1>1, <1>3, <2>1
<1>6. CASE s = <<R, G, C, X>>
  <2>1. Len(s) = 4 /\ Head(s) = R /\ Tail(s) = <<G, C, X>> /\ Len(Tail(s)) = 3
    BY <1>6
  <2> QED BY <1>1, <1>3, <2>1
<1>7. CASE s = <<G, C, X>>
  <2>1. Len(s) = 3 /\ Head(s) = G /\ Tail(s) = <<C, X>> /\ Len(Tail(s)) = 2
    BY <1>7
  <2> QED BY <1>1, <1>3, <2>1
<1>8. CASE s = <<C, X>>
  <2>1. Len(s) = 2 /\ Head(s) = C /\ Tail(s) = <<X>> /\ Len(Tail(s)) = 1
    BY <1>8
  <2> QED BY <1>2, <1>3, <2>1 DEF C
<1>9. CASE s = <<X>>
  <2>1. Len(s) = 1 /\ Head(s) = X
    BY <1>9
  <2> QED BY <1>2, <2>1 DEF X
<1> QED BY <1>3, <1>4, <1>5, <1>6, <1>7, <1>8, <1>9

\* As long as a check of the status is to come
LEMMA CheckLeft ==
  \A n \in {3, 4, 5, 6} :
    /\ n > 2 /\ n # 2 /\ n # 1 /\ n - 1 \in {2, 3, 4, 5} /\ n - 1 # 1
    /\ 6 - n \in 0..3 /\ 6 - n + 0 = 6 - n /\ (6 - n = 2 <=> n = 4)
OBVIOUS

\* The plan of a checked send_sms() is the first of its todos; no other
\* operation sends a number or a text.
LEMMA SmsPlanFirst ==
  ASSUME NEW o \in Operations, NEW t, NEW id, o.name = "send_sms", o.check
  PROVE  Plan(o, t, id) =
           <<Plain("AT"), Plain("CHECK_SIM"), Plain("CHECK_REG"), Plain("CHECK_SIGNAL"),
             [name |-> "CMGS", num |-> o.num, by |-> NoTask, id |-> 0],
             [name |-> "TEXT", num |-> o.num, by |-> t, id |-> id]>>
<1>1. Plan(o, t, id) = SmsPlan(o, t, id)
  BY DEF Plan
<1>2. FirstCheck(o) = StatusPlan
  BY DEF FirstCheck
<1> DEFINE A == Plain("AT")  S == Plain("CHECK_SIM")  R == Plain("CHECK_REG")
           G == Plain("CHECK_SIGNAL")
           C == [name |-> "CMGS", num |-> o.num, by |-> NoTask, id |-> 0]
           X == [name |-> "TEXT", num |-> o.num, by |-> t, id |-> id]
<1>3. SmsPlan(o, t, id) = <<A, S, R, G>> \o <<C, X>>
  BY <1>2 DEF SmsPlan, StatusPlan
<1> HIDE DEF A, S, R, G, C, X
<1>4. <<A, S, R, G>> \o <<C, X>> = <<A, S, R, G, C, X>>
  <2> DEFINE T == {A, S, R, G, C, X}
             c == <<A, S, R, G>> \o <<C, X>>
             d == <<A, S, R, G, C, X>>
  <2>1. <<A, S, R, G>> \in Seq(T) /\ <<C, X>> \in Seq(T) /\ d \in Seq(T)
    OBVIOUS
  <2>2. c \in Seq(T) /\ Len(c) = 6 /\ Len(d) = 6
    BY <2>1
  <2>3. c[1] = A /\ c[2] = S /\ c[3] = R /\ c[4] = G /\ c[5] = C /\ c[6] = X
    BY <2>1
  <2>4. d[1] = A /\ d[2] = S /\ d[3] = R /\ d[4] = G /\ d[5] = C /\ d[6] = X
    OBVIOUS
  <2> HIDE DEF c, d
  <2>5. \A i \in 1..6 : c[i] = d[i]
    BY <2>3, <2>4
  <2>6. c = d
    BY <2>1, <2>2, <2>5, SeqEqual
  <2> QED BY <2>6 DEF c, d
<1> QED BY <1>1, <1>3, <1>4 DEF A, S, R, G, C, X

LEMMA OtherPlan ==
  ASSUME NEW o \in Operations, NEW t, NEW id, o.name # "send_sms"
  PROVE  \A i \in DOMAIN Plan(o, t, id) : Plan(o, t, id)[i].name \notin {"CMGS", "TEXT"}
<1>1. o.name \in {"get_sim_status", "get_imsi", "init", "deinit"}
  BY DEF Operations, StatusOp, ImsiOp, InitOp, DeinitOp, SmsOp, Op
<1>2. CASE o.name = "get_sim_status"
  <2>1. Plan(o, t, id) = StatusPlan
    BY <1>2 DEF Plan
  <2> QED BY <2>1 DEF StatusPlan, Plain
<1>3. CASE o.name = "get_imsi"
  <2>1. Plan(o, t, id) = ImsiPlan
    BY <1>3 DEF Plan
  <2> QED BY <2>1 DEF ImsiPlan, Plain
<1>4. CASE o.name = "init"
  <2>1. Plan(o, t, id) = InitPlan
    BY <1>4 DEF Plan
  <2> QED BY <2>1 DEF InitPlan, Plain
<1>5. CASE o.name = "deinit"
  <2>1. Plan(o, t, id) = <<Plain("DEINIT")>>
    BY <1>5 DEF Plan
  <2> QED BY <2>1 DEF Plain
<1> QED BY <1>1, <1>2, <1>3, <1>4, <1>5
-----------------------------------------------------------------------------
(* Counting *)

LEMMA WorthFacts ==
  ASSUME NEW s
  PROVE  /\ Worth(s) \in {0, 1} /\ Worth(<<>>) = 0 /\ Worth(<<"URC">>) = 0 /\ Worth(<<"PROMPT">>) = 0
         /\ s \notin {<<>>, <<"URC">>, <<"PROMPT">>} => Worth(s) = 1
BY DEF Worth

LEMMA ProgressFacts ==
  ASSUME NEW n \in 0..3
  PROVE  /\ Progress(n) \in 0..3 /\ Progress(0) = 0 /\ Progress(4) = Gates
         /\ Progress(n + 1) = IF n = 2 /\ MaxUrc # 0 THEN Progress(n) ELSE Progress(n) + 1
BY DEF Progress, Gates

LEMMA GatesPassed ==
  ASSUME SlowModule PROVE Gates \in Nat /\ MaxBacklog + 1 < Gates
BY DEF SlowModule, Gates
-----------------------------------------------------------------------------
(* What a step of one task leaves alone *)

Untouched(t) ==
  /\ pc'[t] = pc[t] /\ op'[t] = op[t] /\ todo'[t] = todo[t]
  /\ outcome'[t] = outcome[t] /\ result'[t] = result[t] /\ calls'[t] = calls[t]

ModuleAlone == UNCHANGED <<mode, inbox, out, urcs, accepted>>

LEMMA LeaveFrame ==
  ASSUME TypeOK, NEW u \in Tasks, NEW res, Leave(u, res)
  PROVE  \A t \in Tasks \ {u} : pc'[t] = pc[t] /\ todo'[t] = todo[t] /\ result'[t] = result[t]
BY DEF Leave, Goto, TypeOK

LEMMA TaskFrame ==
  ASSUME TypeOK, NEW u \in Tasks, Enter(u) \/ Proceed(u)
  PROVE  ModuleAlone /\ \A t \in Tasks \ {u} : Untouched(t)
<1> DEFINE Done == ModuleAlone /\ \A t \in Tasks \ {u} : Untouched(t)
<1>1. ASSUME Enter(u) PROVE Done
  <2>1. PICK o \in Workload : Call(u, o) \/ CallRefused(u, o)
    BY <1>1 DEF Enter
  <2>2. CASE CallRefused(u, o)
    BY <2>2 DEF CallRefused, Untouched, ModuleAlone, moduleVars, TypeOK
  <2>3. CASE Call(u, o)
    BY <2>3 DEF Call, Goto, Untouched, ModuleAlone, moduleVars, TypeOK
  <2> QED BY <2>1, <2>2, <2>3
<1>2. ASSUME Locking(u) PROVE Done
  BY <1>2 DEF Locking, TakeMutex, TakeTimeout, TakeDeleted, NestedTake, NestedGive, Give, Goto,
     Untouched, ModuleAlone, moduleVars, taskVars, TypeOK
<1>3. ASSUME Transact(u) PROVE Done
  <2>1. CASE Begin(u) \/ Arm(u) \/ ArmFails(u) \/ Send(u) \/ SendFails(u)
    BY <2>1 DEF Begin, Arm, ArmFails, Send, SendFails, Goto, Untouched, ModuleAlone, moduleVars,
       TypeOK
  <2>2. CASE TakeNotification(u) \/ WaitTimeout(u)
    BY <2>2 DEF TakeNotification, WaitTimeout, Goto, Untouched, ModuleAlone, moduleVars, TypeOK
  <2>3. CASE Abort(u) \/ Clean1(u) \/ Clean2(u)
    BY <2>3 DEF Abort, Clean1, Clean2, Goto, Untouched, ModuleAlone, moduleVars, TypeOK
  <2>4. CASE View(u)
    BY <2>4 DEF View, Goto, Untouched, ModuleAlone, moduleVars, TypeOK
  <2> QED BY <1>3, <2>1, <2>2, <2>3, <2>4 DEF Transact
<1>4. ASSUME Decide(u) PROVE Done
  <2>1. CASE JudgeOk(u)
    <3>1. CASE Len(todo[u]) = 1
      BY <2>1, <3>1, LeaveFrame DEF JudgeOk, Untouched, ModuleAlone, moduleVars
    <3>2. CASE Len(todo[u]) # 1
      BY <2>1, <3>2 DEF JudgeOk, Goto, Untouched, ModuleAlone, moduleVars, TypeOK
    <3> QED BY <3>1, <3>2
  <2>2. CASE JudgeFailed(u)
    <3>1. CASE PollsSignal(u)
      BY <2>2, <3>1 DEF JudgeFailed, Goto, Untouched, ModuleAlone, moduleVars, TypeOK
    <3>2. CASE ~PollsSignal(u)
      BY <2>2, <3>2, LeaveFrame DEF JudgeFailed, Untouched, ModuleAlone, moduleVars
    <3> QED BY <3>1, <3>2
  <2>3. CASE Sleep(u)
    <3>1. CASE tries[u] > 1
      BY <2>3, <3>1 DEF Sleep, Goto, Untouched, ModuleAlone, moduleVars, TypeOK
    <3>2. CASE ~(tries[u] > 1)
      BY <2>3, <3>2, LeaveFrame DEF Sleep, Untouched, ModuleAlone, moduleVars
    <3> QED BY <3>1, <3>2
  <2>4. CASE JudgeDeinit(u) \/ Teardown(u) \/ DeleteMutex(u) \/ ClearInitialized(u)
    BY <2>4 DEF JudgeDeinit, Teardown, DeleteMutex, ClearInitialized, Goto, Untouched,
       ModuleAlone, moduleVars, TypeOK
  <2> QED BY <1>4, <2>1, <2>2, <2>3, <2>4 DEF Decide
<1> QED BY <1>1, <1>2, <1>3, <1>4 DEF Proceed

\* The same for a step of an interrupt or of the module: no task moves.
LEMMA WireFrame ==
  ASSUME Interrupt \/ Module PROVE UNCHANGED taskVars
BY DEF Interrupt, Module, TxDone, EndTransmit, RxHalf, RxEnd, RxError, BurstLost, ModuleAnswers, ModuleSpeaks
-----------------------------------------------------------------------------
(* The todos and the labels *)

LEMMA CalledSms ==
  ASSUME CheckedWorkload, NEW o \in Workload, Refusal(o) = "none", o.name = "send_sms"
  PROVE  o \in Operations /\ o.check /\ o.num \in Numbers
<1>1. o \in Operations
  BY ConstantsAssumption
<1>2. PICK num \in Numbers \cup {NoNumber}, check \in BOOLEAN : o = SmsOp(num, check)
  BY <1>1 DEF Operations, StatusOp, ImsiOp, InitOp, DeinitOp, Op
<1>3. o.num = num /\ o.check = check
  BY <1>2 DEF SmsOp, Op
<1>4. num # NoNumber
  BY <1>3 DEF Refusal
<1>5. check = TRUE
  BY <1>2, <1>4 DEF CheckedWorkload
<1> QED BY <1>1, <1>3, <1>4, <1>5

LEMMA TodoCall ==
  ASSUME TypeOK, CheckedWorkload, NEW t \in Tasks, NEW o \in Workload, Call(t, o)
  PROVE  TodoOK(t)'
<1>1. /\ op'[t] = o /\ calls'[t] = calls[t] + 1 /\ todo'[t] = Plan(o, t, calls[t] + 1)
      /\ Refusal(o) = "none"
  BY DEF Call, TypeOK
<1>2. CASE o.name = "send_sms"
  <2>1. o \in Operations /\ o.check /\ o.num \in Numbers
    BY <1>1, <1>2, CalledSms
  <2>2. todo'[t] = <<Plain("AT"), Plain("CHECK_SIM"), Plain("CHECK_REG"), Plain("CHECK_SIGNAL"),
                     [name |-> "CMGS", num |-> o.num, by |-> NoTask, id |-> 0],
                     [name |-> "TEXT", num |-> o.num, by |-> t, id |-> calls[t] + 1]>>
    BY <1>1, <1>2, <2>1, SmsPlanFirst
  <2>3. todo'[t] \in SmsTodos(t)'
    BY <1>1, <2>2 DEF SmsTodos, Cmgs, Text
  <2>4. Len(todo'[t]) = 6
    BY <2>2
  <2> QED BY <1>1, <1>2, <2>1, <2>3, <2>4 DEF TodoOK, Sms
<1>3. CASE o.name # "send_sms"
  <2>1. \A i \in DOMAIN todo'[t] : todo'[t][i].name \notin {"CMGS", "TEXT"}
    BY <1>1, <1>3, OtherPlan, ConstantsAssumption
  <2> QED BY <1>1, <1>3, <2>1 DEF TodoOK, Sms
<1> QED BY <1>2, <1>3

\* A step that leaves what is to be sent alone
LEMMA TodoKept ==
  ASSUME NEW t, TodoOK(t), op'[t] = op[t], todo'[t] = todo[t], calls'[t] = calls[t],
         pc'[t] \in SendingPcs => pc[t] \in SendingPcs /\ (pc'[t] = "take" => pc[t] = "take")
  PROVE  TodoOK(t)'
<1>1. SmsTodos(t)' = SmsTodos(t) /\ Sms(t)' = Sms(t)
  BY DEF SmsTodos, Sms, Cmgs, Text
<1> QED BY <1>1 DEF TodoOK

LEMMA TodoTail ==
  ASSUME IInv, NEW t \in Tasks, TodoOK(t), JudgeOk(t), Len(todo[t]) # 1
  PROVE  TodoOK(t)'
<1>1. /\ pc[t] = "judge" /\ pc'[t] = "next" /\ todo'[t] = Tail(todo[t])
      /\ op'[t] = op[t] /\ calls'[t] = calls[t]
  BY DEF JudgeOk, Goto, IInv, TypeOK
<1>2. SmsTodos(t)' = SmsTodos(t) /\ Sms(t)' = Sms(t)
  BY <1>1 DEF SmsTodos, Sms, Cmgs, Text
<1>3. CASE Sms(t)
  <2>1. todo[t] \in SmsTodos(t) /\ op[t].num \in Numbers
    BY <1>1, <1>3 DEF TodoOK, SendingPcs
  <2>2. Tail(todo[t]) \in SmsTodos(t)
    BY <2>1, TodoFacts
  <2> QED BY <1>1, <1>2, <1>3, <2>1, <2>2 DEF TodoOK
<1>4. CASE ~Sms(t)
  <2>1. todo[t] \in Seq(Command) /\ todo[t] # <<>>
    BY <1>1 DEF IInv, TypeOK, SomethingToSend, SendingPcs
  <2>2. \A i \in DOMAIN todo[t] : todo[t][i].name \notin {"CMGS", "TEXT"}
    BY <1>1, <1>4 DEF TodoOK, SendingPcs
  <2>3. \A i \in DOMAIN Tail(todo[t]) : i + 1 \in DOMAIN todo[t] /\ Tail(todo[t])[i] = todo[t][i + 1]
    BY <2>1
  <2>4. \A i \in DOMAIN Tail(todo[t]) : Tail(todo[t])[i].name \notin {"CMGS", "TEXT"}
    BY <2>2, <2>3
  <2> QED BY <1>1, <1>2, <1>4, <2>4 DEF TodoOK
<1> QED BY <1>3, <1>4

\* A step in which t leaves with a result
LEMMA LeaveMoves ==
  ASSUME TypeOK, NEW t \in Tasks, NEW res, Leave(t, res)
  PROVE  pc'[t] = IF op[t].name = "init" THEN "idle" ELSE "give"
BY DEF Leave, Goto, TypeOK

\* How t itself moves, when it neither starts an operation nor goes on to the
\* next command
OwnStepKeeps(t) ==
  /\ op'[t] = op[t] /\ (calls'[t] = calls[t] \/ pc'[t] = "idle")
  /\ pc'[t] \in SendingPcs =>
       /\ todo'[t] = todo[t] /\ pc[t] \in SendingPcs
       /\ pc'[t] = "take" => pc[t] = "take"
  /\ pc'[t] \in {"teardown", "delete", "clear"} =>
       op[t].name = "deinit" \/ pc[t] \in {"teardown", "delete"}
  /\ pc'[t] = "sleep" => op[t].name = "init"

LEMMA OwnStep ==
  ASSUME IInv, NEW t \in Tasks, Enter(t) \/ Proceed(t)
  PROVE  \/ \E o \in Workload : Call(t, o)
         \/ JudgeOk(t) /\ Len(todo[t]) # 1
         \/ OwnStepKeeps(t)
<1> USE DEF OwnStepKeeps
<1> DEFINE Done == OwnStepKeeps(t)
<1>0. TypeOK
  BY DEF IInv
<1>1. ASSUME NEW o \in Workload, CallRefused(t, o) PROVE Done
  BY <1>0, <1>1 DEF CallRefused, TypeOK, SendingPcs, TransactPcs
<1>2. ASSUME Locking(t) PROVE Done
  <2>1. CASE TakeMutex(t) \/ TakeTimeout(t) \/ TakeDeleted(t)
    BY <1>0, <2>1 DEF TakeMutex, TakeTimeout, TakeDeleted, Goto, TypeOK, SendingPcs, TransactPcs
  <2>2. CASE NestedTake(t) \/ NestedGive(t)
    BY <1>0, <2>2 DEF NestedTake, NestedGive, taskVars, TypeOK, SendingPcs, TransactPcs
  <2>3. CASE Give(t)
    BY <1>0, <2>3 DEF Give, Goto, TypeOK, SendingPcs, TransactPcs
  <2> QED BY <1>2, <2>1, <2>2, <2>3 DEF Locking
<1>3. ASSUME Transact(t) PROVE Done
  <2>1. /\ op'[t] = op[t] /\ calls'[t] = calls[t] /\ todo'[t] = todo[t]
        /\ pc[t] \in TransactPcs \cup {"next"} /\ pc'[t] \in TransactPcs \cup {"judge"}
    <3>1. CASE Begin(t) \/ Arm(t) \/ ArmFails(t) \/ Send(t) \/ SendFails(t)
      BY <1>0, <3>1 DEF Begin, Arm, ArmFails, Send, SendFails, Goto, TypeOK, TransactPcs
    <3>2. CASE TakeNotification(t) \/ WaitTimeout(t)
      BY <1>0, <3>2 DEF TakeNotification, WaitTimeout, Goto, TypeOK, TransactPcs
    <3>3. CASE Abort(t) \/ View(t) \/ Clean1(t) \/ Clean2(t)
      BY <1>0, <3>3 DEF Abort, View, Clean1, Clean2, Goto, TypeOK, TransactPcs
    <3> QED BY <1>3, <3>1, <3>2, <3>3 DEF Transact
  <2> QED BY <2>1 DEF SendingPcs, TransactPcs
<1>4. ASSUME NEW res, Leave(t, res), op'[t] = op[t], calls'[t] = calls[t] PROVE Done
  BY <1>0, <1>4, LeaveMoves DEF SendingPcs, TransactPcs
<1>5. ASSUME Decide(t), ~(JudgeOk(t) /\ Len(todo[t]) # 1) PROVE Done
  <2>1. CASE JudgeOk(t) /\ Len(todo[t]) = 1
    BY <1>4, <2>1 DEF JudgeOk
  <2>2. CASE JudgeFailed(t)
    <3>1. CASE PollsSignal(t)
      <4>1. /\ pc[t] = "judge" /\ pc'[t] = "sleep" /\ op[t].name = "init"
            /\ op'[t] = op[t] /\ calls'[t] = calls[t] /\ todo'[t] = todo[t]
        BY <1>0, <2>2, <3>1 DEF JudgeFailed, PollsSignal, Goto, TypeOK
      <4> QED BY <4>1 DEF SendingPcs, TransactPcs
    <3>2. CASE ~PollsSignal(t)
      BY <1>4, <2>2, <3>2 DEF JudgeFailed
    <3> QED BY <3>1, <3>2
  <2>3. CASE Sleep(t)
    <3>1. CASE tries[t] > 1
      <4>1. /\ pc[t] = "sleep" /\ pc'[t] = "next"
            /\ op'[t] = op[t] /\ calls'[t] = calls[t] /\ todo'[t] = todo[t]
        BY <1>0, <2>3, <3>1 DEF Sleep, Goto, TypeOK
      <4> QED BY <4>1 DEF SendingPcs, TransactPcs
    <3>2. CASE ~(tries[t] > 1)
      BY <1>4, <2>3, <3>2 DEF Sleep
    <3> QED BY <3>1, <3>2
  <2>4. CASE JudgeDeinit(t) \/ Teardown(t) \/ DeleteMutex(t) \/ ClearInitialized(t)
    BY <1>0, <2>4 DEF JudgeDeinit, Teardown, DeleteMutex, ClearInitialized, Goto, TypeOK,
       SendingPcs, TransactPcs
  <2> QED BY <1>5, <2>1, <2>2, <2>3, <2>4 DEF Decide
<1> QED BY <1>1, <1>2, <1>3, <1>5 DEF Enter, Proceed

LEMMA TodoAndLabelStep ==
  ASSUME IInv, CheckedWorkload, NEW t \in Tasks, TodoOK(t), LabelOK(t), [Next]_vars
  PROVE  TodoOK(t)' /\ LabelOK(t)'
<1>0. TypeOK
  BY DEF IInv
<1>1. ASSUME Untouched(t) PROVE TodoOK(t)' /\ LabelOK(t)'
  BY <1>1, TodoKept DEF Untouched, LabelOK
<1>2. ASSUME OwnStepKeeps(t) PROVE TodoOK(t)' /\ LabelOK(t)'
  <2>1. LabelOK(t)'
    BY <1>2 DEF OwnStepKeeps, LabelOK
  <2>2. CASE pc'[t] \in SendingPcs
    <3>1. calls'[t] = calls[t]
      BY <1>2, <2>2 DEF OwnStepKeeps, SendingPcs, TransactPcs
    <3> QED BY <1>2, <2>1, <2>2, <3>1, TodoKept DEF OwnStepKeeps
  <2>3. CASE pc'[t] \notin SendingPcs
    BY <2>1, <2>3 DEF TodoOK
  <2> QED BY <2>2, <2>3
<1>3. CASE UNCHANGED vars \/ Interrupt \/ Module
  <2>1. UNCHANGED taskVars
    BY <1>3, WireFrame DEF vars
  <2> QED BY <1>1, <2>1 DEF taskVars, Untouched
<1>4. ASSUME NEW u \in Tasks, Enter(u) \/ Proceed(u) PROVE TodoOK(t)' /\ LabelOK(t)'
  <2>1. CASE u # t
    BY <1>0, <1>1, <1>4, <2>1, TaskFrame
  <2>2. CASE u = t
    <3>1. ASSUME NEW o \in Workload, Call(t, o) PROVE TodoOK(t)' /\ LabelOK(t)'
      <4>1. pc'[t] \in {"take", "next"}
        BY <1>0, <3>1 DEF Call, Goto, TypeOK
      <4> QED BY <1>0, <3>1, <4>1, TodoCall DEF LabelOK
    <3>2. ASSUME JudgeOk(t), Len(todo[t]) # 1 PROVE TodoOK(t)' /\ LabelOK(t)'
      <4>1. pc'[t] = "next"
        BY <1>0, <3>2 DEF JudgeOk, Goto, TypeOK
      <4> QED BY <3>2, <4>1, TodoTail DEF LabelOK
    <3> QED BY <1>2, <1>4, <2>2, <3>1, <3>2, OwnStep
  <2> QED BY <2>1, <2>2
<1> QED BY <1>3, <1>4 DEF Next
-----------------------------------------------------------------------------
(* What each step does to the wire *)

\* Nothing new is on its way, and nothing is received.
Quiet(u) ==
  /\ UNCHANGED <<buf, half>> /\ idleSize' \in {idleSize, 0}
  /\ rx' # "ready" => rx # "ready"
  /\ \/ UNCHANGED tx
     \/ tx' = NoCmd /\ (pc[u] \in SessionPcs \/ \A t \in Tasks \ {u} : pc[t] = "idle")

LEMMA TaskWire ==
  ASSUME IInv, NEW u \in Tasks, Enter(u) \/ Proceed(u)
  PROVE  Quiet(u) \/ Arm(u) \/ Send(u)
<1> USE DEF Quiet
<1>0. TypeOK
  BY DEF IInv
<1>1. ASSUME Enter(u) PROVE Quiet(u)
  <2>1. PICK o \in Workload : Call(u, o) \/ CallRefused(u, o)
    BY <1>1 DEF Enter
  <2>2. CASE CallRefused(u, o)
    BY <2>2 DEF CallRefused, isrVars, uartVars
  <2>3. CASE Call(u, o) /\ o.name # "init"
    BY <2>3 DEF Call, isrVars
  <2>4. CASE Call(u, o) /\ o.name = "init"
    <3>1. /\ UNCHANGED <<buf, half, idleSize>> /\ rx' = "ready" /\ tx' = NoCmd
          /\ MayCall(u, o)
      BY <2>4 DEF Call, isrVars
    <3>2. \A t \in Tasks \ {u} : pc[t] = "idle"
      BY <2>4, <3>1 DEF MayCall
    <3> QED BY <3>1, <3>2
  <2> QED BY <2>1, <2>2, <2>3, <2>4
<1>2. ASSUME Locking(u) PROVE Quiet(u)
  BY <1>2 DEF Locking, TakeMutex, TakeTimeout, TakeDeleted, NestedTake, NestedGive, Give, isrVars,
     uartVars
<1>3. ASSUME Transact(u), ~Arm(u), ~Send(u) PROVE Quiet(u)
  <2>1. CASE Begin(u) \/ ArmFails(u) \/ SendFails(u) \/ TakeNotification(u) \/ WaitTimeout(u)
    BY <2>1 DEF Begin, ArmFails, SendFails, TakeNotification, WaitTimeout, isrVars, uartVars
  <2>2. CASE Abort(u)
    BY <2>2 DEF Abort, isrVars, SessionPcs
  <2>3. CASE View(u) \/ Clean1(u) \/ Clean2(u)
    BY <2>3 DEF View, Clean1, Clean2, isrVars, uartVars
  <2> QED BY <1>3, <2>1, <2>2, <2>3 DEF Transact
<1>4. ASSUME Decide(u) PROVE Quiet(u)
  <2>1. CASE JudgeOk(u) \/ JudgeFailed(u) \/ Sleep(u)
    BY <2>1 DEF JudgeOk, JudgeFailed, Sleep, isrVars, uartVars
  <2>2. CASE Teardown(u)
    BY <2>2 DEF Teardown, SessionPcs
  <2>3. CASE JudgeDeinit(u) \/ DeleteMutex(u) \/ ClearInitialized(u)
    BY <2>3 DEF JudgeDeinit, DeleteMutex, ClearInitialized, isrVars, uartVars
  <2> QED BY <1>4, <2>1, <2>2, <2>3 DEF Decide
<1> QED BY <1>1, <1>2, <1>3, <1>4 DEF Proceed

LEMMA NoHalf == WireTypeOK => ~RxHalf
<1> SUFFICES ASSUME WireTypeOK, RxHalf PROVE FALSE
  OBVIOUS
<1>1. buf = <<>> /\ AtMostOne(out)
  BY DEF WireTypeOK, RxHalf
<1>2. <<>> \o out = out
  BY <1>1 DEF AtMostOne, Responses
<1>3. Bytes(buf \o out) >= 32
  BY DEF RxHalf, RxBufSize
<1>4. Bytes(out) >= 32
  BY <1>1, <1>2, <1>3
<1> QED BY <1>1, <1>4, BytesFew

\* A reception ends with what was on the line, or with nothing of it.
LEMMA EndEffect ==
  ASSUME WireTypeOK, RxEnd
  PROVE  /\ rx # "ready" /\ rx' = "ready" /\ buf = <<>> /\ out # <<>>
         /\ out' = <<>> /\ buf' \in {<<>>, out} /\ idleSize' \in Nat
         /\ UNCHANGED <<half, tx, mode, inbox, urcs, accepted>>
<1>1. /\ rx # "ready" /\ rx' = "ready" /\ out' = <<>> /\ buf = <<>> /\ ~half
      /\ UNCHANGED <<half, tx, mode, inbox, urcs, accepted>>
  BY DEF RxEnd, EndedRx, WireTypeOK
<1>2. PICK missed \in 0..Len(out) :
        LET all == buf \o SubSeq(out, missed + 1, Len(out))
            size == Bytes(all)
        IN /\ all # <<>> \/ half
           /\ buf' = Within(all, RxBufSize)
           /\ RxEventCallback(IF size < RxBufSize THEN size ELSE RxBufSize)
  BY DEF RxEnd
<1> DEFINE all == buf \o SubSeq(out, missed + 1, Len(out))
           size == Bytes(all)
<1>3. AtMostOne(out)
  BY DEF WireTypeOK
<1>4. all = <<>> \/ all = out
  <2>1. missed \in 0..Len(out) /\ all = <<>> \o SubSeq(out, missed + 1, Len(out))
    BY <1>1
  <2> HIDE DEF all
  <2> QED BY <1>3, <2>1, RestOfOne
<1>5. all # <<>> /\ buf' = Within(all, RxBufSize)
      /\ RxEventCallback(IF size < RxBufSize THEN size ELSE RxBufSize)
  BY <1>1, <1>2
<1> HIDE DEF all
<1>6. all = out /\ out # <<>>
  BY <1>4, <1>5
<1>7. RxBufSize \in Nat
  BY DEF RxBufSize
<1>8. buf' \in {<<>>, out}
  BY <1>3, <1>5, <1>6, <1>7, WithinOne
<1>9. size \in Nat
  BY <1>3, <1>6, BytesFew
<1>10. idleSize' \in Nat
  BY <1>5, <1>7, <1>9 DEF RxEventCallback, WireTypeOK
<1> QED BY <1>1, <1>6, <1>8, <1>10

\* What the module makes of the next command
AnswerEffect(c) ==
  /\ AtMostOne(out') /\ out' # <<"URC">>
  /\ out' = <<"PROMPT">> => mode' # NoNumber
  /\ \/ mode' = mode /\ (mode # NoNumber => c.name # "TEXT" /\ out' \in {<<>>, <<"PROMPT">>})
     \/ mode = NoNumber /\ c.name = "CMGS" /\ mode' = c.num /\ out' = <<"PROMPT">>
     \/ mode' = NoNumber /\ c.name = "TEXT"
  /\ \/ accepted' = accepted /\ out' # <<"CMGS">>
     \/ /\ c.name = "TEXT" /\ mode # NoNumber
        /\ accepted' = accepted \cup {[by |-> c.by, id |-> c.id, meant |-> c.num, sent |-> mode]}

LEMMA AnswerFacts ==
  ASSUME WireOK, SlowModule, ModuleAnswers
  PROVE  /\ inbox # <<>> /\ out = <<>> /\ inbox' = Tail(inbox)
         /\ UNCHANGED <<idleSize, rx, buf, half, tx, urcs>>
         /\ AnswerEffect(Head(inbox))
<1> DEFINE c == Head(inbox)
<1>1. /\ inbox # <<>> /\ inbox' = Tail(inbox) /\ Len(out) < MaxBurst
      /\ UNCHANGED <<idleSize, rx, buf, half, tx, urcs>>
      /\ IF mode = NoNumber THEN AnswerCommand(c) ELSE CollectText(c)
  BY DEF ModuleAnswers, isrVars, uartVars
<1>2. out = <<>>
  <2>1. Len(out) < 1 /\ AtMostOne(out)
    BY <1>1, ConstantsAssumption DEF SlowModule, WireOK, WireTypeOK, AtMostOne
  <2> QED BY <2>1 DEF AtMostOne
<1>3. \A r \in Responses : Append(out, r) = <<r>>
  BY <1>2
<1>4. c.name = "CMGS" => c.num \in Numbers
  <2>1. inbox \in Seq(Command) /\ 1 \in DOMAIN inbox /\ c = inbox[1]
    BY <1>1 DEF WireOK, WireTypeOK
  <2> QED BY <2>1 DEF WireOK, NumbersGiven
<1> HIDE DEF c
<1>5. ASSUME mode = NoNumber PROVE AnswerEffect(c)
  <2>1. AnswerCommand(c)
    BY <1>1, <1>5
  <2>2. ASSUME c.name # "CMGS", NEW r \in Answers(c.name), out' = Append(out, r),
               UNCHANGED <<mode, accepted>>
        PROVE  AnswerEffect(c)
    <3>1. r \in {"OK", "ERROR", "CPIN", "CREG_1", "CREG_0", "CSQ_20", "CSQ_99", "IMSI", "DOWN"}
      BY <2>2 DEF Answers
    <3>2. r \in Responses /\ out' = <<r>>
      BY <1>3, <2>2, <3>1 DEF Responses
    <3>3. out' # <<"URC">> /\ out' # <<"PROMPT">> /\ out' # <<"CMGS">>
      BY <3>1, <3>2
    <3> QED BY <1>5, <2>2, <3>2, <3>3 DEF AnswerEffect, AtMostOne
  <2>3. ASSUME c.name = "CMGS", mode' = c.num, out' = Append(out, "PROMPT"), UNCHANGED accepted
        PROVE  AnswerEffect(c)
    <3>1. /\ out' = <<"PROMPT">> /\ "PROMPT" \in Responses
          /\ out' # <<"URC">> /\ out' # <<"CMGS">>
      BY <1>3, <2>3 DEF Responses
    <3>2. mode' # NoNumber
      BY <1>4, <2>3, ConstantsAssumption
    <3> QED BY <1>5, <2>3, <3>1, <3>2 DEF AnswerEffect, AtMostOne
  <2>4. ASSUME out' = Append(out, "ERROR"), UNCHANGED <<mode, accepted>>
        PROVE  AnswerEffect(c)
    <3>1. /\ out' = <<"ERROR">> /\ "ERROR" \in Responses
          /\ out' # <<"URC">> /\ out' # <<"CMGS">> /\ out' # <<"PROMPT">>
      BY <1>3, <2>4 DEF Responses
    <3> QED BY <1>5, <2>4, <3>1 DEF AnswerEffect, AtMostOne
  <2> QED BY <2>1, <2>2, <2>3, <2>4 DEF AnswerCommand
<1>6. ASSUME mode # NoNumber PROVE AnswerEffect(c)
  <2>1. CollectText(c)
    BY <1>1, <1>6
  <2>2. ASSUME c.name # "TEXT", out' = out \/ out' = Append(out, "PROMPT"),
               UNCHANGED <<mode, accepted>>
        PROVE  AnswerEffect(c)
    <3>1. /\ out' \in {<<>>, <<"PROMPT">>} /\ "PROMPT" \in Responses
          /\ out' # <<"URC">> /\ out' # <<"CMGS">>
      BY <1>2, <1>3, <2>2 DEF Responses
    <3> QED BY <1>6, <2>2, <3>1 DEF AnswerEffect, AtMostOne
  <2>3. ASSUME c.name = "TEXT", mode' = NoNumber, out' = Append(out, "CMGS"),
               accepted' = accepted \cup {[by |-> c.by, id |-> c.id, meant |-> c.num, sent |-> mode]}
        PROVE  AnswerEffect(c)
    <3>1. /\ out' = <<"CMGS">> /\ "CMGS" \in Responses
          /\ out' # <<"URC">> /\ out' # <<"PROMPT">>
      BY <1>3, <2>3 DEF Responses
    <3> QED BY <1>6, <2>3, <3>1 DEF AnswerEffect, AtMostOne
  <2>4. ASSUME c.name = "TEXT", mode' = NoNumber, out' = Append(out, "ERROR"), UNCHANGED accepted
        PROVE  AnswerEffect(c)
    <3>1. /\ out' = <<"ERROR">> /\ "ERROR" \in Responses
          /\ out' # <<"URC">> /\ out' # <<"CMGS">> /\ out' # <<"PROMPT">>
      BY <1>3, <2>4 DEF Responses
    <3> QED BY <1>6, <2>4, <3>1 DEF AnswerEffect, AtMostOne
  <2> QED BY <2>1, <2>2, <2>3, <2>4 DEF CollectText
<1> QED BY <1>1, <1>2, <1>5, <1>6 DEF c

LEMMA SpeaksFacts ==
  ASSUME WireOK, SlowModule, ModuleSpeaks
  PROVE  /\ out = <<>> /\ out' = <<"URC">> /\ MaxUrc # 0 /\ urcs' \in Nat
         /\ UNCHANGED <<idleSize, rx, buf, half, tx, mode, inbox, accepted>>
<1>1. Len(out) < 1 /\ AtMostOne(out) /\ urcs \in Nat /\ urcs < MaxUrc
  BY ConstantsAssumption DEF ModuleSpeaks, SlowModule, WireOK, WireTypeOK, AtMostOne
<1>2. out = <<>>
  BY <1>1 DEF AtMostOne
<1>3. out' = <<"URC">> /\ urcs' = urcs + 1
  BY <1>2 DEF ModuleSpeaks
<1>4. UNCHANGED <<idleSize, rx, buf, half, tx, mode, inbox, accepted>>
  BY DEF ModuleSpeaks, isrVars, uartVars
<1> QED BY <1>1, <1>2, <1>3, <1>4, ConstantsAssumption
-----------------------------------------------------------------------------
(* The wire stays in order *)

LEMMA SendKind ==
  ASSUME IInv, NEW u \in Tasks, TodoOK(u), Phase(u), Send(u)
  PROVE  /\ tx = NoCmd /\ tx' = Head(todo[u]) /\ UNCHANGED <<idleSize, rx, buf, half>>
         /\ tx'.name = "TEXT" => mode = tx'.num /\ inbox = <<>>
         /\ tx'.name = "CMGS" => tx'.num \in Numbers
<1>1. /\ tx = NoCmd /\ tx' = Head(todo[u]) /\ UNCHANGED <<idleSize, rx, buf, half>>
      /\ pc[u] = "send"
  BY DEF Send, isrVars
<1>2. CASE Sms(u)
  <2>1. todo[u] \in SmsTodos(u) /\ op[u].num \in Numbers
    BY <1>1, <1>2 DEF TodoOK, SendingPcs, TransactPcs
  <2>2. Hopeful(u) /\ Unsent(u)
    BY <1>1, <1>2 DEF Hopeful, Unsent
  <2>3. CASE Len(todo[u]) > 2
    <3>1. tx'.name \notin {"TEXT", "CMGS"}
      BY <1>1, <2>1, <2>3, TodoFacts
    <3> QED BY <1>1, <3>1
  <2>4. CASE Len(todo[u]) = 2
    <3>1. tx' = Cmgs(u)
      BY <1>1, <2>1, <2>4, TodoFacts
    <3>2. tx'.name = "CMGS" /\ tx'.num = op[u].num
      BY <3>1 DEF Cmgs
    <3> QED BY <1>1, <2>1, <3>2
  <2>5. CASE Len(todo[u]) = 1
    <3>1. tx' = Text(u)
      BY <1>1, <2>1, <2>5, TodoFacts
    <3>2. tx'.name = "TEXT" /\ tx'.num = op[u].num
      BY <3>1 DEF Text
    <3>3. mode = op[u].num /\ inbox = <<>>
      BY <2>2, <2>5 DEF Phase, LineClear
    <3> QED BY <1>1, <3>2, <3>3
  <2>6. Len(todo[u]) \in {1, 2, 3, 4, 5, 6}
    BY <2>1, TodoFacts, Zenon
  <2>7. \A n \in {1, 2, 3, 4, 5, 6} : n > 2 \/ n = 2 \/ n = 1
    OBVIOUS
  <2> QED BY <2>3, <2>4, <2>5, <2>6, <2>7
<1>3. CASE ~Sms(u)
  <2>1. todo[u] \in Seq(Command) /\ todo[u] # <<>>
    BY <1>1 DEF IInv, TypeOK, SomethingToSend, SendingPcs, TransactPcs
  <2>2. \A i \in DOMAIN todo[u] : todo[u][i].name \notin {"CMGS", "TEXT"}
    BY <1>1, <1>3 DEF TodoOK, SendingPcs, TransactPcs
  <2>3. 1 \in DOMAIN todo[u] /\ Head(todo[u]) = todo[u][1]
    BY <2>1
  <2> QED BY <1>1, <2>2, <2>3
<1> QED BY <1>2, <1>3

LEMMA NoCmdName == NoCmd.name = "none"
BY DEF NoCmd

LEMMA WireTaskStep ==
  ASSUME IInv, WireOK, NEW u \in Tasks, TodoOK(u), Phase(u), Enter(u) \/ Proceed(u)
  PROVE  WireOK'
<1>1. UNCHANGED <<mode, inbox, out, urcs, accepted>>
  BY TaskFrame DEF IInv, ModuleAlone
<1>2. CASE Quiet(u)
  <2>1. UNCHANGED <<buf, half>> /\ idleSize' \in {idleSize, 0} /\ (rx' # "ready" => rx # "ready")
        /\ tx' \in {tx, NoCmd}
    BY <1>2 DEF Quiet
  <2>2. WireTypeOK'
    BY <1>1, <2>1 DEF WireOK, WireTypeOK, AtMostOne
  <2>3. TextInOrder' /\ NumbersGiven' /\ PromptCollects'
    BY <1>1, <2>1, NoCmdName DEF WireOK, TextInOrder, NumbersGiven, PromptCollects
  <2> QED BY <2>2, <2>3 DEF WireOK
<1>3. CASE Arm(u)
  <2>1. buf' = <<>> /\ half' = FALSE /\ UNCHANGED <<tx, idleSize>>
    BY <1>3 DEF Arm, isrVars
  <2>2. WireTypeOK'
    BY <1>1, <2>1 DEF WireOK, WireTypeOK, AtMostOne
  <2>3. TextInOrder' /\ NumbersGiven' /\ PromptCollects'
    BY <1>1, <2>1 DEF WireOK, TextInOrder, NumbersGiven, PromptCollects
  <2> QED BY <2>2, <2>3 DEF WireOK
<1>4. CASE Send(u)
  <2>1. /\ UNCHANGED <<idleSize, rx, buf, half>>
        /\ tx'.name = "TEXT" => mode = tx'.num /\ inbox = <<>>
        /\ tx'.name = "CMGS" => tx'.num \in Numbers
    BY <1>4, SendKind
  <2>2. WireTypeOK'
    BY <1>1, <2>1 DEF WireOK, WireTypeOK, AtMostOne
  <2>3. TextInOrder' /\ NumbersGiven' /\ PromptCollects'
    BY <1>1, <2>1 DEF WireOK, TextInOrder, NumbersGiven, PromptCollects
  <2> QED BY <2>2, <2>3 DEF WireOK
<1> QED BY <1>2, <1>3, <1>4, TaskWire

\* The module receives the command, or drops it.
LEMMA ReceivesFacts ==
  ASSUME IInv, WireOK, TxDone
  PROVE  /\ tx # NoCmd /\ tx' = NoCmd
         /\ UNCHANGED <<idleSize, rx, buf, half, mode, out, urcs, accepted>>
         /\ inbox' \in Seq(Command) /\ Len(inbox') <= MaxBacklog
         /\ inbox' = inbox \/ Len(inbox') = Len(inbox) + 1
         /\ \A i \in DOMAIN inbox' :
              \/ i \in DOMAIN inbox /\ inbox'[i] = inbox[i]
              \/ i = Len(inbox) + 1 /\ i = Len(inbox') /\ inbox'[i] = tx
<1>1. /\ tx # NoCmd /\ tx' = NoCmd
      /\ inbox' = IF Len(inbox) < MaxBacklog THEN Append(inbox, tx) ELSE inbox
      /\ UNCHANGED <<idleSize, rx, buf, half, mode, out, urcs, accepted>>
  BY DEF TxDone, EndTransmit, isrVars
<1>2. tx \in Command /\ inbox \in Seq(Command) /\ Len(inbox) <= MaxBacklog
  BY <1>1 DEF IInv, TypeOK, WireOK, WireTypeOK
<1>3. Len(inbox) \in Nat /\ MaxBacklog \in Nat /\ DOMAIN inbox = 1..Len(inbox)
  BY <1>2, ConstantsAssumption
<1>4. CASE Len(inbox) < MaxBacklog
  <2>1. inbox' = Append(inbox, tx)
    BY <1>1, <1>4
  <2>2. /\ inbox' \in Seq(Command) /\ Len(inbox') = Len(inbox) + 1
        /\ DOMAIN inbox' = 1..(Len(inbox) + 1)
        /\ \A i \in 1..Len(inbox) : inbox'[i] = inbox[i]
        /\ inbox'[Len(inbox) + 1] = tx
    BY <1>2, <2>1
  <2>3. \A i \in DOMAIN inbox' : i \in 1..Len(inbox) \/ i = Len(inbox) + 1
    BY <1>3, <2>2
  <2>4. \A i \in DOMAIN inbox' :
              \/ i \in DOMAIN inbox /\ inbox'[i] = inbox[i]
              \/ i = Len(inbox) + 1 /\ i = Len(inbox') /\ inbox'[i] = tx
    BY <1>3, <2>2, <2>3, Zenon
  <2>5. Len(inbox') <= MaxBacklog
    BY <1>3, <1>4, <2>2
  <2> QED BY <1>1, <2>2, <2>4, <2>5
<1>5. CASE ~(Len(inbox) < MaxBacklog)
  BY <1>1, <1>2, <1>5
<1> QED BY <1>4, <1>5

\* A command that is answered: the ones behind it move up.
LEMMA TailFacts ==
  ASSUME WireOK, inbox # <<>>, inbox' = Tail(inbox)
  PROVE  /\ 1 \in DOMAIN inbox /\ Head(inbox) = inbox[1]
         /\ inbox' \in Seq(Command) /\ Len(inbox') = Len(inbox) - 1 /\ Len(inbox) \in Nat
         /\ \A i \in DOMAIN inbox' : /\ i \in Nat \ {0} /\ i + 1 \in DOMAIN inbox
                                     /\ inbox'[i] = inbox[i + 1]
<1>1. inbox \in Seq(Command)
  BY DEF WireOK, WireTypeOK
<1> QED BY <1>1

LEMMA WireModuleStep ==
  ASSUME IInv, WireOK, SlowModule, Interrupt \/ Module
  PROVE  WireOK'
<1>1. CASE TxDone
  <2>1. /\ tx' = NoCmd /\ UNCHANGED <<idleSize, rx, buf, half, mode, out, urcs>>
        /\ inbox' \in Seq(Command) /\ Len(inbox') <= MaxBacklog
        /\ \A i \in DOMAIN inbox' :
              \/ i \in DOMAIN inbox /\ inbox'[i] = inbox[i]
              \/ i = Len(inbox) + 1 /\ inbox'[i] = tx
    BY <1>1, ReceivesFacts
  <2>2. WireTypeOK'
    BY <2>1 DEF WireOK, WireTypeOK, AtMostOne
  <2>3. TextInOrder'
    <3>1. ASSUME NEW i \in DOMAIN inbox', inbox'[i].name = "TEXT"
          PROVE  i = 1 /\ mode = inbox'[i].num
      <4>1. CASE i \in DOMAIN inbox /\ inbox'[i] = inbox[i]
        BY <3>1, <4>1 DEF WireOK, TextInOrder
      <4>2. CASE i = Len(inbox) + 1 /\ inbox'[i] = tx
        <5>1. mode = tx.num /\ inbox = <<>>
          BY <3>1, <4>2 DEF WireOK, TextInOrder
        <5> QED BY <4>2, <5>1
      <4> QED BY <2>1, <4>1, <4>2
    <3> QED BY <2>1, <3>1, NoCmdName DEF TextInOrder
  <2>4. NumbersGiven' /\ PromptCollects'
    BY <2>1, NoCmdName DEF WireOK, NumbersGiven, PromptCollects
  <2> QED BY <2>2, <2>3, <2>4 DEF WireOK
<1>2. CASE RxHalf
  BY <1>2, NoHalf DEF WireOK
<1>3. CASE RxEnd
  <2>1. /\ rx' = "ready" /\ out' = <<>> /\ buf' \in {<<>>, out} /\ idleSize' \in Nat
        /\ UNCHANGED <<half, tx, mode, inbox, urcs, accepted>>
    BY <1>3, EndEffect DEF WireOK
  <2>2. WireTypeOK'
    BY <2>1 DEF WireOK, WireTypeOK, AtMostOne
  <2>3. TextInOrder' /\ NumbersGiven' /\ PromptCollects'
    BY <2>1 DEF WireOK, TextInOrder, NumbersGiven, PromptCollects
  <2> QED BY <2>2, <2>3 DEF WireOK
<1>4. CASE RxError \/ BurstLost
  <2>1. /\ rx' = "ready" /\ out' = <<>>
        /\ UNCHANGED <<idleSize, buf, half, tx, mode, inbox, urcs, accepted>>
    BY <1>4 DEF RxError, BurstLost, isrVars, uartVars
  <2>2. WireTypeOK'
    BY <2>1 DEF WireOK, WireTypeOK, AtMostOne
  <2>3. TextInOrder' /\ NumbersGiven' /\ PromptCollects'
    BY <2>1 DEF WireOK, TextInOrder, NumbersGiven, PromptCollects
  <2> QED BY <2>2, <2>3 DEF WireOK
<1>5. CASE ModuleAnswers
  <2>1. /\ inbox # <<>> /\ out = <<>> /\ inbox' = Tail(inbox)
        /\ UNCHANGED <<idleSize, rx, buf, half, tx, urcs>>
        /\ AnswerEffect(Head(inbox))
    BY <1>5, AnswerFacts
  <2>2. /\ 1 \in DOMAIN inbox /\ Head(inbox) = inbox[1]
        /\ inbox' \in Seq(Command) /\ Len(inbox') = Len(inbox) - 1 /\ Len(inbox) \in Nat
        /\ \A i \in DOMAIN inbox' : /\ i \in Nat \ {0} /\ i + 1 \in DOMAIN inbox
                                    /\ inbox'[i] = inbox[i + 1]
    BY <2>1, TailFacts
  <2>3. mode' \in Numbers \cup {NoNumber}
    BY <2>1, <2>2 DEF AnswerEffect, WireOK, WireTypeOK, NumbersGiven
  <2>4. Len(inbox') <= MaxBacklog
    BY <2>2, ConstantsAssumption DEF WireOK, WireTypeOK
  <2>5. AtMostOne(out') /\ out' # <<"URC">> /\ PromptCollects'
    BY <2>1 DEF AnswerEffect, PromptCollects
  <2>6. WireTypeOK'
    BY <2>1, <2>2, <2>3, <2>4, <2>5 DEF WireOK, WireTypeOK, AtMostOne
  <2>7. \A i \in DOMAIN inbox' : inbox'[i].name # "TEXT"
    BY <2>2 DEF WireOK, TextInOrder
  <2>8. tx.name # "TEXT"
    BY <2>1 DEF WireOK, TextInOrder
  <2>9. TextInOrder'
    BY <2>1, <2>7, <2>8 DEF TextInOrder
  <2>10. NumbersGiven'
    BY <2>1, <2>2 DEF WireOK, NumbersGiven
  <2> QED BY <2>5, <2>6, <2>9, <2>10 DEF WireOK
<1>6. CASE ModuleSpeaks
  <2>1. /\ out' = <<"URC">> /\ MaxUrc # 0 /\ urcs' \in Nat
        /\ UNCHANGED <<idleSize, rx, buf, half, tx, mode, inbox>>
    BY <1>6, SpeaksFacts
  <2>2. AtMostOne(out') /\ out' # <<"PROMPT">>
    BY <2>1 DEF AtMostOne, Responses
  <2>3. WireTypeOK'
    BY <2>1, <2>2 DEF WireOK, WireTypeOK, AtMostOne
  <2>4. TextInOrder' /\ NumbersGiven' /\ PromptCollects'
    BY <2>1, <2>2 DEF WireOK, TextInOrder, NumbersGiven, PromptCollects
  <2> QED BY <2>3, <2>4 DEF WireOK
<1> QED BY <1>1, <1>2, <1>3, <1>4, <1>5, <1>6 DEF Interrupt, Module
-----------------------------------------------------------------------------
(* The phases: what does not disturb them *)

\* A step that leaves what a phase reads alone
LEMMA PhaseSame ==
  ASSUME NEW t, Phase(t), Hopeful(t)' => Hopeful(t), Unsent(t)' <=> Unsent(t), Ok(t)' <=> Ok(t),
         Received(t)' = Received(t), op'[t] = op[t], todo'[t] = todo[t], calls'[t] = calls[t],
         UNCHANGED <<tx, mode, inbox, out, accepted>>
  PROVE  Phase(t)'
<1>1. Checks(t)' = Checks(t)
  BY DEF Checks
<1>2. Credit(t)' = Credit(t)
  BY <1>1 DEF Credit
<1>3. Cmgs(t)' = Cmgs(t) /\ Text(t)' = Text(t) /\ (Recorded(t)' <=> Recorded(t))
  BY DEF Cmgs, Text, Recorded
<1>4. (Searching(t)' <=> Searching(t)) /\ (Prompting(t)' <=> Prompting(t))
  BY DEF Searching, Prompting
<1>5. OthersFar(t) => OthersFar(t)'
  BY <1>1, <1>2 DEF OthersFar
<1>6. OwnPrompt(t) => OwnPrompt(t)'
  BY <1>3 DEF OwnPrompt
<1>7. LineClear(t) => LineClear(t)'
  BY DEF LineClear
<1>8. OwnConfirmation(t) => OwnConfirmation(t)'
  BY <1>3 DEF OwnConfirmation
<1> QED BY <1>4, <1>5, <1>6, <1>7, <1>8 DEF Phase

\* The phases of a send_sms() belong to the session it is in: the steps of
\* other tasks leave the wire alone.
LEMMA OthersQuiet ==
  ASSUME IInv, NEW t \in Tasks, NEW u \in Tasks \ {t}, Hopeful(t), Enter(u) \/ Proceed(u)
  PROVE  UNCHANGED <<tx, buf>>
<1>1. pc[t] \in SessionPcs /\ op[t].name # "init"
  BY DEF Hopeful, Ok, Sms, SessionPcs
<1>2. mutexOwner = t
  BY <1>1 DEF IInv, LockDiscipline, InsideMeansOwner
<1>3. pc[t] # "idle"
  BY <1>1 DEF SessionPcs
<1>4. pc[u] \notin SessionPcs
  <2>1. CASE op[u].name = "init"
    BY <1>3, <2>1 DEF IInv, LockDiscipline, InitAlone, SessionPcs
  <2>2. CASE op[u].name # "init"
    BY <1>2, <2>2 DEF IInv, LockDiscipline, InsideMeansOwner
  <2> QED BY <2>1, <2>2
<1>5. ~Arm(u) /\ ~Send(u)
  BY <1>4 DEF Arm, Send, SessionPcs
<1> QED BY <1>3, <1>4, <1>5, TaskWire DEF Quiet

LEMMA PhaseOtherStep ==
  ASSUME IInv, NEW t \in Tasks, NEW u \in Tasks \ {t}, Phase(t), Enter(u) \/ Proceed(u)
  PROVE  Phase(t)'
<1>1. Untouched(t) /\ ModuleAlone
  BY TaskFrame DEF IInv
<1>2. /\ Hopeful(t)' <=> Hopeful(t)
      /\ Unsent(t)' <=> Unsent(t)
      /\ Ok(t)' <=> Ok(t)
  BY <1>1 DEF Untouched, Hopeful, Unsent, Ok, Sms
<1>3. CASE Hopeful(t)
  <2>1. UNCHANGED <<tx, buf>>
    BY <1>3, OthersQuiet
  <2>2. Received(t)' = Received(t)
    BY <1>1, <2>1 DEF Untouched, Received
  <2> QED BY <1>1, <1>2, <2>1, <2>2, PhaseSame DEF Untouched, ModuleAlone
<1>4. CASE ~Hopeful(t)
  BY <1>2, <1>4 DEF Phase
<1> QED BY <1>3, <1>4
-----------------------------------------------------------------------------
(* The phases: the steps of the task itself *)

\* Where a hopeful send_sms() stands
LEMMA HopefulFacts ==
  ASSUME NEW t, TodoOK(t), Hopeful(t)
  PROVE  /\ Sms(t) /\ todo[t] \in SmsTodos(t) /\ op[t].num \in Numbers
         /\ Len(todo[t]) \in {1, 2, 3, 4, 5, 6}
<1>1. Sms(t) /\ pc[t] \in SendingPcs /\ pc[t] # "take"
  BY DEF Hopeful, Ok, SendingPcs, TransactPcs
<1>2. todo[t] \in SmsTodos(t) /\ op[t].num \in Numbers
  BY <1>1 DEF TodoOK
<1> QED BY <1>1, <1>2, TodoFacts, Zenon

LEMMA PhaseTake ==
  ASSUME IInv, WireOK, SlowModule, NEW t \in Tasks, TodoOK(t), TakeMutex(t)
  PROVE  Phase(t)'
<1>1. /\ pc[t] = "take" /\ pc'[t] = "next"
      /\ UNCHANGED <<op, todo, calls, tx, buf, mode, inbox, out, accepted>>
  BY DEF TakeMutex, Goto, IInv, TypeOK, uartVars, moduleVars
<1>2. CASE Sms(t)
  <2>1. Len(todo[t]) = 6 /\ Len(todo'[t]) = 6
    BY <1>1, <1>2 DEF TodoOK, SendingPcs
  <2>2. ~Ok(t)' /\ Unsent(t)' /\ Received(t)' = <<>>
    BY <1>1 DEF Ok, Unsent, Received
  <2>3. Checks(t)' = 0
    BY <2>1, <2>2 DEF Checks
  <2>4. Progress(0) = 0 /\ Worth(<<>>) = 0 /\ Worth(out') \in {0, 1}
    BY ProgressFacts, WorthFacts
  <2>5. Credit(t)' \in {0, 1}
    BY <2>2, <2>3, <2>4 DEF Credit
  <2>6. \A i \in DOMAIN inbox : i - 1 <= MaxBacklog
    BY ConstantsAssumption DEF WireOK, WireTypeOK
  <2>7. \A i \in DOMAIN inbox' : Credit(t)' + (i - 1) <= MaxBacklog + 1
    BY <1>1, <2>5, <2>6, ConstantsAssumption DEF WireOK, WireTypeOK
  <2>8. Credit(t)' <= MaxBacklog + 1
    BY <2>5, ConstantsAssumption
  <2>9. Received(t)' # <<"PROMPT">>
    BY <2>2
  <2>10. OthersFar(t)'
    BY <2>2, <2>3, <2>7, <2>8, <2>9 DEF OthersFar
  <2>11. ~Prompting(t)' /\ Len(todo'[t]) # 1
    BY <2>1 DEF Prompting
  <2> QED BY <2>10, <2>11 DEF Phase
<1>3. CASE ~Sms(t)
  BY <1>1, <1>3 DEF Phase, Hopeful, Sms
<1> QED BY <1>2, <1>3

\* The steps that fail a send_sms(), or leave it
LEMMA PhaseLost ==
  ASSUME NEW t, ~Hopeful(t)' PROVE Phase(t)'
BY DEF Phase

\* With all the checks behind it, a send_sms() shares the wire with nobody.
LEMMA NobodyElse ==
  ASSUME WireOK, SlowModule, NEW t, TodoOK(t), Hopeful(t), Unsent(t), Len(todo[t]) = 2, OthersFar(t)
  PROVE  /\ mode = NoNumber /\ tx.name # "CMGS" /\ out # <<"PROMPT">> /\ Received(t) # <<"PROMPT">>
         /\ \A i \in DOMAIN inbox : inbox[i].name # "CMGS"
<1>1. ~Ok(t)
  BY DEF Ok, Unsent
<1>2. Checks(t) = 4
  BY <1>1 DEF Checks
<1>3. /\ Progress(4) = Gates /\ Gates \in Nat /\ MaxBacklog + 1 < Gates /\ MaxBacklog \in Nat
      /\ Worth(out) \in {0, 1} /\ Worth(Received(t)) \in {0, 1}
  BY ProgressFacts, GatesPassed, WorthFacts, ConstantsAssumption
<1>4. Credit(t) > MaxBacklog + 1
  BY <1>2, <1>3 DEF Credit
<1>5. Credit(t) \in Nat
  BY <1>2, <1>3 DEF Credit
<1>6. ASSUME NEW i \in DOMAIN inbox PROVE inbox[i].name # "CMGS"
  <2>1. i \in Nat /\ i >= 1
    BY DEF WireOK, WireTypeOK
  <2>2. ~(Credit(t) + (i - 1) <= MaxBacklog + 1)
    BY <1>3, <1>4, <1>5, <2>1
  <2> QED BY <2>2 DEF OthersFar
<1>7. mode = NoNumber
  BY <1>3, <1>4, <1>5 DEF OthersFar
<1> QED BY <1>2, <1>6, <1>7 DEF OthersFar, WireOK, PromptCollects

LEMMA PhaseSend ==
  ASSUME IInv, WireOK, SlowModule, NEW t \in Tasks, TodoOK(t), Phase(t), Send(t)
  PROVE  Phase(t)'
<1>1. /\ pc[t] = "send" /\ pc'[t] = "wait" /\ tx = NoCmd /\ tx' = Head(todo[t])
      /\ UNCHANGED <<buf, op, todo, calls, mode, inbox, out, accepted>>
  BY DEF Send, Goto, IInv, TypeOK, moduleVars
<1>2. CASE ~Sms(t)
  BY <1>1, <1>2 DEF Phase, Hopeful, Sms
<1>3. CASE Sms(t)
  <2>1. Hopeful(t) /\ Unsent(t) /\ ~Ok(t) /\ Received(t) = buf
    BY <1>1, <1>3 DEF Hopeful, Unsent, Ok, Received
  <2>2. ~Unsent(t)' /\ ~Ok(t)' /\ Received(t)' = Received(t)
    BY <1>1, <2>1 DEF Unsent, Ok, Received
  <2>3. todo[t] \in SmsTodos(t) /\ op[t].num \in Numbers /\ Len(todo[t]) \in {1, 2, 3, 4, 5, 6}
    BY <2>1, HopefulFacts
  <2>4. CASE Len(todo[t]) \in {3, 4, 5, 6}
    <3>1. Len(todo[t]) > 2 /\ Len(todo[t]) # 2 /\ Len(todo[t]) # 1
      BY <2>4, CheckLeft, Zenon
    <3>2. tx'.name # "CMGS"
      BY <1>1, <2>3, <3>1, TodoFacts
    <3>3. OthersFar(t)
      BY <2>1, <3>1 DEF Phase, Searching
    <3>4. Checks(t)' = Checks(t) /\ Credit(t)' = Credit(t)
      BY <1>1, <2>1, <2>2 DEF Checks, Credit
    <3>5. OthersFar(t)'
      BY <1>1, <3>1, <3>2, <3>3, <3>4 DEF OthersFar
    <3>6. ~Prompting(t)' /\ Len(todo'[t]) # 1
      BY <1>1, <3>1 DEF Prompting
    <3> QED BY <3>5, <3>6 DEF Phase
  <2>5. CASE Len(todo[t]) = 2
    <3>1. OthersFar(t)
      BY <2>1, <2>5 DEF Phase, Searching
    <3>2. /\ mode = NoNumber /\ Received(t) # <<"PROMPT">>
          /\ \A i \in DOMAIN inbox : inbox[i].name # "CMGS"
      BY <2>1, <2>5, <3>1, NobodyElse
    <3>3. tx' = Cmgs(t) /\ Cmgs(t)' = Cmgs(t)
      BY <1>1, <2>3, <2>5, TodoFacts DEF Cmgs
    <3>4. OwnPrompt(t)'
      BY <1>1, <2>2, <3>2, <3>3 DEF OwnPrompt
    <3>5. ~Searching(t)' /\ Len(todo'[t]) # 1
      BY <1>1, <2>2, <2>5 DEF Searching
    <3> QED BY <3>4, <3>5 DEF Phase
  <2>6. CASE Len(todo[t]) = 1
    <3>1. LineClear(t)
      BY <2>1, <2>6 DEF Phase
    <3>2. tx' = Text(t) /\ Text(t)' = Text(t)
      BY <1>1, <2>3, <2>6, TodoFacts DEF Text
    <3>3. <<"CMGS">> \notin {<<>>, <<"URC">>}
      OBVIOUS
    <3>4. OwnConfirmation(t)'
      BY <1>1, <2>2, <3>1, <3>2, <3>3 DEF OwnConfirmation, LineClear
    <3>5. ~Searching(t)' /\ ~Prompting(t)'
      BY <1>1, <2>6 DEF Searching, Prompting
    <3> QED BY <2>2, <3>4, <3>5 DEF Phase
  <2> QED BY <2>3, <2>4, <2>5, <2>6
<1> QED BY <1>2, <1>3

\* A verdict that lets a send_sms() go on
LEMMA ViewAccepts ==
  ASSUME IInv, WireOK, NEW t \in Tasks, View(t), outcome'[t] = "ok"
  PROVE  \E s \in {<<>>, buf} : AtMostOne(s) /\ Accepts(Head(todo[t]).name, s, idleSize)
<1> DEFINE s == Within(buf, idleSize)
<1>1. Accepts(Head(todo[t]).name, s, idleSize)
  BY DEF View, IInv, TypeOK
<1>2. AtMostOne(buf) /\ idleSize \in Nat
  BY DEF WireOK, WireTypeOK
<1>3. s = <<>> \/ s = buf
  BY <1>2, WithinOne
<1>4. AtMostOne(<<>>)
  BY DEF AtMostOne
<1> HIDE DEF s
<1> QED BY <1>1, <1>2, <1>3, <1>4

LEMMA PhaseView ==
  ASSUME IInv, WireOK, SlowModule, NEW t \in Tasks, TodoOK(t), Phase(t), View(t)
  PROVE  Phase(t)'
<1>1. /\ pc[t] = "view" /\ pc'[t] = "clean1"
      /\ UNCHANGED <<tx, buf, op, todo, calls, mode, inbox, out, accepted>>
  BY DEF View, Goto, IInv, TypeOK, moduleVars, uartVars
<1>2. CASE ~Sms(t) \/ outcome'[t] # "ok"
  BY <1>1, <1>2, PhaseLost DEF Hopeful, Sms, Ok
<1>3. CASE Sms(t) /\ outcome'[t] = "ok"
  <2>1. Hopeful(t) /\ ~Unsent(t) /\ ~Ok(t) /\ Received(t) = buf
    BY <1>1, <1>3 DEF Hopeful, Unsent, Ok, Received
  <2>2. ~Unsent(t)' /\ Ok(t)' /\ Received(t)' = <<>>
    BY <1>1, <1>3 DEF Unsent, Ok, Received
  <2>3. todo[t] \in SmsTodos(t) /\ op[t].num \in Numbers /\ Len(todo[t]) \in {1, 2, 3, 4, 5, 6}
    BY <2>1, HopefulFacts
  <2>4. PICK s \in {<<>>, buf} : AtMostOne(s) /\ Accepts(Head(todo[t]).name, s, idleSize)
    BY <1>3, ViewAccepts
  <2>5. CASE Len(todo[t]) \in {3, 4, 5, 6}
    <3>1. Len(todo[t]) > 2 /\ Len(todo[t]) # 2 /\ Len(todo[t]) # 1
      BY <2>5, CheckLeft, Zenon
    <3>2. Head(todo[t]).name \in {"AT", "CHECK_SIM", "CHECK_REG", "CHECK_SIGNAL"}
      BY <2>3, <3>1, TodoFacts
    <3>3. s \notin {<<>>, <<"PROMPT">>} /\ (Head(todo[t]).name # "CHECK_REG" => s # <<"URC">>)
      BY <2>4, <3>2, CheckAccepts
    <3>4. s = buf
      BY <2>4, <3>3
    <3>5. Head(todo[t]).name = "CHECK_REG" <=> Len(todo[t]) = 4
      BY <2>3, TodoFacts
    <3>6. OthersFar(t)
      BY <2>1, <3>1 DEF Phase, Searching
    <3>7. Checks(t) \in 0..3 /\ Checks(t)' = Checks(t) + 1 /\ (Checks(t) = 2 <=> Len(todo[t]) = 4)
      <4>1. 6 - Len(todo[t]) \in 0..3 /\ (6 - Len(todo[t]) = 2 <=> Len(todo[t]) = 4)
        BY <2>5, CheckLeft, Zenon
      <4>2. Checks(t) = 6 - Len(todo[t]) + 0 /\ Checks(t)' = 6 - Len(todo[t]) + 1
        BY <1>1, <2>1, <2>2, Zenon DEF Checks
      <4>3. ASSUME NEW n \in 0..3 PROVE n + 0 = n
        OBVIOUS
      <4> QED BY <4>1, <4>2, <4>3, Zenon
    <3>8. /\ Progress(Checks(t)) \in 0..3
          /\ Progress(Checks(t)') = IF Checks(t) = 2 /\ MaxUrc # 0 THEN Progress(Checks(t))
                                                                  ELSE Progress(Checks(t)) + 1
      BY <3>7, ProgressFacts
    <3>9. Worth(buf) \in {0, 1} /\ Worth(out) \in {0, 1} /\ Worth(<<>>) = 0
      BY WorthFacts
    <3>10. Checks(t) # 2 \/ MaxUrc = 0 => buf # <<"URC">>
      BY <3>3, <3>4, <3>5, <3>7 DEF WireOK, WireTypeOK
    <3>11. Checks(t) # 2 \/ MaxUrc = 0 => Worth(buf) = 1
      BY <3>3, <3>4, <3>10, WorthFacts
    <3>12. Progress(Checks(t)') <= Progress(Checks(t)) + Worth(buf)
      BY <3>8, <3>9, <3>11
    <3>13. /\ Credit(t)' = Progress(Checks(t)') + Worth(out) + 0
           /\ Credit(t) = Progress(Checks(t)) + Worth(out) + Worth(buf)
      BY <1>1, <2>1, <2>2, <3>9 DEF Credit
    <3>14. Credit(t)' <= Credit(t) /\ Credit(t) \in Nat /\ Credit(t)' \in Nat
      BY <3>8, <3>9, <3>12, <3>13
    <3>15. tx.name # "CMGS"
      BY <2>1, <3>6 DEF OthersFar
    <3>16. \A i \in DOMAIN inbox : i \in Nat
      BY DEF WireOK, WireTypeOK
    <3>17. \A i \in DOMAIN inbox : inbox[i].name = "CMGS" => Credit(t)' + (i - 1) <= MaxBacklog + 1
      BY <3>6, <3>14, <3>16, ConstantsAssumption DEF OthersFar
    <3>18. mode # NoNumber => Credit(t)' <= MaxBacklog + 1
      BY <3>6, <3>14, ConstantsAssumption DEF OthersFar
    <3>19. OthersFar(t)'
      BY <1>1, <3>1, <3>15, <3>17, <3>18 DEF OthersFar
    <3>20. ~Prompting(t)' /\ Len(todo'[t]) # 1
      BY <1>1, <3>1 DEF Prompting
    <3> QED BY <3>19, <3>20 DEF Phase
  <2>6. CASE Len(todo[t]) = 2
    <3>1. Head(todo[t]).name = "CMGS"
      <4>1. Head(todo[t]) = Cmgs(t)
        BY <2>3, <2>6, TodoFacts, Zenon
      <4> QED BY <4>1 DEF Cmgs
    <3>2. s = <<"PROMPT">> /\ s # <<>>
      BY <2>4, <3>1, NumberAccepts
    <3>3. Received(t) = <<"PROMPT">>
      BY <2>1, <2>4, <3>2
    <3>4. OwnPrompt(t)
      BY <2>1, <2>6 DEF Phase, Prompting
    <3>5. Cmgs(t)' = Cmgs(t)
      BY <1>1 DEF Cmgs
    <3>6. OwnPrompt(t)'
      BY <1>1, <3>3, <3>4, <3>5 DEF OwnPrompt
    <3>7. ~Searching(t)' /\ Len(todo'[t]) # 1
      BY <1>1, <2>2, <2>6 DEF Searching
    <3> QED BY <3>6, <3>7 DEF Phase
  <2>7. CASE Len(todo[t]) = 1
    <3>1. Head(todo[t]).name = "TEXT"
      <4>1. Head(todo[t]) = Text(t)
        BY <2>3, <2>7, TodoFacts, Zenon
      <4> QED BY <4>1 DEF Text
    <3>2. s = <<"CMGS">> /\ s # <<>>
      BY <2>4, <3>1, TextAccepts
    <3>3. Received(t) = <<"CMGS">>
      BY <2>1, <2>4, <3>2
    <3>4. OwnConfirmation(t)
      BY <2>1, <2>7 DEF Phase
    <3>5. Text(t)' = Text(t) /\ Recorded(t)' = Recorded(t)
      BY <1>1 DEF Text, Recorded
    <3>6. OwnConfirmation(t)'
      BY <1>1, <3>3, <3>4, <3>5 DEF OwnConfirmation
    <3>7. ~Searching(t)' /\ ~Prompting(t)'
      BY <1>1, <2>7 DEF Searching, Prompting
    <3> QED BY <2>2, <3>6, <3>7 DEF Phase
  <2> QED BY <2>3, <2>5, <2>6, <2>7
<1> QED BY <1>2, <1>3

\* The next command
LEMMA PhaseNext ==
  ASSUME IInv, NEW t \in Tasks, TodoOK(t), Phase(t), JudgeOk(t), Len(todo[t]) # 1
  PROVE  Phase(t)'
<1>1. /\ pc[t] = "judge" /\ outcome[t] = "ok" /\ pc'[t] = "next" /\ todo'[t] = Tail(todo[t])
      /\ UNCHANGED <<tx, buf, op, calls, mode, inbox, out, accepted>>
  BY DEF JudgeOk, Goto, IInv, TypeOK, moduleVars, uartVars
<1>2. CASE ~Sms(t)
  BY <1>1, <1>2, PhaseLost DEF Hopeful, Sms
<1>3. CASE Sms(t)
  <2>1. Hopeful(t) /\ ~Unsent(t) /\ Ok(t) /\ Received(t) = <<>>
    BY <1>1, <1>3 DEF Hopeful, Unsent, Ok, Received
  <2>2. Unsent(t)' /\ ~Ok(t)' /\ Received(t)' = <<>>
    BY <1>1 DEF Unsent, Ok, Received
  <2>3. todo[t] \in SmsTodos(t) /\ op[t].num \in Numbers /\ Len(todo[t]) \in {1, 2, 3, 4, 5, 6}
    BY <2>1, HopefulFacts
  <2>4. Len(todo'[t]) = Len(todo[t]) - 1
    BY <1>1, <2>3, TodoFacts
  <2>5. CASE Len(todo[t]) \in {3, 4, 5, 6}
    <3>1. Len(todo[t]) > 2 /\ Len(todo'[t]) \in {2, 3, 4, 5} /\ Len(todo'[t]) # 1
      BY <2>4, <2>5, CheckLeft, Zenon
    <3>2. OthersFar(t)
      BY <2>1, <3>1 DEF Phase, Searching
    <3>3. Checks(t)' = Checks(t)
      BY <2>1, <2>2, <2>4, <2>5 DEF Checks
    <3>4. Credit(t)' = Credit(t)
      BY <1>1, <2>1, <2>2, <3>3 DEF Credit
    <3>5. tx.name # "CMGS"
      BY <2>1, <3>2 DEF OthersFar
    <3>6. Received(t)' # <<"PROMPT">>
      BY <2>2
    <3>7. OthersFar(t)'
      BY <1>1, <3>2, <3>4, <3>5, <3>6 DEF OthersFar
    <3>8. ~Prompting(t)' /\ Len(todo'[t]) # 1
      BY <2>2, <3>1 DEF Prompting
    <3> QED BY <3>7, <3>8 DEF Phase
  <2>6. CASE Len(todo[t]) = 2
    <3>1. OwnPrompt(t)
      BY <2>1, <2>6 DEF Phase, Prompting
    <3>2. LineClear(t)'
      BY <1>1, <2>1, <2>2, <3>1 DEF OwnPrompt, LineClear
    <3>3. Len(todo'[t]) = 1
      BY <2>4, <2>6
    <3>4. ~Searching(t)' /\ ~Prompting(t)'
      BY <3>3 DEF Searching, Prompting
    <3> QED BY <2>2, <3>2, <3>4 DEF Phase
  <2> QED BY <2>3, <2>5, <2>6
<1> QED BY <1>2, <1>3

\* All the steps of a task, for itself
LEMMA PhaseOwnStep ==
  ASSUME IInv, WireOK, SlowModule, NEW t \in Tasks, TodoOK(t), LabelOK(t), Phase(t),
         Enter(t) \/ Proceed(t)
  PROVE  Phase(t)'
<1>0. TypeOK
  BY DEF IInv
<1>1. ASSUME pc'[t] \notin {"next", "arm", "send", "wait", "view", "clean1", "clean2", "judge"}
      PROVE  Phase(t)'
  BY <1>1, PhaseLost DEF Hopeful, Ok
<1>2. ASSUME NEW res, Leave(t, res) PROVE Phase(t)'
  BY <1>0, <1>1, <1>2, LeaveMoves
<1>3. ASSUME op'[t] = op[t], op[t].name # "send_sms" PROVE Phase(t)'
  BY <1>3, PhaseLost DEF Hopeful, Sms
<1>4. ASSUME UNCHANGED <<tx, mode, inbox, out, accepted>>, op'[t] = op[t], todo'[t] = todo[t],
             calls'[t] = calls[t], outcome'[t] = outcome[t], UNCHANGED buf,
             \/ pc'[t] = pc[t]
             \/ pc[t] = "next" /\ pc'[t] = "arm"
             \/ pc[t] = "wait" /\ pc'[t] = "view"
             \/ {pc[t], pc'[t]} \subseteq {"clean1", "clean2", "judge"}
      PROVE  Phase(t)'
  <2>1. /\ Hopeful(t)' => Hopeful(t)
        /\ Unsent(t)' <=> Unsent(t)
        /\ Ok(t)' <=> Ok(t)
    BY <1>4 DEF Hopeful, Sms, Unsent, Ok
  <2>2. Received(t)' = Received(t)
    BY <1>4 DEF Received
  <2> QED BY <1>4, <2>1, <2>2, PhaseSame
<1>5. ASSUME Enter(t) PROVE Phase(t)'
  <2>1. PICK o \in Workload : Call(t, o) \/ CallRefused(t, o)
    BY <1>5 DEF Enter
  <2>2. CASE CallRefused(t, o)
    BY <1>0, <1>1, <2>2 DEF CallRefused
  <2>3. CASE Call(t, o) /\ o.name # "init"
    <3>1. pc'[t] = "take"
      BY <1>0, <2>3 DEF Call, Goto, TypeOK
    <3> QED BY <1>1, <3>1
  <2>4. CASE Call(t, o) /\ o.name = "init"
    <3>1. op'[t].name # "send_sms"
      BY <1>0, <2>4 DEF Call, TypeOK
    <3> QED BY <3>1, PhaseLost DEF Hopeful, Sms
  <2> QED BY <2>1, <2>2, <2>3, <2>4
<1>6. ASSUME Locking(t) PROVE Phase(t)'
  <2>1. CASE TakeMutex(t)
    BY <2>1, PhaseTake
  <2>2. CASE TakeTimeout(t) \/ TakeDeleted(t)
    <3>1. pc'[t] = "idle"
      BY <1>0, <2>2 DEF TakeTimeout, TakeDeleted, Goto, TypeOK
    <3> QED BY <1>1, <3>1
  <2>3. CASE NestedTake(t) \/ NestedGive(t)
    BY <1>4, <2>3 DEF NestedTake, NestedGive, taskVars, uartVars, moduleVars
  <2>4. CASE Give(t)
    <3>1. pc'[t] \in {"give", "delete", "idle"}
      BY <1>0, <2>4 DEF Give, Goto, TypeOK
    <3> QED BY <1>1, <3>1
  <2> QED BY <1>6, <2>1, <2>2, <2>3, <2>4 DEF Locking
<1>7. ASSUME Transact(t) PROVE Phase(t)'
  <2>1. CASE Begin(t)
    BY <1>0, <1>4, <2>1 DEF Begin, Goto, TypeOK, uartVars, moduleVars
  <2>2. CASE Arm(t)
    <3>1. /\ pc[t] = "arm" /\ pc'[t] = "send" /\ buf' = <<>>
          /\ op'[t] = op[t] /\ todo'[t] = todo[t] /\ calls'[t] = calls[t]
          /\ UNCHANGED <<tx, mode, inbox, out, accepted>>
      BY <1>0, <2>2 DEF Arm, Goto, TypeOK, moduleVars
    <3>2. /\ Hopeful(t)' => Hopeful(t)
          /\ Unsent(t)' <=> Unsent(t)
          /\ Ok(t)' <=> Ok(t)
      BY <3>1 DEF Hopeful, Sms, Unsent, Ok
    <3>3. Received(t)' = Received(t)
      BY <3>1 DEF Received
    <3> QED BY <3>1, <3>2, <3>3, PhaseSame
  <2>3. CASE ArmFails(t) \/ SendFails(t) \/ Abort(t)
    <3>1. pc'[t] = "clean1" /\ outcome'[t] # "ok"
      BY <1>0, <2>3 DEF ArmFails, SendFails, Abort, Goto, TypeOK
    <3> QED BY <3>1, PhaseLost DEF Hopeful, Ok
  <2>4. CASE Send(t)
    BY <2>4, PhaseSend
  <2>5. CASE TakeNotification(t)
    BY <1>0, <1>4, <2>5 DEF TakeNotification, Goto, TypeOK, uartVars, moduleVars
  <2>6. CASE WaitTimeout(t)
    <3>1. op'[t] = op[t] /\ (op[t].name # "init" => pc'[t] = "abort")
      BY <1>0, <2>6 DEF WaitTimeout, Goto, TypeOK
    <3>2. CASE op[t].name = "init"
      BY <1>3, <3>1, <3>2
    <3>3. CASE op[t].name # "init"
      BY <1>1, <3>1, <3>3
    <3> QED BY <3>2, <3>3
  <2>7. CASE View(t)
    BY <2>7, PhaseView
  <2>8. CASE Clean1(t) \/ Clean2(t)
    BY <1>0, <1>4, <2>8 DEF Clean1, Clean2, Goto, TypeOK, uartVars, moduleVars
  <2> QED BY <1>7, <2>1, <2>2, <2>3, <2>4, <2>5, <2>6, <2>7, <2>8 DEF Transact
<1>8. ASSUME Decide(t) PROVE Phase(t)'
  <2>1. CASE JudgeOk(t) /\ Len(todo[t]) # 1
    BY <2>1, PhaseNext
  <2>2. CASE JudgeOk(t) /\ Len(todo[t]) = 1
    BY <1>2, <2>2 DEF JudgeOk
  <2>3. CASE JudgeFailed(t) /\ PollsSignal(t)
    <3>1. pc'[t] = "sleep"
      BY <1>0, <2>3 DEF JudgeFailed, Goto, TypeOK
    <3> QED BY <1>1, <3>1
  <2>4. CASE JudgeFailed(t) /\ ~PollsSignal(t)
    BY <1>2, <2>4 DEF JudgeFailed
  <2>5. CASE Sleep(t)
    <3>1. op'[t] = op[t] /\ op[t].name = "init"
      BY <2>5 DEF Sleep, LabelOK
    <3> QED BY <1>3, <3>1
  <2>6. CASE JudgeDeinit(t) \/ Teardown(t) \/ DeleteMutex(t) \/ ClearInitialized(t)
    <3>1. pc'[t] \in {"teardown", "give", "clear", "idle"}
      BY <1>0, <2>6 DEF JudgeDeinit, Teardown, DeleteMutex, ClearInitialized, Goto, TypeOK
    <3> QED BY <1>1, <3>1
  <2> QED BY <1>8, <2>1, <2>2, <2>3, <2>4, <2>5, <2>6 DEF Decide
<1> QED BY <1>5, <1>6, <1>7, <1>8 DEF Proceed
-----------------------------------------------------------------------------
(* The phases: interrupts and the module *)

LEMMA TasksStill ==
  ASSUME UNCHANGED taskVars, NEW t
  PROVE  /\ Hopeful(t)' = Hopeful(t)
         /\ Unsent(t)' = Unsent(t)
         /\ Ok(t)' = Ok(t)
         /\ Searching(t)' = Searching(t)
         /\ Prompting(t)' = Prompting(t)
         /\ Checks(t)' = Checks(t) /\ Cmgs(t)' = Cmgs(t) /\ Text(t)' = Text(t)
         /\ Len(todo'[t]) = Len(todo[t]) /\ op'[t].num = op[t].num
         /\ buf' = buf => Received(t)' = Received(t)
         /\ \/ Received(t) = buf /\ Received(t)' = buf'
            \/ Received(t) = <<>> /\ Received(t)' = <<>>
<1>1. UNCHANGED <<pc, op, todo, outcome, calls>>
  BY DEF taskVars
<1>2. Unsent(t)' = Unsent(t) /\ Ok(t)' = Ok(t)
  BY <1>1 DEF Unsent, Ok
<1>3. Hopeful(t)' = Hopeful(t)
  BY <1>1, <1>2, Zenon DEF Hopeful, Sms
<1>4. Searching(t)' = Searching(t) /\ Prompting(t)' = Prompting(t)
  BY <1>1, <1>2, Zenon DEF Searching, Prompting
<1>5. Checks(t)' = Checks(t)
  BY <1>1, <1>2, Zenon DEF Checks
<1>6. Cmgs(t)' = Cmgs(t) /\ Text(t)' = Text(t)
  BY <1>1, Zenon DEF Cmgs, Text
<1>7. \/ Received(t) = buf /\ Received(t)' = buf'
      \/ Received(t) = <<>> /\ Received(t)' = <<>>
  BY <1>1, Zenon DEF Received
<1>8. buf' = buf => Received(t)' = Received(t)
  BY <1>7
<1>9. Len(todo'[t]) = Len(todo[t]) /\ op'[t].num = op[t].num
  BY <1>1, Zenon
<1> QED BY <1>2, <1>3, <1>4, <1>5, <1>6, <1>7, <1>8, <1>9

\* The four phases are one another's alternatives.
LEMMA PhaseStill ==
  ASSUME UNCHANGED taskVars, NEW t, Phase(t),
         (Hopeful(t) /\ Searching(t) /\ OthersFar(t)) => OthersFar(t)',
         (Hopeful(t) /\ Prompting(t) /\ OwnPrompt(t)) => OwnPrompt(t)',
         (Hopeful(t) /\ Len(todo[t]) = 1 /\ Unsent(t) /\ LineClear(t)) => LineClear(t)',
         (Hopeful(t) /\ Len(todo[t]) = 1 /\ OwnConfirmation(t)) => OwnConfirmation(t)'
  PROVE  Phase(t)'
<1>1. SUFFICES ASSUME Hopeful(t)'
      PROVE /\ Searching(t)' => OthersFar(t)'
            /\ Prompting(t)' => OwnPrompt(t)'
            /\ Len(todo'[t]) = 1 => IF Unsent(t)' THEN LineClear(t)' ELSE OwnConfirmation(t)'
  BY Zenon DEF Phase
<1>2. /\ Hopeful(t) /\ Unsent(t)' = Unsent(t) /\ Searching(t)' = Searching(t)
      /\ Prompting(t)' = Prompting(t) /\ Len(todo'[t]) = Len(todo[t])
  BY <1>1, TasksStill, Zenon
<1>3. Searching(t)' => OthersFar(t)'
  BY <1>2, Zenon DEF Phase
<1>4. Prompting(t)' => OwnPrompt(t)'
  BY <1>2, Zenon DEF Phase
<1>5. Len(todo'[t]) = 1 => IF Unsent(t)' THEN LineClear(t)' ELSE OwnConfirmation(t)'
  BY <1>2, Zenon DEF Phase
<1> QED BY <1>3, <1>4, <1>5

LEMMA CreditFacts ==
  ASSUME NEW t, TodoOK(t), Hopeful(t), Searching(t)
  PROVE  /\ Checks(t) \in {0, 1, 2, 3, 4} /\ Progress(Checks(t)) \in {0, 1, 2, 3, 4}
         /\ Checks(t) = 0 => Progress(Checks(t)) = 0
<1>1. Len(todo[t]) \in {1, 2, 3, 4, 5, 6}
  BY HopefulFacts
<1>2. Ok(t) => ~Unsent(t)
  BY DEF Ok, Unsent
<1>3. Len(todo[t]) = 2 => ~Ok(t)
  BY <1>2 DEF Searching
<1>4. Len(todo[t]) # 1
  <2>1. \A n : n = 1 => ~(n > 2) /\ n # 2
    OBVIOUS
  <2> QED BY <2>1, Zenon DEF Searching
<1>5. \A n \in {1, 2, 3, 4, 5, 6} : \A k \in {0, 1} :
         n # 1 /\ (n = 2 => k = 0) => 6 - n + k \in {0, 1, 2, 3, 4}
  OBVIOUS
<1>6. Checks(t) \in {0, 1, 2, 3, 4}
  <2>1. CASE Ok(t)
    <3>1. Checks(t) = 6 - Len(todo[t]) + 1
      BY <2>1, Zenon DEF Checks
    <3> QED BY <1>1, <1>3, <1>4, <1>5, <2>1, <3>1
  <2>2. CASE ~Ok(t)
    <3>1. Checks(t) = 6 - Len(todo[t]) + 0
      BY <2>2, Zenon DEF Checks
    <3> QED BY <1>1, <1>4, <1>5, <3>1
  <2> QED BY <2>1, <2>2
<1> HIDE DEF Checks
<1>7. \A n \in {0, 1, 2, 3, 4} : Progress(n) \in {0, 1, 2, 3, 4} /\ Progress(0) = 0
  BY DEF Progress
<1> QED BY <1>6, <1>7

LEMMA PhaseReceives ==
  ASSUME IInv, WireOK, NEW t, TodoOK(t), Phase(t), TxDone
  PROVE  Phase(t)'
<1>1. /\ tx # NoCmd /\ tx' = NoCmd
      /\ UNCHANGED <<buf, mode, out, accepted>>
      /\ inbox' \in Seq(Command) /\ Len(inbox') <= MaxBacklog
      /\ inbox' = inbox \/ Len(inbox') = Len(inbox) + 1
      /\ \A i \in DOMAIN inbox' :
           \/ i \in DOMAIN inbox /\ inbox'[i] = inbox[i]
           \/ i = Len(inbox) + 1 /\ i = Len(inbox') /\ inbox'[i] = tx
  BY ReceivesFacts
<1>2. UNCHANGED taskVars
  BY WireFrame DEF Interrupt
<1>3. Received(t)' = Received(t) /\ Credit(t)' = Credit(t)
  BY <1>1, <1>2, TasksStill DEF Credit
<1>4. tx'.name = "none"
  BY <1>1, NoCmdName
<1>5. ASSUME Hopeful(t), Searching(t), OthersFar(t) PROVE OthersFar(t)'
  <2>1. ASSUME NEW i \in DOMAIN inbox', inbox'[i].name = "CMGS"
        PROVE  Credit(t) + (i - 1) <= MaxBacklog + 1
    <3>1. CASE i \in DOMAIN inbox /\ inbox'[i] = inbox[i]
      BY <1>5, <2>1, <3>1 DEF OthersFar
    <3>2. CASE i = Len(inbox') /\ inbox'[i] = tx
      <4>1. Checks(t) = 0
        BY <1>5, <2>1, <3>2 DEF OthersFar
      <4>2. Progress(Checks(t)) = 0
        BY <1>5, <4>1, CreditFacts
      <4>3. Worth(out) \in {0, 1} /\ Worth(Received(t)) \in {0, 1}
        BY WorthFacts
      <4>4. Credit(t) \in {0, 1, 2}
        BY <4>2, <4>3 DEF Credit
      <4>5. i \in Nat /\ i <= MaxBacklog
        BY <1>1, <3>2
      <4> QED BY <4>4, <4>5, ConstantsAssumption
    <3> QED BY <1>1, <2>1, <3>1, <3>2
  <2>2. mode' # NoNumber => Credit(t) <= MaxBacklog + 1
    BY <1>1, <1>5 DEF OthersFar
  <2>3. Len(todo'[t]) = 2 => Received(t) # <<"PROMPT">>
    BY <1>2, <1>5, TasksStill DEF OthersFar
  <2> QED BY <1>3, <1>4, <2>1, <2>2, <2>3 DEF OthersFar
<1>6. ASSUME Hopeful(t), Prompting(t), OwnPrompt(t) PROVE OwnPrompt(t)'
  <2>1. tx = Cmgs(t) /\ mode = NoNumber /\ \A i \in DOMAIN inbox : inbox[i].name # "CMGS"
    BY <1>1, <1>6 DEF OwnPrompt
  <2>2. \A i \in DOMAIN inbox' : inbox'[i].name = "CMGS" => i = Len(inbox') /\ inbox'[i] = Cmgs(t)
    BY <1>1, <2>1
  <2>3. Received(t) # <<"PROMPT">> /\ ~Ok(t)
    BY <1>6, <2>1 DEF OwnPrompt
  <2>4. Cmgs(t)' = Cmgs(t) /\ ~Ok(t)'
    BY <1>2, <2>3, TasksStill
  <2> QED BY <1>1, <1>3, <2>1, <2>2, <2>3, <2>4 DEF OwnPrompt
<1>7. ~LineClear(t)
  BY <1>1 DEF LineClear
<1>8. ASSUME Hopeful(t), OwnConfirmation(t) PROVE OwnConfirmation(t)'
  <2>1. tx = Text(t) /\ inbox = <<>>
    BY <1>1, <1>8 DEF OwnConfirmation
  <2>2. inbox' = <<>> \/ inbox' = <<tx>>
    BY <2>1 DEF TxDone, EndTransmit
  <2>3. Recorded(t)' <=> Recorded(t)
    BY <1>1, <1>2 DEF Recorded, taskVars
  <2> QED BY <1>1, <1>2, <1>3, <1>8, <2>1, <2>2, <2>3, TasksStill DEF OwnConfirmation
<1> QED BY <1>2, <1>5, <1>6, <1>7, <1>8, PhaseStill

\* The end of a reception, or a line error or a lost burst: what was on the
\* line is in the buffer now, or gone.
LEMMA PhaseEnds ==
  ASSUME WireOK, SlowModule, NEW t, TodoOK(t), Phase(t), UNCHANGED taskVars, out' = <<>>,
         UNCHANGED buf \/ (buf = <<>> /\ buf' \in {<<>>, out}),
         UNCHANGED <<tx, mode, inbox, accepted>>
  PROVE  Phase(t)'
<1>1. Received(t)' = Received(t) \/ (Received(t) = <<>> /\ Received(t)' \in {<<>>, out})
  BY TasksStill
<1>2. /\ Worth(out) \in {0, 1} /\ Worth(Received(t)) \in {0, 1} /\ Worth(<<>>) = 0
      /\ Worth(Received(t)') \in {0, 1}
  BY WorthFacts
<1>3. Worth(Received(t)') <= Worth(out) + Worth(Received(t))
  BY <1>1, <1>2
<1>4. ASSUME Hopeful(t), Searching(t), OthersFar(t) PROVE OthersFar(t)'
  <2>1. Progress(Checks(t)) \in {0, 1, 2, 3, 4} /\ Checks(t)' = Checks(t)
    BY <1>4, CreditFacts, TasksStill
  <2>2. /\ Credit(t)' = Progress(Checks(t)) + 0 + Worth(Received(t)')
        /\ Credit(t) = Progress(Checks(t)) + Worth(out) + Worth(Received(t))
    BY <1>2, <2>1 DEF Credit
  <2>3. Credit(t)' <= Credit(t) /\ Credit(t) \in Nat /\ Credit(t)' \in Nat
    BY <1>2, <1>3, <2>1, <2>2
  <2>4. \A i \in DOMAIN inbox : i \in Nat
    BY DEF WireOK, WireTypeOK
  <2>5. \A i \in DOMAIN inbox : inbox[i].name = "CMGS" => Credit(t)' + (i - 1) <= MaxBacklog + 1
    BY <1>4, <2>3, <2>4, ConstantsAssumption DEF OthersFar
  <2>6. mode # NoNumber => Credit(t)' <= MaxBacklog + 1
    BY <1>4, <2>3, ConstantsAssumption DEF OthersFar
  <2>7. Len(todo[t]) = 2 => Received(t)' # <<"PROMPT">>
    <3>1. SUFFICES ASSUME Len(todo[t]) = 2 PROVE Received(t)' # <<"PROMPT">>
      OBVIOUS
    <3>2. Unsent(t)
      BY <1>4, <3>1 DEF Searching
    <3>3. out # <<"PROMPT">> /\ Received(t) # <<"PROMPT">>
      BY <1>4, <3>1, <3>2, NobodyElse
    <3>4. <<>> # <<"PROMPT">>
      OBVIOUS
    <3> QED BY <1>1, <3>3, <3>4
  <2>8. (Unsent(t)' <=> Unsent(t)) /\ Len(todo'[t]) = Len(todo[t])
    BY TasksStill
  <2> QED BY <1>4, <2>1, <2>5, <2>6, <2>7, <2>8 DEF OthersFar
<1>5. ASSUME Hopeful(t), Prompting(t), OwnPrompt(t) PROVE OwnPrompt(t)'
  <2>1. Received(t)' = <<"PROMPT">> => mode # NoNumber
    <3>1. out = <<"PROMPT">> => mode # NoNumber
      BY DEF WireOK, PromptCollects
    <3>2. <<>> # <<"PROMPT">>
      OBVIOUS
    <3> QED BY <1>1, <1>5, <3>1, <3>2 DEF OwnPrompt
  <2> QED BY <1>5, <2>1, TasksStill DEF OwnPrompt
<1>6. ASSUME LineClear(t) PROVE LineClear(t)'
  BY <1>1, <1>6, TasksStill DEF LineClear
<1>7. ASSUME OwnConfirmation(t) PROVE OwnConfirmation(t)'
  <2>1. Recorded(t)' <=> Recorded(t)
    BY DEF Recorded, taskVars
  <2>2. <<>> # <<"CMGS">>
    OBVIOUS
  <2>3. out' = <<"CMGS">> \/ Received(t)' = <<"CMGS">> \/ Ok(t)' => Recorded(t)'
    BY <1>1, <1>7, <2>1, <2>2, TasksStill DEF OwnConfirmation
  <2> QED BY <1>7, <2>3, TasksStill DEF OwnConfirmation
<1> QED BY <1>4, <1>5, <1>6, <1>7, PhaseStill

\* An answer: the commands behind it move up, and a check of the status may
\* find it.
LEMMA PhaseAnswers ==
  ASSUME IInv, WireOK, SlowModule, NEW t, TodoOK(t), Phase(t), ModuleAnswers
  PROVE  Phase(t)'
<1> DEFINE c == inbox[1]
<1>1. /\ inbox # <<>> /\ out = <<>> /\ UNCHANGED <<buf, tx>>
      /\ AnswerEffect(c)
      /\ 1 \in DOMAIN inbox /\ inbox \in Seq(Command)
      /\ inbox' \in Seq(Command) /\ Len(inbox') = Len(inbox) - 1 /\ Len(inbox) \in Nat
      /\ \A i \in DOMAIN inbox' : /\ i \in Nat \ {0} /\ i + 1 \in DOMAIN inbox
                                  /\ inbox'[i] = inbox[i + 1]
  BY AnswerFacts, TailFacts DEF WireOK, WireTypeOK
<1>2. UNCHANGED taskVars
  BY WireFrame DEF Module
<1>3. Received(t)' = Received(t)
  BY <1>1, <1>2, TasksStill
<1>4. /\ Worth(out) = 0 /\ Worth(<<>>) = 0 /\ Worth(<<"PROMPT">>) = 0
      /\ Worth(out') \in {0, 1} /\ Worth(Received(t)) \in {0, 1}
  BY <1>1, WorthFacts
<1>5. /\ \/ mode' = mode /\ (mode # NoNumber => out' \in {<<>>, <<"PROMPT">>})
         \/ mode = NoNumber /\ c.name = "CMGS" /\ mode' = c.num /\ out' = <<"PROMPT">>
         \/ mode' = NoNumber
      /\ out' = <<"CMGS">> => c.name = "TEXT" /\ accepted' =
           accepted \cup {[by |-> c.by, id |-> c.id, meant |-> c.num, sent |-> mode]}
      /\ accepted \subseteq accepted'
  BY <1>1, Zenon DEF AnswerEffect
<1> HIDE DEF c
<1>6. ASSUME Hopeful(t), Searching(t), OthersFar(t) PROVE OthersFar(t)'
  <2> DEFINE p == Progress(Checks(t))
             w == Worth(Received(t))
  <2>1. p \in {0, 1, 2, 3, 4} /\ Checks(t)' = Checks(t)
    BY <1>2, <1>6, CreditFacts, TasksStill
  <2>2. Credit(t) = p + 0 + w /\ Credit(t)' = p + Worth(out') + w
    BY <1>3, <1>4, <2>1 DEF Credit
  <2> HIDE DEF p, w
  <2>3. w \in {0, 1}
    BY <1>4 DEF w
  <2>4. Credit(t) \in Nat /\ Credit(t)' \in Nat /\ Credit(t)' <= Credit(t) + 1
    BY <1>4, <2>1, <2>2, <2>3
  <2>5. Worth(out') = 0 => Credit(t)' = Credit(t)
    BY <2>2, Zenon
  <2>6. ASSUME NEW i \in DOMAIN inbox', inbox'[i].name = "CMGS"
        PROVE  Credit(t)' + (i - 1) <= MaxBacklog + 1
    <3>1. i \in Nat \ {0} /\ Credit(t) + ((i + 1) - 1) <= MaxBacklog + 1
      BY <1>1, <1>6, <2>6 DEF OthersFar
    <3> QED BY <2>4, <3>1, ConstantsAssumption
  <2>7. ASSUME mode' # NoNumber PROVE Credit(t)' <= MaxBacklog + 1
    <3>1. CASE mode' = mode /\ out' \in {<<>>, <<"PROMPT">>}
      <4>1. Credit(t)' = Credit(t)
        BY <1>4, <2>5, <3>1, Zenon
      <4> QED BY <1>6, <2>7, <3>1, <4>1 DEF OthersFar
    <3>2. CASE c.name = "CMGS" /\ out' = <<"PROMPT">>
      <4>1. Credit(t)' = Credit(t)
        BY <1>4, <2>5, <3>2, Zenon
      <4>2. Credit(t) + (1 - 1) <= MaxBacklog + 1
        BY <1>1, <1>6, <3>2 DEF OthersFar, c
      <4> QED BY <2>4, <4>1, <4>2, ConstantsAssumption
    <3> QED BY <1>5, <2>7, <3>1, <3>2
  <2>8. Unsent(t)' = Unsent(t) /\ Len(todo'[t]) = Len(todo[t])
    BY <1>2, TasksStill
  <2> QED BY <1>1, <1>3, <1>6, <2>1, <2>6, <2>7, <2>8 DEF OthersFar
<1>7. ASSUME Hopeful(t), Prompting(t), OwnPrompt(t) PROVE OwnPrompt(t)'
  <2>1. mode = NoNumber /\ Received(t) # <<"PROMPT">> /\ ~Ok(t)
    BY <1>1, <1>7 DEF OwnPrompt
  <2>2. /\ Cmgs(t)' = Cmgs(t) /\ Ok(t)' = Ok(t) /\ op'[t].num = op[t].num
    BY <1>2, TasksStill
  <2>3. \A i \in DOMAIN inbox' : inbox'[i].name = "CMGS" =>
          inbox[i + 1].name = "CMGS" /\ i = Len(inbox') /\ inbox'[i] = Cmgs(t)
    BY <1>1, <1>7 DEF OwnPrompt
  <2>4. CASE mode' = NoNumber
    <3>1. tx' # NoCmd => tx' = Cmgs(t) /\ \A i \in DOMAIN inbox' : inbox'[i].name # "CMGS"
      BY <1>1, <1>7 DEF OwnPrompt
    <3> QED BY <1>3, <2>1, <2>2, <2>3, <2>4, <3>1 DEF OwnPrompt
  <2>5. CASE c.name = "CMGS" /\ mode' = c.num
    <3>1. Len(inbox) = 1 /\ c = Cmgs(t) /\ tx = NoCmd
      BY <1>1, <1>7, <2>5 DEF OwnPrompt, c
    <3>2. inbox' = <<>> /\ mode' = op[t].num
      BY <1>1, <2>5, <3>1 DEF Cmgs
    <3> QED BY <1>1, <1>3, <2>1, <2>2, <3>1, <3>2 DEF OwnPrompt
  <2> QED BY <1>5, <2>1, <2>4, <2>5
<1>8. ~LineClear(t)
  BY <1>1 DEF LineClear
<1>9. ASSUME Hopeful(t), OwnConfirmation(t) PROVE OwnConfirmation(t)'
  <2>1. tx = NoCmd /\ inbox = <<Text(t)>>
    BY <1>1, <1>9 DEF OwnConfirmation
  <2>2. c = Text(t) /\ inbox' = <<>>
    BY <1>1, <2>1 DEF c
  <2>3. Recorded(t) => Recorded(t)'
    BY <1>2, <1>5 DEF Recorded, taskVars
  <2>4. ASSUME out' = <<"CMGS">> PROVE Recorded(t)'
    <3>1. c.by = t /\ c.id = calls[t]
      BY <2>2 DEF Text
    <3>2. [by |-> t, id |-> calls[t], meant |-> c.num, sent |-> mode] \in accepted'
      BY <1>5, <2>4, <3>1
    <3> QED BY <1>2, <3>2 DEF Recorded, taskVars
  <2>5. Ok(t)' = Ok(t)
    BY <1>2, TasksStill
  <2> QED BY <1>1, <1>3, <1>9, <2>1, <2>2, <2>3, <2>4, <2>5 DEF OwnConfirmation
<1> QED BY <1>2, <1>6, <1>7, <1>8, <1>9, PhaseStill

\* An unsolicited message is worth nothing.
LEMMA PhaseSpeaks ==
  ASSUME IInv, WireOK, SlowModule, NEW t, TodoOK(t), Phase(t), ModuleSpeaks
  PROVE  Phase(t)'
<1>1. out = <<>> /\ out' = <<"URC">> /\ UNCHANGED <<buf, tx, mode, inbox, accepted>>
  BY SpeaksFacts
<1>2. UNCHANGED taskVars
  BY WireFrame DEF Module
<1>3. /\ Received(t)' = Received(t) /\ Unsent(t)' = Unsent(t) /\ Ok(t)' = Ok(t)
      /\ Checks(t)' = Checks(t) /\ Cmgs(t)' = Cmgs(t) /\ Text(t)' = Text(t)
      /\ Len(todo'[t]) = Len(todo[t]) /\ op'[t].num = op[t].num
  BY <1>1, <1>2, TasksStill
<1>4. Worth(out') = 0 /\ Worth(out) = 0
  BY <1>1, WorthFacts
<1>5. Credit(t)' = Credit(t)
  BY <1>3, <1>4 DEF Credit
<1>6. OthersFar(t) => OthersFar(t)'
  BY <1>1, <1>3, <1>5 DEF OthersFar
<1>7. OwnPrompt(t) => OwnPrompt(t)'
  BY <1>1, <1>3 DEF OwnPrompt
<1>8. LineClear(t) => LineClear(t)'
  BY <1>1, <1>3 DEF LineClear
<1>9. OwnConfirmation(t) => OwnConfirmation(t)'
  <2>1. Recorded(t)' <=> Recorded(t)
    BY <1>1, <1>2 DEF Recorded, taskVars
  <2>2. <<"URC">> # <<"CMGS">>
    OBVIOUS
  <2> QED BY <1>1, <1>3, <2>1, <2>2 DEF OwnConfirmation
<1> QED BY <1>2, <1>6, <1>7, <1>8, <1>9, PhaseStill

LEMMA PhaseWireStep ==
  ASSUME IInv, WireOK, SlowModule, NEW t \in Tasks, TodoOK(t), Phase(t), Interrupt \/ Module
  PROVE  Phase(t)'
<1>1. UNCHANGED taskVars
  BY WireFrame
<1>2. CASE TxDone
  BY <1>2, PhaseReceives
<1>3. CASE RxHalf
  BY <1>3, NoHalf DEF WireOK
<1>4. CASE RxEnd
  BY <1>1, <1>4, EndEffect, PhaseEnds DEF WireOK
<1>5. CASE RxError \/ BurstLost
  <2>1. out' = <<>> /\ UNCHANGED <<buf, tx, mode, inbox, accepted>>
    BY <1>5 DEF RxError, BurstLost, uartVars
  <2> QED BY <1>1, <2>1, PhaseEnds
<1>6. CASE ModuleAnswers
  BY <1>6, PhaseAnswers
<1>7. CASE ModuleSpeaks
  BY <1>7, PhaseSpeaks
<1> QED BY <1>2, <1>3, <1>4, <1>5, <1>6, <1>7 DEF Interrupt, Module
-----------------------------------------------------------------------------
(* What the properties say *)

\* What the module accepts, it sends to the number it was given last; and a
\* text only comes when that is its own.
LEMMA AcceptedStep ==
  ASSUME IInv, WireOK, SlowModule, SmsReachesItsNumber, [Next]_vars
  PROVE  SmsReachesItsNumber' /\ accepted \subseteq accepted'
<1>1. CASE ModuleAnswers
  <2>1. inbox # <<>> /\ inbox' = Tail(inbox) /\ AnswerEffect(Head(inbox))
    BY <1>1, AnswerFacts
  <2>2. 1 \in DOMAIN inbox /\ Head(inbox) = inbox[1]
    BY <2>1, TailFacts
  <2>3. Head(inbox).name = "TEXT" => mode = Head(inbox).num
    BY <2>2 DEF WireOK, TextInOrder
  <2> QED BY <2>1, <2>3 DEF AnswerEffect, SmsReachesItsNumber
<1>2. CASE UNCHANGED accepted
  BY <1>2 DEF SmsReachesItsNumber
<1>3. (Interrupt \/ Module) /\ ~ModuleAnswers => UNCHANGED accepted
  BY DEF Interrupt, Module, TxDone, EndTransmit, RxHalf, RxEnd, RxError, BurstLost, ModuleSpeaks
<1>4. (\E u \in Tasks : Enter(u) \/ Proceed(u)) => UNCHANGED accepted
  BY TaskFrame DEF IInv, ModuleAlone
<1> QED BY <1>1, <1>2, <1>3, <1>4 DEF Next, vars, moduleVars

\* The result of an operation that fails is an error.
LEMMA ErrorNotNone ==
  ASSUME NEW o, NEW name, NEW verdict PROVE ErrorOf(o, name, verdict) # "NONE"
BY DEF ErrorOf

LEMMA RefusalNotNone ==
  ASSUME NEW o PROVE Refusal(o) # "NONE"
BY DEF Refusal

LEMMA LeaveResult ==
  ASSUME TypeOK, NEW t \in Tasks, NEW res, Leave(t, res) PROVE result'[t] = res
BY DEF Leave, TypeOK

\* How a task that is left with NONE came by it: it has had it already, or its
\* text was confirmed, or it has executed deinit().
LEMMA ResultStep ==
  ASSUME IInv, NEW t \in Tasks, LabelOK(t), Enter(t) \/ Proceed(t), result'[t] = "NONE"
  PROVE  \/ result[t] = "NONE" /\ op'[t] = op[t] /\ calls'[t] = calls[t]
         \/ JudgeOk(t) /\ Len(todo[t]) = 1 /\ op'[t] = op[t] /\ calls'[t] = calls[t]
         \/ op'[t].name = "deinit"
<1> DEFINE Kept == result'[t] = result[t] /\ op'[t] = op[t] /\ calls'[t] = calls[t]
<1>0. TypeOK
  BY DEF IInv
<1>1. ~Enter(t)
  <2>1. ASSUME NEW o \in Workload, Call(t, o) \/ CallRefused(t, o) PROVE FALSE
    <3>1. result'[t] \in {"none", Refusal(o)}
      BY <1>0, <2>1 DEF Call, CallRefused, TypeOK
    <3> QED BY <3>1, RefusalNotNone
  <2> QED BY <2>1 DEF Enter
<1>2. ASSUME Locking(t) PROVE Kept
  <2>1. ~TakeTimeout(t)
    BY <1>0 DEF TakeTimeout, TypeOK
  <2> QED BY <1>0, <1>2, <2>1 DEF Locking, TakeMutex, TakeDeleted, NestedTake, NestedGive, Give,
          taskVars, TypeOK
<1>3. ASSUME Transact(t) PROVE Kept
  BY <1>3 DEF Transact, Begin, Arm, ArmFails, Send, SendFails, TakeNotification, WaitTimeout,
     Abort, View, Clean1, Clean2
<1>4. ASSUME Decide(t)
      PROVE  Kept \/ (JudgeOk(t) /\ Len(todo[t]) = 1 /\ op'[t] = op[t] /\ calls'[t] = calls[t])
                  \/ op'[t].name = "deinit"
  <2>1. CASE JudgeOk(t)
    BY <2>1 DEF JudgeOk
  <2>2. CASE JudgeFailed(t)
    <3>1. CASE PollsSignal(t)
      BY <2>2, <3>1 DEF JudgeFailed
    <3>2. CASE ~PollsSignal(t)
      BY <1>0, <2>2, <3>2, LeaveResult, ErrorNotNone DEF JudgeFailed
    <3> QED BY <3>1, <3>2
  <2>3. CASE Sleep(t)
    <3>1. CASE tries[t] > 1
      BY <2>3, <3>1 DEF Sleep
    <3>2. CASE ~(tries[t] > 1)
      BY <1>0, <2>3, <3>2, LeaveResult DEF Sleep
    <3> QED BY <3>1, <3>2
  <2>4. CASE JudgeDeinit(t) \/ Teardown(t) \/ DeleteMutex(t)
    BY <2>4 DEF JudgeDeinit, Teardown, DeleteMutex
  <2>5. CASE ClearInitialized(t)
    BY <2>5 DEF ClearInitialized, LabelOK
  <2> QED BY <1>4, <2>1, <2>2, <2>3, <2>4, <2>5 DEF Decide
<1> QED BY <1>1, <1>2, <1>3, <1>4 DEF Proceed

\* A send_sms() that leaves with NONE had its own confirmation.
LEMMA NoneStep ==
  ASSUME IInv, NEW t \in Tasks, TodoOK(t), Phase(t), LabelOK(t), NoneOK(t),
         accepted \subseteq accepted', [Next]_vars
  PROVE  NoneOK(t)'
<1>1. ASSUME Recorded(t), calls'[t] = calls[t] PROVE Recorded(t)'
  BY <1>1 DEF Recorded
<1>2. ASSUME op'[t] = op[t], result'[t] = result[t], calls'[t] = calls[t] PROVE NoneOK(t)'
  BY <1>1, <1>2 DEF NoneOK
<1>3. CASE UNCHANGED vars \/ Interrupt \/ Module
  <2>1. UNCHANGED taskVars
    BY <1>3, WireFrame DEF vars
  <2> QED BY <1>2, <2>1 DEF taskVars
<1>4. ASSUME NEW u \in Tasks, Enter(u) \/ Proceed(u), u # t PROVE NoneOK(t)'
  <2>1. Untouched(t)
    BY <1>4, TaskFrame DEF IInv
  <2> QED BY <1>2, <2>1 DEF Untouched
<1>5. ASSUME Enter(t) \/ Proceed(t) PROVE NoneOK(t)'
  <2>1. SUFFICES ASSUME op'[t].name = "send_sms", result'[t] = "NONE" PROVE Recorded(t)'
    BY DEF NoneOK
  <2>2. CASE result[t] = "NONE" /\ op'[t] = op[t] /\ calls'[t] = calls[t]
    BY <1>1, <2>1, <2>2 DEF NoneOK
  <2>3. CASE JudgeOk(t) /\ Len(todo[t]) = 1 /\ op'[t] = op[t] /\ calls'[t] = calls[t]
    <3>1. Sms(t) /\ Ok(t) /\ Hopeful(t) /\ ~Unsent(t)
      BY <2>1, <2>3 DEF JudgeOk, Sms, Ok, Hopeful, Unsent
    <3>2. OwnConfirmation(t)
      BY <2>3, <3>1 DEF Phase
    <3>3. Recorded(t)
      BY <3>1, <3>2 DEF OwnConfirmation
    <3> QED BY <1>1, <2>3, <3>3
  <2>4. CASE op'[t].name = "deinit"
    BY <2>1, <2>4
  <2> QED BY <1>5, <2>1, <2>2, <2>3, <2>4, ResultStep
<1> QED BY <1>3, <1>4, <1>5 DEF Next
-----------------------------------------------------------------------------
(* The invariant *)

LEMMA SmsInit == Init => SmsInv
<1> SUFFICES ASSUME Init PROVE SmsInv
  OBVIOUS
<1>1. /\ mode = NoNumber /\ inbox = <<>> /\ out = <<>> /\ urcs = 0 /\ accepted = {}
      /\ rx = "ready" /\ buf = <<>> /\ half = FALSE /\ tx = NoCmd /\ idleSize = 0
      /\ \A t \in Tasks : pc[t] = "idle" /\ result[t] = "none"
  BY DEF Init
<1>2. WireTypeOK
  BY <1>1, ConstantsAssumption DEF WireTypeOK, AtMostOne
<1>3. TextInOrder /\ NumbersGiven /\ PromptCollects
  BY <1>1, NoCmdName DEF TextInOrder, NumbersGiven, PromptCollects
<1>4. SmsReachesItsNumber
  BY <1>1 DEF SmsReachesItsNumber
<1>5. ASSUME NEW t \in Tasks PROVE TodoOK(t) /\ Phase(t) /\ LabelOK(t) /\ NoneOK(t)
  BY <1>1 DEF TodoOK, SendingPcs, TransactPcs, Phase, Hopeful, Ok, LabelOK, NoneOK
<1> QED BY <1>2, <1>3, <1>4, <1>5 DEF SmsInv, WireOK

LEMMA SmsStep ==
  ASSUME CheckedWorkload, SlowModule, IInv, SmsInv, [Next]_vars
  PROVE  SmsInv'
<1>1. WireOK'
  <2>1. CASE UNCHANGED vars
    BY <2>1 DEF SmsInv, WireOK, WireTypeOK, AtMostOne, TextInOrder, NumbersGiven, PromptCollects,
       vars, isrVars, uartVars, moduleVars
  <2>2. CASE Interrupt \/ Module
    BY <2>2, WireModuleStep DEF SmsInv
  <2>3. ASSUME NEW u \in Tasks, Enter(u) \/ Proceed(u) PROVE WireOK'
    BY <2>3, WireTaskStep DEF SmsInv
  <2> QED BY <2>1, <2>2, <2>3 DEF Next
<1>2. SmsReachesItsNumber' /\ accepted \subseteq accepted'
  BY AcceptedStep DEF SmsInv
<1>3. ASSUME NEW t \in Tasks PROVE TodoOK(t)' /\ Phase(t)' /\ LabelOK(t)' /\ NoneOK(t)'
  <2>1. TodoOK(t) /\ Phase(t) /\ LabelOK(t) /\ NoneOK(t) /\ WireOK
    BY DEF SmsInv
  <2>2. TodoOK(t)' /\ LabelOK(t)'
    BY <2>1, TodoAndLabelStep
  <2>3. NoneOK(t)'
    BY <1>2, <2>1, NoneStep
  <2>4. Phase(t)'
    <3>1. CASE UNCHANGED vars
      BY <2>1, <3>1, PhaseSame DEF vars, taskVars, uartVars, moduleVars, Hopeful, Sms, Unsent, Ok,
         Received
    <3>2. CASE Interrupt \/ Module
      BY <2>1, <3>2, PhaseWireStep
    <3>3. ASSUME NEW u \in Tasks, Enter(u) \/ Proceed(u) PROVE Phase(t)'
      <4>1. CASE u = t
        BY <2>1, <3>3, <4>1, PhaseOwnStep
      <4>2. CASE u # t
        BY <2>1, <3>3, <4>2, PhaseOtherStep
      <4> QED BY <4>1, <4>2
    <3> QED BY <3>1, <3>2, <3>3 DEF Next
  <2> QED BY <2>2, <2>3, <2>4
<1> QED BY <1>1, <1>2, <1>3 DEF SmsInv

LEMMA SmsInvariance ==
  ASSUME CheckedWorkload, SlowModule PROVE Spec => []SmsInv
<1>1. Init => SmsInv
  BY SmsInit
<1>2. IInv /\ SmsInv /\ [Next]_vars => SmsInv'
  BY SmsStep
<1> QED BY <1>1, <1>2, Invariance, PTL DEF Spec
-----------------------------------------------------------------------------
(* Every message the module accepts goes to the number it was meant for:    *)
(* the prompt of a send_sms() that gave up after 50 ms (sim800l.cpp:556) is  *)
(* never taken for the prompt of a later one, whatever the tasks do in       *)
(* between, if the status is always checked first and the module pauses      *)
(* after each response and is at most two commands behind; one, if it also   *)
(* speaks unasked.                                                           *)
THEOREM MessagesReachTheirNumbers ==
  ASSUME CheckedWorkload, SlowModule PROVE Spec => []SmsReachesItsNumber
<1>1. SmsInv => SmsReachesItsNumber
  BY DEF SmsInv
<1> QED BY <1>1, SmsInvariance, PTL

(* Under the same assumptions, send_sms() returns NONE only if the module    *)
(* has accepted the text of this very call: a confirmation it finds in its   *)
(* buffer cannot be a late one of an earlier message.                        *)
THEOREM NoneMeansAccepted ==
  ASSUME CheckedWorkload, SlowModule PROVE Spec => []SmsNoneMeansAccepted
<1>1. SmsInv => SmsNoneMeansAccepted
  BY DEF SmsInv, NoneOK, Recorded, SmsNoneMeansAccepted
<1> QED BY <1>1, SmsInvariance, PTL
=============================================================================
