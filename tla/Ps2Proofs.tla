----------------------------- MODULE Ps2Proofs -----------------------------
(***************************************************************************)
(* The invariants of Ps2, proved for any set of controllers and devices:   *)
(* how many bytes can be on their way, and what is on its way at each      *)
(* point of the dialogue with a single keyboard.                           *)
(***************************************************************************)
EXTENDS Ps2, TLAPS

-----------------------------------------------------------------------------
(* The inductive invariant.                                                *)

Labels == {"clear", "config", "selftest", "second", "reset1", "reset1done", "reset2",
           "reset2done", "F5", "F2", "byte0_store", "byte0", "byte1", "detected", "next",
           "finish", "clearBuffer", "keyboard", "F0", "02", "F4", "done"}

\* Where nothing has been sent yet.
Silent == {"clear", "config", "selftest", "second", "reset1"}

\* What the reset of a device and its identification send besides the
\* acknowledgement.
ResetRest(kind) == IF kind = "mouse" THEN 2 ELSE 1
NameRest(kind) == IF kind = "mf2" THEN 2 ELSE IF kind = "mouse" THEN 1 ELSE 0

Sent1 == Labels \ Silent                       \* the first device is reset
Sent2 == Sent1 \ {"reset1done", "reset2"}      \* so is the second
Naming == Sent2 \ {"reset2done", "F5", "F2"}   \* a device has been asked its name

\* Whether a device has been asked its name.
Named(d) == \/ pc \in Naming /\ (d = DEV1 \/ device = DEV2)
            \/ pc \in {"F5", "F2"} /\ d = DEV1 /\ device = DEV2

\* The bytes that no waitACK has been called for: those of the resets and those
\* of the names.
Rest1 == IF pc \in Sent1 THEN ResetRest(machine.device[DEV1]) ELSE 0
Rest2 == IF pc \in Sent2 THEN ResetRest(machine.device[DEV2]) ELSE 0
Name1 == IF Named(DEV1) THEN NameRest(machine.device[DEV1]) ELSE 0
Name2 == IF Named(DEV2) THEN NameRest(machine.device[DEV2]) ELSE 0
Unread == Rest1 + Rest2 + Name1 + Name2

\* All bytes on their way.
Buffered == IF out.full THEN 1 ELSE 0
Coming1 == Len(coming[DEV1])
Coming2 == Len(coming[DEV2])
OnTheWay == Coming1 + Coming2 + Buffered

\* One more where waitACK has been called.
Waiting == IF ack = "wait" THEN 1 ELSE 0
Counted == OnTheWay <= Unread + Waiting

\* What a device or the controller answers.
Bytes == {"00", "83", "AA", "AB", "FA", "??"}

Types ==
    /\ machine \in Machines
    /\ devType \in [Devices -> KeyboardTypes \cup MouseTypes \cup {Unknown}]
    /\ hasDEV2 \subseteq Bits /\ usable_channels \subseteq 0 .. 3
    /\ config \subseteq Bits /\ ctl \subseteq Bits
    /\ device \in Devices /\ lines \subseteq {1, 12} /\ scanning \subseteq Devices
    /\ pc \in Labels /\ ack \in {"none", "wait", "again"}
    /\ coming \in [Devices -> Seq(Bytes)]
    /\ out \in [full : BOOLEAN, byte : Bytes]
    /\ acked \in BOOLEAN /\ late \in BOOLEAN

\* Before the first device is reset, nothing has been sent, found or asked for.
Quiet ==
    pc \in Silent =>
        /\ ack = "none" /\ device = DEV1
        /\ ~ out.full /\ coming = [d \in Devices |-> <<>>]
        /\ devType = [d \in Devices |-> Unknown]

One == OneKeyboard /\ ~ late

Tested == pc \notin {"clear", "config", "selftest", "second"}

\* The bytes of the keyboard that have not been read.
Flight == (IF out.full THEN <<out.byte>> ELSE <<>>) \o coming[DEV1]

\* What the keyboard sends: the answer of the reset and its parts, with the
\* acknowledgement of F5 behind or without; the names of the devices.
None == <<>>
Ack == <<"FA">>
Back == <<"FA", "AA">>
Passed == <<"AA">>
PassedAck == Passed \o Ack
MouseBack == <<"FA", "AA", "00">>
Mf2Name == <<"FA", "AB", "83">>
AckMf2Name == Ack \o Mf2Name
NamePair == <<"AB", "83">>
NameLast == <<"83">>
AckAck == Ack \o Ack
MouseName == <<"FA", "00">>

\* Only the keyboard is there.
Alone ==
    One /\ Tested =>
       /\ device = DEV1 /\ coming[DEV2] = <<>> /\ devType[DEV2] = Unknown
       /\ DEV2 \notin usable_channels
       /\ pc \in {"reset1", "reset1done", "reset2", "reset2done"} => DEV1 \in usable_channels
       /\ pc \notin {"F2", "byte0_store", "reset1done", "02", "F4", "done"} => ack = "none"

\* The answer of the reset is read for that of F5, and what F5 is answered comes
\* in time for the second read of waitACK or not.
ResetAnswers ==
    One =>
       /\ pc = "reset1done" => \/ ack = "wait" /\ Flight = Back
                               \/ ack = "none" /\ Flight = Passed /\ acked
       /\ pc \in {"reset2", "reset2done", "F5"} => Flight = Passed /\ DEV1 \in config
       /\ pc = "F2" => \/ ack = "wait" /\ Flight = PassedAck
                       \/ ack = "again" /\ Flight = Ack
                       \/ ack = "none" /\ (Flight = None \/ Flight = Ack)

\* So an acknowledgement is in front of the name or not; the name of an old
\* keyboard is empty, and what is read is the acknowledgement once more.
NameAnswers ==
    One =>
       /\ pc = "byte0_store" =>
             IF machine.device[DEV1] = "mf2"
             THEN \/ ack = "wait" /\ (Flight = Mf2Name \/ Flight = AckMf2Name)
                  \/ ack = "none" /\ (Flight = NamePair \/ Flight = Mf2Name)
             ELSE \/ ack = "wait" /\ (Flight = Ack \/ Flight = AckAck)
                  \/ ack = "none" /\ ((Flight = None /\ out.byte = "FA") \/ Flight = Ack)
       /\ pc = "byte0" =>
             IF machine.device[DEV1] = "mf2"
             THEN \/ byte0_store = "AB" /\ Flight = NameLast
                  \/ byte0_store = "FA" /\ Flight = NamePair
             ELSE byte0_store = "FA" /\ Flight = None /\ out.byte = "FA"
       /\ pc = "byte1" =>
             IF machine.device[DEV1] = "mf2"
             THEN byte0 = "AB" /\ \/ Flight = NameLast
                                  \/ Flight = None /\ out.byte = "83"
             ELSE byte0 = "FA" /\ Flight = None /\ out.byte = "FA"
       /\ pc \in {"F2", "byte0_store", "byte0", "byte1", "detected", "next", "finish"} =>
             DEV1 \in config

Found == {"detected", "next", "finish", "clearBuffer", "keyboard", "F0", "02", "F4", "done"}

\* From then on every answer is waited for.
Identified ==
    One /\ pc \in Found =>
       /\ devType[DEV1] \in KeyboardTypes
       /\ IF ack = "wait" THEN pc \in {"02", "F4", "done"} /\ Flight = Ack
          ELSE ack = "none" /\ Flight = None
       /\ pc \notin {"detected", "next", "finish"} => 0 \in ctl /\ 4 \notin ctl
       /\ pc \in {"F0", "02", "F4", "done"} => 1 \in lines
       /\ pc = "done" => DEV1 \in scanning

IInv == Types /\ Quiet /\ Counted /\ Alone /\ ResetAnswers /\ NameAnswers /\ Identified

Table == Alone /\ ResetAnswers /\ NameAnswers /\ Identified

-----------------------------------------------------------------------------
(* Sequences of bytes.                                                     *)

LEMMA Ends ==
  \A a, b, c : /\ Head(<<a>>) = a /\ Tail(<<a>>) = <<>>
               /\ Head(<<a, b>>) = a /\ Tail(<<a, b>>) = <<b>>
               /\ Head(<<a, b, c>>) = a /\ Tail(<<a, b, c>>) = <<b, c>>
OBVIOUS

LEMMA InFront ==
  ASSUME NEW S, NEW s \in Seq(S), NEW x \in S
  PROVE  /\ <<x>> \o s \in Seq(S) /\ <<x>> \o s # <<>>
         /\ Head(<<x>> \o s) = x /\ Tail(<<x>> \o s) = s
OBVIOUS

LEMMA Nothing ==
  ASSUME NEW S, NEW s \in Seq(S)
  PROVE  <<>> \o s = s /\ s \o <<>> = s
OBVIOUS

LEMMA Behind ==
  ASSUME NEW S, NEW s \in Seq(S), NEW t \in Seq(S), NEW x \in S
  PROVE  (<<x>> \o s) \o t = <<x>> \o (s \o t)
OBVIOUS

LEMMA Parts ==
  ASSUME NEW S, NEW s \in Seq(S), s # <<>>
  PROVE  /\ <<Head(s)>> \o Tail(s) = s /\ Head(s) \in S /\ Tail(s) \in Seq(S)
         /\ Len(s) \in Nat /\ Len(Tail(s)) = Len(s) - 1
OBVIOUS

LEMMA Lengths ==
  ASSUME NEW S, NEW s \in Seq(S), NEW t \in Seq(S)
  PROVE  s \o t \in Seq(S) /\ Len(s \o t) = Len(s) + Len(t) /\ Len(s) \in Nat /\ Len(t) \in Nat
OBVIOUS

LEMMA AnswerIs ==
  ASSUME NEW kind, NEW byte
  PROVE  /\ kind = "none" => Answers(kind, byte) = None
         /\ kind = "mf2" /\ byte = "FF" => Answers(kind, byte) = Back
         /\ kind = "at" /\ byte = "FF" => Answers(kind, byte) = Back
         /\ kind = "mouse" /\ byte = "FF" => Answers(kind, byte) = MouseBack
         /\ kind = "mf2" /\ byte = "F2" => Answers(kind, byte) = Mf2Name
         /\ kind = "mouse" /\ byte = "F2" => Answers(kind, byte) = MouseName
         /\ kind = "at" /\ byte = "F2" => Answers(kind, byte) = Ack
         /\ kind = "mf2" /\ byte # "FF" /\ byte # "F2" => Answers(kind, byte) = Ack
         /\ kind = "at" /\ byte # "FF" /\ byte # "F2" => Answers(kind, byte) = Ack
         /\ kind = "mouse" /\ byte # "FF" /\ byte # "F2" => Answers(kind, byte) = Ack
<1>1. ASSUME kind = "none" PROVE Answers(kind, byte) = None
  BY <1>1 DEF Answers, None
<1>2. ASSUME kind = "mf2", byte = "FF" PROVE Answers(kind, byte) = Back
  BY <1>2 DEF Answers, Back
<1>3. ASSUME kind = "at", byte = "FF" PROVE Answers(kind, byte) = Back
  BY <1>3 DEF Answers, Back
<1>4. ASSUME kind = "mouse", byte = "FF" PROVE Answers(kind, byte) = MouseBack
  BY <1>4 DEF Answers, MouseBack
<1>5. ASSUME kind = "mf2", byte = "F2" PROVE Answers(kind, byte) = Mf2Name
  BY <1>5 DEF Answers, Mf2Name
<1>6. ASSUME kind = "mouse", byte = "F2" PROVE Answers(kind, byte) = MouseName
  BY <1>6 DEF Answers, MouseName
<1>7. ASSUME kind = "at", byte = "F2" PROVE Answers(kind, byte) = Ack
  BY <1>7 DEF Answers, Ack
<1>8. ASSUME kind = "mf2", byte # "FF", byte # "F2" PROVE Answers(kind, byte) = Ack
  BY <1>8 DEF Answers, Ack
<1>9. ASSUME kind = "at", byte # "FF", byte # "F2" PROVE Answers(kind, byte) = Ack
  BY <1>9 DEF Answers, Ack
<1>10. ASSUME kind = "mouse", byte # "FF", byte # "F2" PROVE Answers(kind, byte) = Ack
  BY <1>10 DEF Answers, Ack
<1> QED
  BY <1>1, <1>2, <1>3, <1>4, <1>5, <1>6, <1>7, <1>8, <1>9, <1>10

LEMMA Short ==
  /\ None \in Seq(Bytes) /\ Len(None) = 0
  /\ Ack \in Seq(Bytes) /\ Len(Ack) = 1
  /\ Back \in Seq(Bytes) /\ Len(Back) = 2
  /\ MouseName \in Seq(Bytes) /\ Len(MouseName) = 2
  /\ MouseBack \in Seq(Bytes) /\ Len(MouseBack) = 3
  /\ Mf2Name \in Seq(Bytes) /\ Len(Mf2Name) = 3
<1>1. ASSUME NEW S, NEW x \in S, NEW y \in S, NEW z \in S
      PROVE  /\ <<>> \in Seq(S) /\ <<x>> \in Seq(S)
             /\ <<x, y>> \in Seq(S) /\ <<x, y, z>> \in Seq(S)
  OBVIOUS
<1>2. /\ "FA" \in Bytes /\ "AA" \in Bytes /\ "00" \in Bytes /\ "AB" \in Bytes
      /\ "83" \in Bytes
  BY DEF Bytes
<1>3. /\ Len(None) = 0 /\ Len(Ack) = 1 /\ Len(Back) = 2
      /\ Len(MouseName) = 2 /\ Len(MouseBack) = 3
      /\ Len(Mf2Name) = 3
  BY DEF None, Ack, Back, MouseBack, Mf2Name, MouseName
<1>4. /\ None \in Seq(Bytes) /\ Ack \in Seq(Bytes)
      /\ Back \in Seq(Bytes) /\ MouseName \in Seq(Bytes)
      /\ MouseBack \in Seq(Bytes) /\ Mf2Name \in Seq(Bytes)
  BY <1>1, <1>2 DEF None, Ack, Back, MouseBack, Mf2Name, MouseName
<1> QED
  BY <1>3, <1>4

LEMMA AnswerFacts ==
  ASSUME NEW kind \in Kinds, NEW byte
  PROVE  /\ Answers(kind, byte) \in Seq(Bytes)
         /\ byte = "FF" => Len(Answers(kind, byte)) <= 1 + ResetRest(kind)
         /\ byte = "F2" => Len(Answers(kind, byte)) <= 1 + NameRest(kind)
         /\ byte # "FF" /\ byte # "F2" => Len(Answers(kind, byte)) <= 1
<1> DEFINE n == Len(Answers(kind, byte))
<1>1. /\ ResetRest(kind) = 1 \/ ResetRest(kind) = 2
      /\ NameRest(kind) = 0 \/ NameRest(kind) = 1 \/ NameRest(kind) = 2
      /\ kind = "mouse" => ResetRest(kind) = 2 /\ NameRest(kind) = 1
      /\ kind = "mf2" => NameRest(kind) = 2
  BY DEF ResetRest, NameRest
<1>2. kind = "mf2" \/ kind = "at" \/ kind = "mouse" \/ kind = "none"
  BY DEF Kinds
<1>3. Answers(kind, byte) \in Seq(Bytes)
  BY <1>2, AnswerIs, Short
<1>4. ASSUME byte = "FF"
      PROVE  n = 0 \/ n = 2 \/ (kind = "mouse" /\ n = 3)
  <2>1. \/ Answers(kind, byte) = None \/ Answers(kind, byte) = Back
        \/ kind = "mouse" /\ Answers(kind, byte) = MouseBack
    BY <1>2, <1>4, AnswerIs
  <2> QED
    BY <2>1, Short
<1>5. ASSUME byte = "F2"
      PROVE  n = 0 \/ n = 1 \/ (kind = "mouse" /\ n = 2) \/ (kind = "mf2" /\ n = 3)
  <2>1. \/ Answers(kind, byte) = None \/ Answers(kind, byte) = Ack
        \/ kind = "mouse" /\ Answers(kind, byte) = MouseName
        \/ kind = "mf2" /\ Answers(kind, byte) = Mf2Name
    BY <1>2, <1>5, AnswerIs
  <2> QED
    BY <2>1, Short
<1>6. ASSUME byte # "FF", byte # "F2"
      PROVE  n = 0 \/ n = 1
  <2>1. Answers(kind, byte) = None \/ Answers(kind, byte) = Ack
    BY <1>2, <1>6, AnswerIs
  <2> QED
    BY <2>1, Short
<1> HIDE DEF n
<1>7. byte = "FF" => n <= 1 + ResetRest(kind)
  BY <1>1, <1>4
<1>8. byte = "F2" => n <= 1 + NameRest(kind)
  BY <1>1, <1>5
<1>9. byte # "FF" /\ byte # "F2" => n <= 1
  BY <1>6
<1> QED
  BY <1>3, <1>7, <1>8, <1>9 DEF n

-----------------------------------------------------------------------------
(* Types.                                                                  *)

LEMMA MachineFacts ==
  ASSUME machine \in Machines
  PROVE  /\ machine.config \subseteq Bits /\ machine.ports \subseteq Devices
         /\ machine.device[DEV1] \in Kinds /\ machine.device[DEV2] \in Kinds
         /\ \A d \in Devices : machine.device[d] \in Kinds
BY Ps2Assumption DEF Devices

\* A device receives a byte and answers.
LEMMA ReceiveTypes ==
  ASSUME Types, NEW d \in Devices, NEW byte, Receive(d, byte)
  PROVE  /\ coming' \in [Devices -> Seq(Bytes)] /\ scanning' \subseteq Devices
         /\ coming'[d] = coming[d] \o Answers(machine.device[d], byte)
         /\ \A e \in Devices \ {d} : coming'[e] = coming[e]
<1>1. Answers(machine.device[d], byte) \in Seq(Bytes)
  BY MachineFacts, AnswerFacts DEF Types
<1>2. coming[d] \o Answers(machine.device[d], byte) \in Seq(Bytes)
  BY <1>1, Lengths DEF Types
<1>3. coming' = [coming EXCEPT ![d] = coming[d] \o Answers(machine.device[d], byte)]
  BY DEF Receive
<1>4. scanning' \subseteq Devices
  <2>1. scanning' = scanning \cup {d} \/ scanning' = scanning \ {d} \/ scanning' = scanning
    BY DEF Receive
  <2> QED
    BY <2>1 DEF Types
<1> QED
  BY <1>2, <1>3, <1>4 DEF Types

LEMMA TypesDeliver ==
  ASSUME Types, NEW d \in Devices, Deliver(d)
  PROVE  Types'
<1>1. coming[d] \in Seq(Bytes) /\ coming[d] # <<>>
  BY DEF Types, Deliver
<1>2. Head(coming[d]) \in Bytes /\ Tail(coming[d]) \in Seq(Bytes)
  BY <1>1, Parts
<1> QED
  BY <1>2 DEF Types, Deliver, driver

LEMMA TypesWaitACK ==
  ASSUME Types, waitACK
  PROVE  Types'
<1>1. /\ out' = [out EXCEPT !.full = FALSE] /\ ack' \in {"none", "wait", "again"}
      /\ acked' \in BOOLEAN
      /\ UNCHANGED <<machine, driver, pc, coming, scanning, ctl, late>>
  <2>1. CASE ack = "wait"
    BY <2>1 DEF waitACK, Empty
  <2>2. CASE ack # "wait"
    BY <2>2 DEF Types, waitACK, Empty
  <2> QED
    BY <2>1, <2>2
<1>2. [out EXCEPT !.full = FALSE] \in [full : BOOLEAN, byte : Bytes]
  BY DEF Types
<1> QED
  BY <1>1, <1>2 DEF Types, driver

LEMMA TypesDrain ==
  ASSUME Types, NEW label \in Labels, NEW next \in Labels, Drain(label, next)
  PROVE  Types'
BY DEF Types, Drain, driver, Empty

LEMMA TypesReadConfig ==
  ASSUME Types, ReadConfig
  PROVE  Types'
BY DEF Types, ReadConfig, Answered, SymDiff, Labels, Bits, Bytes

LEMMA TypesSelfTest ==
  ASSUME Types, SelfTest
  PROVE  Types'
BY DEF Types, SelfTest, Answered, driver, Labels, Bytes

LEMMA TypesTestPorts ==
  ASSUME Types, TestPorts
  PROVE  Types'
<1> DEFINE second == IF hasDEV2 # {} /\ SecondPort(machine.enabled) THEN hasDEV2 ELSE {}
           usable == ({0} \cup {b - 4 : b \in {c \in second : c >= 4}})
                     \ {d \in Devices : d \notin machine.ports /\ (d = DEV1 \/ second # {})}
<1>1. second \subseteq Bits
  BY DEF Types
<1>2. usable \subseteq 0 .. 3
  BY <1>1 DEF Bits
<1>3. /\ hasDEV2' \in {{0}, {}} /\ usable_channels' = usable
      /\ pc' \in {"keyboard", "reset1"} /\ config' = ctl /\ out' = [out EXCEPT !.byte = "??"]
      /\ UNCHANGED <<machine, devType, byte0_store, byte0, device, lines, ack, acked,
                     coming, scanning, ctl, late>>
  BY DEF TestPorts, Answered
<1> QED
  BY <1>2, <1>3 DEF Types, Labels, Bits, Bytes

LEMMA TypesReset ==
  ASSUME Types, NEW d \in Devices, NEW label, NEW next \in Labels, Reset(d, label, next)
  PROVE  Types'
<1>1. CASE d \in usable_channels
  BY <1>1, ReceiveTypes DEF Types, Reset, driver
<1>2. CASE d \notin usable_channels
  BY <1>2 DEF Types, Reset, driver
<1> QED
  BY <1>1, <1>2

LEMMA TypesResetDone ==
  ASSUME Types, NEW d \in Devices, NEW label, NEW next \in Labels, ResetDone(d, label, next)
  PROVE  Types'
<1>1. /\ usable_channels' \subseteq usable_channels
      /\ config' \subseteq config \cup {d}
      /\ pc' \in {"keyboard", next}
      /\ UNCHANGED <<machine, devType, hasDEV2, byte0_store, byte0, device, lines, ack,
                     acked, wires, ctl, late>>
  <2>1. CASE d \in usable_channels
    <3>1. CASE acked
      BY <2>1, <3>1 DEF ResetDone
    <3>2. CASE ~ acked
      BY <2>1, <3>2 DEF ResetDone
    <3> QED
      BY <3>1, <3>2
  <2>2. CASE d \notin usable_channels
    BY <2>2 DEF ResetDone
  <2> QED
    BY <2>1, <2>2
<1>2. d \in Bits /\ "keyboard" \in Labels
  BY DEF Devices, DEV1, DEV2, Bits, Labels
<1> QED
  BY <1>1, <1>2 DEF Types, wires

LEMMA TypesCommand ==
  ASSUME Types, NEW d \in Devices \cup {DEV_INV}, NEW label, NEW byte, NEW next \in Labels,
         Command(label, d, byte, next)
  PROVE  Types'
<1>1. CASE NoDevice(d)
  BY <1>1 DEF Types, Command, ps2_sendDataTo, driver
<1>2. CASE ~ NoDevice(d)
  <2>1. d \in Devices
    BY <1>2 DEF NoDevice
  <2> QED
    BY <1>2, <2>1, ReceiveTypes DEF Types, Command, ps2_sendDataTo, driver
<1> QED
  BY <1>1, <1>2

LEMMA TypesBytes ==
  ASSUME Types, Byte0Store \/ Byte0 \/ Byte1
  PROVE  Types'
<1>1. \A b0, b1 : TypeOf(b0, b1) \in KeyboardTypes \cup MouseTypes \cup {Unknown}
  BY DEF TypeOf, KeyboardTypes, MouseTypes
<1>2. CASE Byte0Store
  BY <1>2 DEF Types, Byte0Store, ReadByte, Empty, Labels
<1>3. CASE Byte0
  BY <1>3 DEF Types, Byte0, ReadByte, Empty, Labels
<1>4. CASE Byte1
  BY <1>1, <1>4 DEF Types, Byte1, ReadByte, Empty, Labels
<1> QED
  BY <1>2, <1>3, <1>4

LEMMA TypesNextDevice ==
  ASSUME Types, NextDevice
  PROVE  Types'
BY DEF Types, NextDevice, wires, Labels, Devices

LEMMA TypesFinish ==
  ASSUME Types, Finish
  PROVE  Types'
<1>1. PICK bits : config' = config \ bits /\ ctl' = config \ bits
  BY DEF Finish
<1> QED
  BY <1>1 DEF Types, Finish, Answered, Labels, Bytes

LEMMA TypesHandle ==
  ASSUME Types, ps2_handleDevice
  PROVE  Types'
BY DEF Types, ps2_handleDevice, wires, Labels

\* The type invariant is inductive.
LEMMA KeyboardDevice == getKeyboardDev \in Devices \cup {DEV_INV}
BY DEF getKeyboardDev, Devices

LEMMA TypesStep ==
  ASSUME Types, [Next]_vars
  PROVE  Types'
<1> USE DEF Labels
<1>1. CASE \E d \in Devices : Deliver(d)
  BY <1>1, TypesDeliver
<1>2. CASE waitACK
  BY <1>2, TypesWaitACK
<1>3. CASE Drain("clear", "config")
  BY <1>3, TypesDrain
<1>4. CASE ReadConfig \/ SelfTest \/ TestPorts
  BY <1>4, TypesReadConfig, TypesSelfTest, TypesTestPorts
<1>5. CASE Reset(DEV1, "reset1", "reset1done") \/ Reset(DEV2, "reset2", "reset2done")
  BY <1>5, TypesReset DEF Devices
<1>6. CASE ResetDone(DEV1, "reset1done", "reset2") \/ ResetDone(DEV2, "reset2done", "F5")
  BY <1>6, TypesResetDone DEF Devices
<1>7. CASE Command("F5", device, "F5", "F2") \/ Command("F2", device, "F2", "byte0_store")
  <2>1. device \in Devices \cup {DEV_INV}
    BY DEF Types
  <2> QED
    BY <1>7, <2>1, TypesCommand
<1>8. CASE Byte0Store \/ Byte0 \/ Byte1
  BY <1>8, TypesBytes
<1>9. CASE Drain("detected", "next") \/ Drain("clearBuffer", "keyboard")
  BY <1>9, TypesDrain
<1>10. CASE NextDevice \/ Finish \/ ps2_handleDevice
  BY <1>10, TypesNextDevice, TypesFinish, TypesHandle
<1>11. CASE \/ Command("F0", getKeyboardDev, "F0", "02")
            \/ Command("02", getKeyboardDev, "02", "F4")
            \/ Command("F4", getKeyboardDev, "F4", "done")
  BY <1>11, TypesCommand, KeyboardDevice
<1>12. CASE UNCHANGED vars
  BY <1>12 DEF Types, vars, driver, wires
<1> QED
  BY <1>1, <1>2, <1>3, <1>4, <1>5, <1>6, <1>7, <1>8, <1>9, <1>10, <1>11, <1>12 DEF Next

-----------------------------------------------------------------------------
(* Before the first reset nothing is sent.                                 *)

LEMMA QuietStep ==
  ASSUME Types, Quiet, [Next]_vars
  PROVE  Quiet'
<1> SUFFICES ASSUME pc' \in Silent
             PROVE  /\ ack' = "none" /\ device' = DEV1
                    /\ ~ out'.full /\ coming' = [d \in Devices |-> <<>>]
                    /\ devType' = [d \in Devices |-> Unknown]
  BY DEF Quiet
<1>t. out \in [full : BOOLEAN, byte : Bytes]
  BY DEF Types
<1> USE DEF Silent
<1>0. ASSUME pc \in Silent
      PROVE  /\ ack = "none" /\ device = DEV1
             /\ ~ out.full /\ coming = [d \in Devices |-> <<>>]
             /\ devType = [d \in Devices |-> Unknown]
             /\ [out EXCEPT !.byte = "??"].full = FALSE /\ Empty(out).full = FALSE
  BY <1>0, <1>t DEF Quiet, Empty
<1>1. CASE \E d \in Devices : Deliver(d)
  <2>1. pc \in Silent
    BY <1>1 DEF Deliver
  <2> QED
    BY <1>1, <2>1, <1>0 DEF Deliver
<1>2. CASE waitACK
  <2>1. pc \in Silent
    BY <1>2 DEF waitACK
  <2> QED
    BY <1>2, <2>1, <1>0 DEF waitACK
<1>3. CASE Drain("clear", "config")
  BY <1>3, <1>0 DEF Drain, At, driver
<1>4. CASE ReadConfig \/ SelfTest \/ TestPorts
  BY <1>4, <1>0 DEF ReadConfig, SelfTest, TestPorts, At, driver, Answered
<1>5. CASE Reset(DEV1, "reset1", "reset1done") \/ Reset(DEV2, "reset2", "reset2done")
  BY <1>5 DEF Reset
<1>6. CASE ResetDone(DEV1, "reset1done", "reset2") \/ ResetDone(DEV2, "reset2done", "F5")
  BY <1>6 DEF ResetDone
<1>7. CASE Command("F5", device, "F5", "F2") \/ Command("F2", device, "F2", "byte0_store")
  BY <1>7 DEF Command
<1>8. CASE Byte0Store \/ Byte0 \/ Byte1
  BY <1>8 DEF Byte0Store, Byte0, Byte1, ReadByte
<1>9. CASE Drain("detected", "next") \/ Drain("clearBuffer", "keyboard")
  BY <1>9 DEF Drain, At
<1>10. CASE NextDevice \/ Finish \/ ps2_handleDevice
  BY <1>10 DEF NextDevice, Finish, ps2_handleDevice
<1>11. CASE \/ Command("F0", getKeyboardDev, "F0", "02")
            \/ Command("02", getKeyboardDev, "02", "F4")
            \/ Command("F4", getKeyboardDev, "F4", "done")
  BY <1>11 DEF Command
<1>12. CASE UNCHANGED vars
  BY <1>12, <1>0 DEF vars, driver, wires
<1> QED
  BY <1>1, <1>2, <1>3, <1>4, <1>5, <1>6, <1>7, <1>8, <1>9, <1>10, <1>11, <1>12 DEF Next

-----------------------------------------------------------------------------
(* How many bytes can be on their way.                                     *)

\* The initialisation never forgets that it has sent a command.
Onward == /\ machine' = machine
          /\ pc \in Sent1 => pc' \in Sent1
          /\ pc \in Sent2 => pc' \in Sent2
          /\ Named(DEV1) => Named(DEV1)'
          /\ Named(DEV2) => Named(DEV2)'

LEMMA OnwardStep ==
  ASSUME Types, [Next]_vars
  PROVE  Onward
<1> USE DEF Onward, Labels, Silent, Sent1, Sent2, Naming, Named, DEV1, DEV2
<1>1. CASE (\E d \in Devices : Deliver(d)) \/ waitACK
  BY <1>1 DEF Deliver, waitACK, driver
<1>2. CASE Drain("clear", "config")
  BY <1>2 DEF Drain, At, driver
<1>3. CASE ReadConfig \/ SelfTest \/ TestPorts
  BY <1>3 DEF ReadConfig, SelfTest, TestPorts, At, driver
<1>4. CASE Reset(DEV1, "reset1", "reset1done") \/ Reset(DEV2, "reset2", "reset2done")
  BY <1>4 DEF Reset, At, driver
<1>5. CASE ResetDone(DEV1, "reset1done", "reset2") \/ ResetDone(DEV2, "reset2done", "F5")
  BY <1>5 DEF ResetDone, At
<1>6. CASE Command("F5", device, "F5", "F2") \/ Command("F2", device, "F2", "byte0_store")
  BY <1>6 DEF Command, At, driver, Types, Devices
<1>7. CASE Byte0Store \/ Byte0 \/ Byte1
  BY <1>7 DEF Byte0Store, Byte0, Byte1, ReadByte, At
<1>8. CASE Drain("detected", "next") \/ Drain("clearBuffer", "keyboard")
  BY <1>8 DEF Drain, At, driver
<1>9. CASE NextDevice \/ Finish \/ ps2_handleDevice
  BY <1>9 DEF NextDevice, Finish, ps2_handleDevice, At
<1>10. CASE \/ Command("F0", getKeyboardDev, "F0", "02")
            \/ Command("02", getKeyboardDev, "02", "F4")
            \/ Command("F4", getKeyboardDev, "F4", "done")
  BY <1>10 DEF Command, At, driver
<1>11. CASE UNCHANGED vars
  BY <1>11 DEF vars, driver
<1> QED
  BY <1>1, <1>2, <1>3, <1>4, <1>5, <1>6, <1>7, <1>8, <1>9, <1>10, <1>11 DEF Next

LEMMA Rests ==
  ASSUME NEW kind
  PROVE  /\ ResetRest(kind) \in Nat /\ ResetRest(kind) <= 2
         /\ NameRest(kind) \in Nat /\ NameRest(kind) <= 2
         /\ ResetRest(kind) + NameRest(kind) <= 3
BY DEF ResetRest, NameRest

\* At most six bytes are left over.
LEMMA UnreadBound ==
  /\ Rest1 \in Nat /\ Rest2 \in Nat /\ Name1 \in Nat /\ Name2 \in Nat
  /\ Unread \in Nat /\ Unread <= 6
<1>1. /\ Rest1 \in Nat /\ Rest1 <= ResetRest(machine.device[DEV1])
      /\ Name1 \in Nat /\ Name1 <= NameRest(machine.device[DEV1])
  BY Rests DEF Rest1, Name1
<1>2. /\ Rest2 \in Nat /\ Rest2 <= ResetRest(machine.device[DEV2])
      /\ Name2 \in Nat /\ Name2 <= NameRest(machine.device[DEV2])
  BY Rests DEF Rest2, Name2
<1>3. /\ ResetRest(machine.device[DEV1]) + NameRest(machine.device[DEV1]) <= 3
      /\ ResetRest(machine.device[DEV2]) + NameRest(machine.device[DEV2]) <= 3
      /\ ResetRest(machine.device[DEV1]) \in Nat /\ NameRest(machine.device[DEV1]) \in Nat
      /\ ResetRest(machine.device[DEV2]) \in Nat /\ NameRest(machine.device[DEV2]) \in Nat
  BY Rests
<1> HIDE DEF ResetRest, NameRest
<1>4. Unread = Rest1 + Rest2 + Name1 + Name2
  BY DEF Unread
<1> QED
  BY <1>1, <1>2, <1>3, <1>4

LEMMA UnreadNext ==
  (Rest1 \in Nat /\ Rest2 \in Nat /\ Name1 \in Nat /\ Name2 \in Nat)'
<1>1. Rest1 \in Nat /\ Rest2 \in Nat /\ Name1 \in Nat /\ Name2 \in Nat
  BY UnreadBound
<1> QED
  BY <1>1, PTL

LEMMA UnreadGrows ==
  ASSUME Onward
  PROVE  /\ Rest1' >= Rest1 /\ Rest2' >= Rest2 /\ Name1' >= Name1 /\ Name2' >= Name2
         /\ Rest1' \in Nat /\ Rest2' \in Nat /\ Name1' \in Nat /\ Name2' \in Nat
         /\ Rest1 \in Nat /\ Rest2 \in Nat /\ Name1 \in Nat /\ Name2 \in Nat
         /\ Unread' = Rest1' + Rest2' + Name1' + Name2'
         /\ Unread = Rest1 + Rest2 + Name1 + Name2
<1>1. /\ Rest1 \in Nat /\ Rest2 \in Nat /\ Name1 \in Nat /\ Name2 \in Nat
  BY UnreadBound
<1>2. /\ Rest1' \in Nat /\ Rest2' \in Nat /\ Name1' \in Nat /\ Name2' \in Nat
  BY UnreadNext
<1>3. Rest1' >= Rest1
  BY <1>1, <1>2 DEF Rest1, Onward
<1>4. Rest2' >= Rest2
  BY <1>1, <1>2 DEF Rest2, Onward
<1>5. Name1' >= Name1
  BY <1>1, <1>2 DEF Name1, Onward
<1>6. Name2' >= Name2
  BY <1>1, <1>2 DEF Name2, Onward
<1> QED
  BY <1>1, <1>2, <1>3, <1>4, <1>5, <1>6 DEF Unread

LEMMA WayFacts ==
  ASSUME Types
  PROVE  /\ Coming1 \in Nat /\ Coming2 \in Nat
         /\ Buffered \in Nat /\ Buffered <= 1 /\ OnTheWay \in Nat
<1>1. coming[DEV1] \in Seq(Bytes) /\ coming[DEV2] \in Seq(Bytes)
  BY DEF Types, Devices
<1>2. Coming1 \in Nat /\ Coming2 \in Nat
  BY <1>1, Lengths DEF Coming1, Coming2
<1>3. Buffered \in Nat /\ Buffered <= 1
  BY DEF Buffered
<1> QED
  BY <1>2, <1>3 DEF OnTheWay

LEMMA WayFactsNext ==
  (Types => OnTheWay \in Nat)'
<1>1. Types => OnTheWay \in Nat
  BY WayFacts
<1> QED
  BY <1>1, PTL

\* Reading takes a byte if there is one.
LEMMA WayRead ==
  ASSUME Types, coming' = coming, out' = Empty(out)
  PROVE  OnTheWay' = OnTheWay - Buffered
<1>1. out'.full = FALSE
  BY DEF Empty, Types
<1>2. Buffered' = 0 /\ Coming1' = Coming1 /\ Coming2' = Coming2
  BY <1>1 DEF Buffered, Coming1, Coming2
<1> QED
  BY <1>2, WayFacts DEF OnTheWay

LEMMA WayKept ==
  ASSUME coming' = coming, out'.full = out.full
  PROVE  OnTheWay' = OnTheWay
BY DEF OnTheWay, Buffered, Coming1, Coming2

LEMMA WayAnswered ==
  ASSUME Types, coming' = coming, Answered
  PROVE  OnTheWay' = OnTheWay
<1>1. out'.full = out.full
  BY DEF Answered, Types
<1> QED
  BY <1>1, WayKept

LEMMA WayDeliver ==
  ASSUME Types, NEW d \in Devices, Deliver(d)
  PROVE  OnTheWay' = OnTheWay
<1>1. coming[d] \in Seq(Bytes) /\ coming[d] # <<>>
  BY DEF Types, Deliver
<1>2. Len(Tail(coming[d])) = Len(coming[d]) - 1
  BY <1>1, Parts
<1>3. coming'[d] = Tail(coming[d]) /\ \A e \in Devices \ {d} : coming'[e] = coming[e]
  BY DEF Deliver, Types
<1>4. Buffered = 0 /\ Buffered' = 1
  BY DEF Deliver, Buffered
<1>5. CASE d = DEV1
  <2>1. coming'[DEV1] = Tail(coming[DEV1]) /\ coming'[DEV2] = coming[DEV2]
    BY <1>3, <1>5 DEF Devices, DEV1, DEV2
  <2>2. Coming1' = Coming1 - 1 /\ Coming2' = Coming2
    BY <1>2, <2>1, <1>5 DEF Coming1, Coming2
  <2> QED
    BY <2>1, <2>2, <1>4, WayFacts DEF OnTheWay
<1>6. CASE d = DEV2
  <2>1. coming'[DEV2] = Tail(coming[DEV2]) /\ coming'[DEV1] = coming[DEV1]
    BY <1>3, <1>6 DEF Devices, DEV1, DEV2
  <2>2. Coming2' = Coming2 - 1 /\ Coming1' = Coming1
    BY <1>2, <2>1, <1>6 DEF Coming1, Coming2
  <2> QED
    BY <2>1, <2>2, <1>4, WayFacts DEF OnTheWay
<1> QED
  BY <1>5, <1>6 DEF Devices

LEMMA WayReceive ==
  ASSUME Types, NEW d \in Devices, NEW byte, Receive(d, byte), out' = out
  PROVE  OnTheWay' = OnTheWay + Len(Answers(machine.device[d], byte))
<1> DEFINE a == Answers(machine.device[d], byte)
<1>1. a \in Seq(Bytes)
  BY MachineFacts, AnswerFacts DEF Types
<1>2. coming'[d] = coming[d] \o a /\ \A e \in Devices \ {d} : coming'[e] = coming[e]
  BY ReceiveTypes
<1>3. coming[d] \in Seq(Bytes)
  BY DEF Types
<1> HIDE DEF a
<1>4. Len(coming'[d]) = Len(coming[d]) + Len(a) /\ Len(a) \in Nat
  BY <1>1, <1>2, <1>3, Lengths
<1>5. Buffered' = Buffered
  BY DEF Buffered
<1>6. CASE d = DEV1
  <2>1. coming'[DEV2] = coming[DEV2]
    BY <1>2, <1>6 DEF Devices, DEV1, DEV2
  <2>2. Coming1' = Coming1 + Len(a) /\ Coming2' = Coming2
    BY <2>1, <1>4, <1>6 DEF Coming1, Coming2
  <2> QED
    BY <2>2, <1>4, <1>5, WayFacts DEF OnTheWay, a
<1>7. CASE d = DEV2
  <2>1. coming'[DEV1] = coming[DEV1]
    BY <1>2, <1>7 DEF Devices, DEV1, DEV2
  <2>2. Coming2' = Coming2 + Len(a) /\ Coming1' = Coming1
    BY <2>1, <1>4, <1>7 DEF Coming1, Coming2
  <2> QED
    BY <2>2, <1>4, <1>5, WayFacts DEF OnTheWay, a
<1> QED
  BY <1>6, <1>7 DEF Devices

LEMMA CountedKept ==
  ASSUME Types, Types', Counted, Onward, OnTheWay' <= OnTheWay, ack = "wait" => ack' = "wait"
  PROVE  Counted'
<1>1. Waiting \in Nat /\ Waiting' \in Nat /\ Waiting' >= Waiting
  BY DEF Waiting
<1>2. OnTheWay \in Nat
  BY WayFacts
<1>3. OnTheWay' \in Nat
  BY WayFactsNext
<1> QED
  BY <1>1, <1>2, <1>3, UnreadGrows DEF Counted

LEMMA Added ==
  ASSUME Onward, Counted, NEW n \in Nat, OnTheWay \in Nat, Unread' >= Unread + (n - 1),
         OnTheWay' = OnTheWay + n, Waiting = 0, Waiting' = 1
  PROVE  Counted'
<1>1. Unread \in Int /\ Unread' \in Int
  BY UnreadGrows
<1>2. OnTheWay <= Unread
  BY <1>1 DEF Counted
<1>3. OnTheWay + n <= Unread + n
  BY <1>1, <1>2
<1>4. Unread + n <= Unread' + 1
  BY UnreadGrows
<1>5. OnTheWay' <= Unread' + 1
  BY <1>3, <1>4, UnreadGrows
<1> QED
  BY <1>5 DEF Counted

\* A device that answers a command has the acknowledgement waited for, and the
\* rest is counted.
LEMMA CountedReceive ==
  ASSUME Types, Types', Counted, Onward, ack = "none", ack' = "wait", out' = out,
         NEW d \in Devices, NEW byte, Receive(d, byte),
         Unread' >= Unread + (Len(Answers(machine.device[d], byte)) - 1)
  PROVE  Counted'
<1> DEFINE a == Answers(machine.device[d], byte)
<1>1. OnTheWay' = OnTheWay + Len(a)
  BY WayReceive
<1>2. a \in Seq(Bytes)
  BY MachineFacts, AnswerFacts DEF Types
<1> HIDE DEF a
<1>3. Len(a) \in Nat
  BY <1>2
<1>4. Waiting = 0 /\ Waiting' = 1
  BY DEF Waiting
<1>5. OnTheWay \in Nat
  BY WayFacts
<1>6. Unread' >= Unread + (Len(a) - 1)
  BY DEF a
<1> DEFINE n == Len(a)
<1>7. OnTheWay' = OnTheWay + n /\ n \in Nat /\ Unread' >= Unread + (n - 1)
  BY <1>1, <1>3, <1>6
<1> HIDE DEF n
<1> QED
  BY <1>7, <1>4, <1>5, Added

LEMMA CountedWaitACK ==
  ASSUME Types, Types', Counted, Onward, waitACK
  PROVE  Counted'
<1>0. coming' = coming /\ out' = Empty(out)
  BY DEF waitACK
<1>1. OnTheWay' = OnTheWay - Buffered
  BY <1>0, WayRead
<1>2. CASE ack = "wait"
  <2>1. Buffered = 1 /\ Waiting = 1 /\ Waiting' = 0
    BY <1>2 DEF waitACK, Buffered, Waiting
  <2> QED
    BY <2>1, <1>1, WayFacts, UnreadGrows DEF Counted
<1>3. CASE ack # "wait"
  <2>1. OnTheWay' <= OnTheWay
    BY <1>1, WayFacts
  <2> QED
    BY <2>1, <1>3, CountedKept
<1> QED
  BY <1>2, <1>3

LEMMA Enough ==
  ASSUME Onward, NEW n \in Nat, NEW r \in Nat, n <= 1 + r, Unread' >= Unread + r
  PROVE  Unread' >= Unread + (n - 1)
BY UnreadGrows

LEMMA CountedReset ==
  ASSUME Types, Types', Counted, Onward,
         \/ Reset(DEV1, "reset1", "reset1done") \/ Reset(DEV2, "reset2", "reset2done")
  PROVE  Counted'
<1> SUFFICES ASSUME NEW d \in Devices, NEW label, NEW next, Reset(d, label, next),
                    \/ d = DEV1 /\ label = "reset1" /\ next = "reset1done"
                    \/ d = DEV2 /\ label = "reset2" /\ next = "reset2done"
             PROVE  Counted'
  BY DEF Devices
<1>0. ack = "none" /\ out' = out /\ machine' = machine /\ pc = label /\ pc' = next
  BY DEF Reset, At
<1>1. CASE d \in usable_channels
  <2>1. Receive(d, "FF") /\ ack' = "wait"
    BY <1>1 DEF Reset
  <2>2. machine.device[d] \in Kinds
    BY MachineFacts DEF Types
  <2>3. /\ Len(Answers(machine.device[d], "FF")) <= 1 + ResetRest(machine.device[d])
        /\ Answers(machine.device[d], "FF") \in Seq(Bytes)
    BY <2>2, AnswerFacts
  <2>4. Len(Answers(machine.device[d], "FF")) \in Nat
    BY <2>3
  <2>5. ResetRest(machine.device[d]) \in Nat
    BY Rests
  <2>6. CASE d = DEV1
    <3>1. Rest1 = 0 /\ Rest1' = ResetRest(machine.device[d])
      BY <1>0, <2>6 DEF Rest1, Sent1, Labels, Silent, DEV1, DEV2
    <3>2. Unread' >= Unread + ResetRest(machine.device[d])
      BY <3>1, <2>5, UnreadGrows
    <3>3. Unread' >= Unread + (Len(Answers(machine.device[d], "FF")) - 1)
      BY <3>2, <2>3, <2>4, <2>5, Enough
    <3> QED
      BY <3>3, <2>1, <1>0, CountedReceive
  <2>7. CASE d = DEV2
    <3>1. Rest2 = 0 /\ Rest2' = ResetRest(machine.device[d])
      BY <1>0, <2>7 DEF Rest2, Sent1, Sent2, Labels, Silent, DEV1, DEV2
    <3>2. Unread' >= Unread + ResetRest(machine.device[d])
      BY <3>1, <2>5, UnreadGrows
    <3>3. Unread' >= Unread + (Len(Answers(machine.device[d], "FF")) - 1)
      BY <3>2, <2>3, <2>4, <2>5, Enough
    <3> QED
      BY <3>3, <2>1, <1>0, CountedReceive
  <2> QED
    BY <2>6, <2>7 DEF Devices
<1>2. CASE d \notin usable_channels
  <2>1. coming' = coming /\ ack' = ack
    BY <1>2 DEF Reset
  <2>2. OnTheWay' = OnTheWay
    BY <2>1, <1>0, WayKept
  <2>3. OnTheWay' <= OnTheWay
    BY <2>2, WayFacts
  <2> QED
    BY <2>1, <2>3, CountedKept
<1> QED
  BY <1>1, <1>2

\* A command that is not sent, or that is answered by the acknowledgement and what
\* the new label counts.
LEMMA CountedCommand ==
  ASSUME Types, Types', Counted, Onward, NEW d \in Devices \cup {DEV_INV}, NEW label, NEW byte,
         NEW next, Command(label, d, byte, next),
         d \in Devices => Unread' >= Unread + (Len(Answers(machine.device[d], byte)) - 1)
  PROVE  Counted'
<1>0. ack = "none" /\ out' = out /\ machine' = machine
  BY DEF Command, At
<1>1. CASE coming' = coming
  <2>1. OnTheWay' = OnTheWay
    BY <1>0, <1>1, WayKept
  <2>2. OnTheWay' <= OnTheWay
    BY <2>1, WayFacts
  <2> QED
    BY <1>0, <2>2, CountedKept
<1>2. CASE coming' # coming
  <2>1. ~ NoDevice(d) /\ Receive(d, byte) /\ ack' = "wait"
    BY <1>2 DEF Command, ps2_sendDataTo
  <2>2. d \in Devices
    BY <2>1 DEF NoDevice
  <2> QED
    BY <2>1, <2>2, <1>0, CountedReceive
<1> QED
  BY <1>1, <1>2

\* Any other command is just acknowledged.
LEMMA CountedPlain ==
  ASSUME Types, Types', Counted, Onward, NEW d \in Devices \cup {DEV_INV}, NEW label, NEW byte,
         NEW next, Command(label, d, byte, next), byte # "FF" /\ byte # "F2"
  PROVE  Counted'
<1> SUFFICES ASSUME d \in Devices
             PROVE  Unread' >= Unread + (Len(Answers(machine.device[d], byte)) - 1)
  BY CountedCommand
<1>1. machine.device[d] \in Kinds
  BY MachineFacts DEF Types
<1>2. /\ Answers(machine.device[d], byte) \in Seq(Bytes)
      /\ Len(Answers(machine.device[d], byte)) <= 1
  BY <1>1, AnswerFacts
<1>3. Len(Answers(machine.device[d], byte)) \in Nat
  BY <1>2
<1> QED
  BY <1>2, <1>3, UnreadGrows

LEMMA CountedName ==
  ASSUME Types, Types', Counted, Onward, Command("F2", device, "F2", "byte0_store")
  PROVE  Counted'
<1>0. device \in Devices \cup {DEV_INV} /\ device \in Devices
  BY DEF Types
<1> SUFFICES Unread' >= Unread + (Len(Answers(machine.device[device], "F2")) - 1)
  BY <1>0, CountedCommand
<1>1. machine.device[device] \in Kinds
  BY <1>0, MachineFacts DEF Types
<1>2. /\ Answers(machine.device[device], "F2") \in Seq(Bytes)
      /\ Len(Answers(machine.device[device], "F2")) <= 1 + NameRest(machine.device[device])
  BY <1>1, AnswerFacts
<1>3. Len(Answers(machine.device[device], "F2")) \in Nat
  BY <1>2
<1>4. NameRest(machine.device[device]) \in Nat
  BY Rests
<1>5. /\ pc = "F2" /\ pc' = "byte0_store" /\ machine' = machine /\ device' = device
  BY DEF Command, At, driver
<1>6. CASE device = DEV1
  <2>1. ~ Named(DEV1) /\ Named(DEV1)'
    BY <1>5, <1>6 DEF Named, Naming, Sent2, Sent1, Labels, Silent, DEV1, DEV2
  <2>2. Name1 = 0 /\ Name1' = NameRest(machine.device[device])
    BY <2>1, <1>5, <1>6 DEF Name1
  <2>3. Unread' >= Unread + NameRest(machine.device[device])
    BY <2>2, <1>4, UnreadGrows
  <2> QED
    BY <2>3, <1>2, <1>3, <1>4, Enough
<1>7. CASE device = DEV2
  <2>1. ~ Named(DEV2) /\ Named(DEV2)'
    BY <1>5, <1>7 DEF Named, Naming, Sent2, Sent1, Labels, Silent, DEV1, DEV2
  <2>2. Name2 = 0 /\ Name2' = NameRest(machine.device[device])
    BY <2>1, <1>5, <1>7 DEF Name2
  <2>3. Unread' >= Unread + NameRest(machine.device[device])
    BY <2>2, <1>4, UnreadGrows
  <2> QED
    BY <2>3, <1>2, <1>3, <1>4, Enough
<1> QED
  BY <1>0, <1>6, <1>7 DEF Devices

\* A read of the buffer, wherever it is.
LEMMA CountedRead ==
  ASSUME Types, Types', Counted, Onward, ack = "none", coming' = coming,
         \/ out' = Empty(out) \/ Answered \/ out' = out
  PROVE  Counted'
<1>1. OnTheWay' <= OnTheWay
  <2>1. OnTheWay' = OnTheWay - Buffered \/ OnTheWay' = OnTheWay
    BY WayRead, WayAnswered, WayKept
  <2> QED
    BY <2>1, WayFacts
<1> QED
  BY <1>1, CountedKept

LEMMA CountedStep ==
  ASSUME Types, Types', Counted, [Next]_vars
  PROVE  Counted'
<1>0. Onward
  BY OnwardStep
<1>1. CASE \E d \in Devices : Deliver(d)
  <2> SUFFICES ASSUME NEW d \in Devices, Deliver(d)
               PROVE  Counted'
    BY <1>1
  <2>1. OnTheWay' = OnTheWay /\ ack' = ack
    BY WayDeliver DEF Deliver
  <2>2. OnTheWay' <= OnTheWay
    BY <2>1, WayFacts
  <2> QED
    BY <2>1, <2>2, <1>0, CountedKept
<1>2. CASE waitACK
  BY <1>0, <1>2, CountedWaitACK
<1>3. CASE Drain("clear", "config") \/ Drain("detected", "next") \/ Drain("clearBuffer", "keyboard")
  BY <1>0, <1>3, CountedRead DEF Drain, At
<1>4. CASE ReadConfig \/ SelfTest \/ TestPorts \/ Finish
  BY <1>0, <1>4, CountedRead DEF ReadConfig, SelfTest, TestPorts, Finish, At
<1>5. CASE Reset(DEV1, "reset1", "reset1done") \/ Reset(DEV2, "reset2", "reset2done")
  BY <1>0, <1>5, CountedReset
<1>6. CASE \/ ResetDone(DEV1, "reset1done", "reset2") \/ ResetDone(DEV2, "reset2done", "F5")
           \/ NextDevice \/ ps2_handleDevice
  <2>1. ack = "none" /\ coming' = coming /\ out' = out
    BY <1>6 DEF ResetDone, NextDevice, ps2_handleDevice, wires, At
  <2> QED
    BY <2>1, <1>0, CountedRead
<1>7. CASE Command("F5", device, "F5", "F2")
  <2>1. device \in Devices \cup {DEV_INV}
    BY DEF Types
  <2> QED
    BY <2>1, <1>0, <1>7, CountedPlain
<1>8. CASE Command("F2", device, "F2", "byte0_store")
  BY <1>0, <1>8, CountedName
<1>9. CASE Byte0Store \/ Byte0 \/ Byte1
  BY <1>0, <1>9, CountedRead DEF Byte0Store, Byte0, Byte1, ReadByte, At
<1>10. CASE Command("F0", getKeyboardDev, "F0", "02")
  BY <1>0, <1>10, CountedPlain, KeyboardDevice
<1>11. CASE Command("02", getKeyboardDev, "02", "F4")
  BY <1>0, <1>11, CountedPlain, KeyboardDevice
<1>12. CASE Command("F4", getKeyboardDev, "F4", "done")
  BY <1>0, <1>12, CountedPlain, KeyboardDevice
<1>13. CASE UNCHANGED vars
  <2>1. OnTheWay' = OnTheWay /\ ack' = ack
    BY <1>13, WayKept DEF vars, wires
  <2>2. OnTheWay' <= OnTheWay
    BY <2>1, WayFacts
  <2> QED
    BY <2>1, <2>2, <1>0, CountedKept
<1> QED
  BY <1>1, <1>2, <1>3, <1>4, <1>5, <1>6, <1>7, <1>8, <1>9, <1>10, <1>11, <1>12, <1>13 DEF Next

\* So no device has more than seven bytes on their way.
LEMMA SevenBytes ==
  ASSUME Types, Counted
  PROVE  \A d \in Devices : Len(coming[d]) <= 7
<1>1. Waiting \in Nat /\ Waiting <= 1
  BY DEF Waiting
<1>2. OnTheWay <= 7
  BY <1>1, UnreadBound, WayFacts DEF Counted
<1>3. Coming1 <= 7 /\ Coming2 <= 7
  BY <1>2, WayFacts DEF OnTheWay
<1> QED
  BY <1>3 DEF Coming1, Coming2, Devices

-----------------------------------------------------------------------------
(* The dialogue with one keyboard.                                         *)

\* What is read first and what is left.
LEMMA FirstAndRest ==
  /\ Head(Back) = "FA" /\ Tail(Back) = Passed
  /\ Head(Passed) = "AA" /\ Tail(Passed) = None
  /\ Head(PassedAck) = "AA" /\ Tail(PassedAck) = Ack
  /\ Head(Ack) = "FA" /\ Tail(Ack) = None
  /\ Head(Mf2Name) = "FA" /\ Tail(Mf2Name) = NamePair
  /\ Head(NamePair) = "AB" /\ Tail(NamePair) = NameLast
  /\ Head(NameLast) = "83" /\ Tail(NameLast) = None
  /\ Head(AckAck) = "FA" /\ Tail(AckAck) = Ack
  /\ Head(AckMf2Name) = "FA" /\ Tail(AckMf2Name) = Mf2Name
<1>1. Head(Back) = "FA" /\ Tail(Back) = Passed
  BY Ends DEF Back, Passed
<1>2. Head(Passed) = "AA" /\ Tail(Passed) = None
  BY Ends DEF Passed, None
<1>3. Head(PassedAck) = "AA" /\ Tail(PassedAck) = Ack
  <2>1. Ack \in Seq(Bytes) /\ "AA" \in Bytes
    BY Short DEF Bytes
  <2>2. Head(<<"AA">> \o Ack) = "AA" /\ Tail(<<"AA">> \o Ack) = Ack
    BY <2>1, InFront
  <2> QED
    BY <2>2 DEF PassedAck, Passed
<1>4. Head(Ack) = "FA" /\ Tail(Ack) = None
  BY Ends DEF Ack, None
<1>5. Head(Mf2Name) = "FA" /\ Tail(Mf2Name) = NamePair
  BY Ends DEF Mf2Name, NamePair
<1>6. Head(NamePair) = "AB" /\ Tail(NamePair) = NameLast
  BY Ends DEF NamePair, NameLast
<1>7. Head(NameLast) = "83" /\ Tail(NameLast) = None
  BY Ends DEF NameLast, None
<1>8. Head(AckAck) = "FA" /\ Tail(AckAck) = Ack
  <2>1. Ack \in Seq(Bytes) /\ "FA" \in Bytes
    BY Short DEF Bytes
  <2>2. Head(<<"FA">> \o Ack) = "FA" /\ Tail(<<"FA">> \o Ack) = Ack
    BY <2>1, InFront
  <2> QED
    BY <2>2 DEF AckAck, Ack
<1>9. Head(AckMf2Name) = "FA" /\ Tail(AckMf2Name) = Mf2Name
  <2>1. Mf2Name \in Seq(Bytes) /\ "FA" \in Bytes
    BY Short DEF Bytes
  <2>2. Head(<<"FA">> \o Mf2Name) = "FA" /\ Tail(<<"FA">> \o Mf2Name) = Mf2Name
    BY <2>1, InFront
  <2> QED
    BY <2>2 DEF AckMf2Name, Ack
<1> QED
  BY <1>1, <1>2, <1>3, <1>4, <1>5, <1>6, <1>7, <1>8, <1>9

LEMMA NotNone ==
  /\ Back # None /\ Passed # None /\ PassedAck # None /\ Ack # None /\ Mf2Name # None
  /\ NamePair # None /\ NameLast # None /\ AckAck # None /\ AckMf2Name # None
<1>1. Len(None) = 0
  BY DEF None
<1>2. Len(Back) = 2 /\ Len(NamePair) = 2 /\ Len(Mf2Name) = 3
  BY DEF Back, NamePair, Mf2Name
<1>3. Len(Passed) = 1 /\ Len(Ack) = 1 /\ Len(NameLast) = 1
  BY DEF Passed, Ack, NameLast
<1>4. "AA" \in Bytes /\ "FA" \in Bytes
  BY DEF Bytes
<1>5. <<"AA">> \o Ack # <<>> /\ <<"FA">> \o Ack # <<>> /\ <<"FA">> \o Mf2Name # <<>>
  BY Short, <1>4, InFront
<1>6. PassedAck # None
  BY <1>5 DEF PassedAck, Passed, None
<1>7. AckAck # None
  BY <1>5 DEF AckAck, Ack, None
<1>8. AckMf2Name # None
  BY <1>5 DEF AckMf2Name, Ack, None
<1>9. Back # None /\ NamePair # None /\ Mf2Name # None
  BY <1>1, <1>2
<1>10. Passed # None /\ Ack # None /\ NameLast # None
  BY <1>1, <1>3
<1> QED
  BY <1>6, <1>7, <1>8, <1>9, <1>10

\* What is sent behind it.
LEMMA Appended ==
  /\ None \o Back = Back /\ None \o Ack = Ack /\ None \o Mf2Name = Mf2Name
  /\ Passed \o Ack = PassedAck /\ Ack \o Ack = AckAck /\ Ack \o Mf2Name = AckMf2Name
<1>1. None \o Back = Back /\ None \o Ack = Ack /\ None \o Mf2Name = Mf2Name
  BY Short, Nothing DEF None
<1> QED
  BY <1>1 DEF PassedAck, AckAck, AckMf2Name

LEMMA FlightFacts ==
  ASSUME Types
  PROVE  /\ Flight \in Seq(Bytes)
         /\ out.full => /\ Flight # None /\ Head(Flight) = out.byte
                        /\ Tail(Flight) = coming[DEV1]
         /\ ~ out.full => Flight = coming[DEV1]
<1>1. coming[DEV1] \in Seq(Bytes) /\ out.byte \in Bytes
  BY DEF Types, Devices
<1>2. CASE out.full
  <2>1. Flight = <<out.byte>> \o coming[DEV1]
    BY <1>2 DEF Flight
  <2>2. /\ <<out.byte>> \o coming[DEV1] \in Seq(Bytes)
        /\ <<out.byte>> \o coming[DEV1] # <<>>
        /\ Head(<<out.byte>> \o coming[DEV1]) = out.byte
        /\ Tail(<<out.byte>> \o coming[DEV1]) = coming[DEV1]
    BY <1>1, InFront
  <2> QED
    BY <1>2, <2>1, <2>2 DEF None
<1>3. CASE ~ out.full
  <2>1. Flight = <<>> \o coming[DEV1]
    BY <1>3 DEF Flight
  <2> QED
    BY <1>1, <1>3, <2>1, Nothing
<1> QED
  BY <1>2, <1>3

LEMMA FlightFactsNext ==
  (Types /\ ~ out.full => Flight = coming[DEV1])'
<1>1. Types /\ ~ out.full => Flight = coming[DEV1]
  BY FlightFacts
<1> QED
  BY <1>1, PTL

LEMMA FlightKept ==
  ASSUME out'.full = out.full, out'.byte = out.byte, coming'[DEV1] = coming[DEV1]
  PROVE  Flight' = Flight
BY DEF Flight

\* A read takes the first byte, if there is one in the buffer.
LEMMA FlightRead ==
  ASSUME Types, coming' = coming, out' = Empty(out)
  PROVE  /\ out'.byte = out.byte /\ ~ out'.full
         /\ out.full => /\ Flight # None /\ out.byte = Head(Flight)
                        /\ Flight' = Tail(Flight)
         /\ ~ out.full => Flight' = Flight
<1>1. out'.byte = out.byte /\ out'.full = FALSE
  BY DEF Empty, Types
<1>2. Flight' = <<>> \o coming[DEV1]
  BY <1>1 DEF Flight
<1>3. Flight' = coming[DEV1]
  BY <1>2, Nothing DEF Types, Devices
<1> QED
  BY <1>1, <1>3, FlightFacts

LEMMA FlightDeliver ==
  ASSUME Types, Deliver(DEV1)
  PROVE  Flight' = Flight /\ Flight # None
<1>0. DEV1 \in Devices
  BY DEF Devices
<1>1. coming[DEV1] \in Seq(Bytes) /\ coming[DEV1] # <<>>
  BY <1>0 DEF Types, Deliver
<1>2. out'.full = TRUE /\ out'.byte = Head(coming[DEV1]) /\ coming'[DEV1] = Tail(coming[DEV1])
  BY DEF Deliver, Types, Devices
<1>3. Flight' = <<Head(coming[DEV1])>> \o Tail(coming[DEV1])
  BY <1>2 DEF Flight
<1>4. Flight' = coming[DEV1]
  BY <1>1, <1>3, Parts
<1>5. Flight = coming[DEV1]
  BY FlightFacts DEF Deliver
<1> QED
  BY <1>1, <1>4, <1>5 DEF None

LEMMA FlightReceive ==
  ASSUME Types, NEW byte, Receive(DEV1, byte), out' = out
  PROVE  /\ Flight' = Flight \o Answers(machine.device[DEV1], byte)
         /\ coming'[DEV2] = coming[DEV2]
<1> DEFINE a == Answers(machine.device[DEV1], byte)
<1>0. DEV1 \in Devices
  BY DEF Devices
<1>1. a \in Seq(Bytes)
  BY MachineFacts, AnswerFacts DEF Types
<1>2. coming'[DEV1] = coming[DEV1] \o a /\ coming'[DEV2] = coming[DEV2]
  <2>1. DEV2 \in Devices \ {DEV1}
    BY DEF Devices, DEV1, DEV2
  <2> QED
    BY <1>0, <2>1, ReceiveTypes
<1>3. coming[DEV1] \in Seq(Bytes) /\ out.byte \in Bytes
  BY <1>0 DEF Types
<1> HIDE DEF a
<1>4. CASE out.full
  <2>1. Flight = <<out.byte>> \o coming[DEV1] /\ Flight' = <<out.byte>> \o (coming[DEV1] \o a)
    BY <1>2, <1>4 DEF Flight
  <2>2. (<<out.byte>> \o coming[DEV1]) \o a = <<out.byte>> \o (coming[DEV1] \o a)
    BY <1>1, <1>3, Behind
  <2> QED
    BY <2>1, <2>2, <1>2 DEF a
<1>5. CASE ~ out.full
  <2>1. Flight = <<>> \o coming[DEV1] /\ Flight' = <<>> \o (coming[DEV1] \o a)
    BY <1>2, <1>5 DEF Flight
  <2>2. coming[DEV1] \o a \in Seq(Bytes)
    BY <1>1, <1>3, Lengths
  <2>3. Flight = coming[DEV1] /\ Flight' = coming[DEV1] \o a
    BY <1>3, <2>1, <2>2, Nothing
  <2> QED
    BY <2>3, <1>2 DEF a
<1> QED
  BY <1>4, <1>5

\* While there is one keyboard and no watch dog has expired, it was so before,
\* from the tests of the ports on.
LEMMA OneBefore ==
  ASSUME Types, [Next]_vars, One', Tested
  PROVE  One /\ Tested' /\ machine' = machine /\ hasDEV2' = hasDEV2 /\ ~ late /\ ~ late'
<1> USE DEF Tested
<1>1. machine' = machine /\ hasDEV2' = hasDEV2 /\ (late => late') /\ Tested'
  <2>1. CASE (\E d \in Devices : Deliver(d)) \/ waitACK
    BY <2>1 DEF Deliver, waitACK, driver
  <2>2. CASE Drain("clear", "config") \/ ReadConfig \/ SelfTest \/ TestPorts
    BY <2>2 DEF Drain, ReadConfig, SelfTest, TestPorts, At
  <2>3. CASE Reset(DEV1, "reset1", "reset1done") \/ Reset(DEV2, "reset2", "reset2done")
    BY <2>3 DEF Reset, driver
  <2>4. CASE ResetDone(DEV1, "reset1done", "reset2") \/ ResetDone(DEV2, "reset2done", "F5")
    BY <2>4 DEF ResetDone
  <2>5. CASE Command("F5", device, "F5", "F2") \/ Command("F2", device, "F2", "byte0_store")
    BY <2>5 DEF Command, ps2_sendDataTo, driver
  <2>6. CASE Byte0Store \/ Byte0 \/ Byte1
    BY <2>6 DEF Byte0Store, Byte0, Byte1, ReadByte
  <2>7. CASE Drain("detected", "next") \/ Drain("clearBuffer", "keyboard")
    BY <2>7 DEF Drain, driver
  <2>8. CASE NextDevice \/ Finish \/ ps2_handleDevice
    BY <2>8 DEF NextDevice, Finish, ps2_handleDevice
  <2>9. CASE \/ Command("F0", getKeyboardDev, "F0", "02")
             \/ Command("02", getKeyboardDev, "02", "F4")
             \/ Command("F4", getKeyboardDev, "F4", "done")
    BY <2>9 DEF Command, ps2_sendDataTo, driver
  <2>10. CASE UNCHANGED vars
    BY <2>10 DEF vars, driver
  <2> QED
    BY <2>1, <2>2, <2>3, <2>4, <2>5, <2>6, <2>7, <2>8, <2>9, <2>10 DEF Next
<1>2. OneKeyboard' /\ ~ late'
  BY DEF One
<1> QED
  BY <1>1, <1>2 DEF One, OneKeyboard

LEMMA OnePasses ==
  ASSUME [Next]_vars, One', ~ Tested, Tested'
  PROVE  TestPorts
<1> USE DEF Tested
<1>1. CASE (\E d \in Devices : Deliver(d)) \/ waitACK
  BY <1>1 DEF Deliver, waitACK
<1>2. CASE Drain("clear", "config") \/ ReadConfig
  BY <1>2 DEF Drain, ReadConfig, At
<1>3. CASE SelfTest
  BY <1>3 DEF SelfTest, One, OneKeyboard
<1>4. CASE Reset(DEV1, "reset1", "reset1done") \/ Reset(DEV2, "reset2", "reset2done")
  BY <1>4 DEF Reset, At
<1>5. CASE ResetDone(DEV1, "reset1done", "reset2") \/ ResetDone(DEV2, "reset2done", "F5")
  BY <1>5 DEF ResetDone, At
<1>6. CASE Command("F5", device, "F5", "F2") \/ Command("F2", device, "F2", "byte0_store")
  BY <1>6 DEF Command, At
<1>7. CASE Byte0Store \/ Byte0 \/ Byte1
  BY <1>7 DEF Byte0Store, Byte0, Byte1, ReadByte, At
<1>8. CASE Drain("detected", "next") \/ Drain("clearBuffer", "keyboard")
  BY <1>8 DEF Drain, At
<1>9. CASE NextDevice \/ Finish \/ ps2_handleDevice
  BY <1>9 DEF NextDevice, Finish, ps2_handleDevice, At
<1>10. CASE \/ Command("F0", getKeyboardDev, "F0", "02")
            \/ Command("02", getKeyboardDev, "02", "F4")
            \/ Command("F4", getKeyboardDev, "F4", "done")
  BY <1>10 DEF Command, At
<1>11. CASE UNCHANGED vars
  BY <1>11 DEF vars
<1> QED
  BY <1>1, <1>2, <1>3, <1>4, <1>5, <1>6, <1>7, <1>8, <1>9, <1>10, <1>11 DEF Next

\* What the other lemmas use of a single keyboard.
LEMMA OneFacts ==
  ASSUME Types, Table, One, Tested
  PROVE  /\ machine.device[DEV1] = "mf2" \/ machine.device[DEV1] = "at"
         /\ hasDEV2 = {} /\ ~ NoDevice(DEV1) /\ DEV1 \in Devices
         /\ device = DEV1
         /\ devType[DEV1] \in KeyboardTypes => getKeyboardDev = DEV1
<1>1. /\ machine.device[DEV1] = "mf2" \/ machine.device[DEV1] = "at"
      /\ hasDEV2 = {}
  BY DEF One, OneKeyboard
<1>2. ~ NoDevice(DEV1) /\ DEV1 \in Devices
  BY DEF NoDevice, DEV1, DEV2, DEV_INV, Devices
<1>3. device = DEV1 /\ devType[DEV2] = Unknown
  BY DEF Table, Alone
<1>4. devType[DEV1] \in KeyboardTypes => getKeyboardDev = DEV1
  BY <1>3 DEF getKeyboardDev, KeyboardTypes, Unknown
<1> QED
  BY <1>1, <1>2, <1>3, <1>4

LEMMA TableTestPorts ==
  ASSUME Types, Types', Quiet, TestPorts, One'
  PROVE  Table'
<1> DEFINE second == IF hasDEV2 # {} /\ SecondPort(machine.enabled) THEN hasDEV2 ELSE {}
           usable == ({0} \cup {b - 4 : b \in {c \in second : c >= 4}})
                     \ {d \in Devices : d \notin machine.ports /\ (d = DEV1 \/ second # {})}
<1>1. /\ pc = "second" /\ ack' = ack /\ device' = device /\ coming' = coming
      /\ devType' = devType /\ machine' = machine
      /\ usable_channels' = usable /\ pc' = IF usable = {} THEN "keyboard" ELSE "reset1"
      /\ hasDEV2' = IF second # {} /\ DEV2 \in machine.ports THEN {0} ELSE {}
  BY DEF TestPorts, At
<1>2. DEV1 \in machine.ports /\ hasDEV2' = {}
  BY <1>1 DEF One, OneKeyboard
<1>3. ack = "none" /\ device = DEV1 /\ coming[DEV2] = <<>> /\ devType[DEV2] = Unknown
  BY <1>1 DEF Quiet, Silent, Devices
<1>4. second = {} \/ (second # {} /\ DEV2 \notin machine.ports)
  BY <1>1, <1>2
<1>5. DEV1 \in usable
  BY <1>2 DEF Devices, DEV1, DEV2
<1>6. DEV2 \notin usable
  <2>1. CASE second = {}
    BY <2>1 DEF DEV2
  <2>2. CASE second # {} /\ DEV2 \notin machine.ports
    BY <2>2 DEF Devices
  <2> QED
    BY <1>4, <2>1, <2>2
<1> HIDE DEF second, usable
<1>7. /\ pc' = "reset1" /\ ack' = "none" /\ device' = DEV1 /\ coming'[DEV2] = <<>>
      /\ devType'[DEV2] = Unknown /\ DEV1 \in usable_channels' /\ DEV2 \notin usable_channels'
  BY <1>1, <1>3, <1>5, <1>6
<1> QED
  BY <1>7 DEF Table, Alone, ResetAnswers, NameAnswers, Identified, Found

\* The bytes come one by one; where none is to come, the byte read last stays.
LEMMA TableDeliver ==
  ASSUME Types, Table, One, Tested, NEW d \in Devices, Deliver(d)
  PROVE  Table'
<1>1. coming[DEV2] = <<>>
  BY DEF Table, Alone
<1>2. d = DEV1
  BY <1>1 DEF Deliver, Devices
<1>3. Flight' = Flight /\ Flight # None
  BY <1>2, FlightDeliver
<1>4. coming'[DEV2] = coming[DEV2]
  BY <1>2 DEF Deliver, Types, Devices, DEV1, DEV2
<1>5. UNCHANGED <<machine, driver, pc, ack, acked, ctl, scanning, late>>
  BY DEF Deliver
<1>6. Alone'
  BY <1>4, <1>5 DEF Table, Alone, driver
<1>7. ResetAnswers'
  BY <1>3, <1>5 DEF Table, Tested, ResetAnswers, driver
<1>8. NameAnswers'
  BY <1>3, <1>5 DEF Table, NameAnswers, driver
<1>9. Identified'
  BY <1>3, <1>5 DEF Table, Identified, driver
<1> QED
  BY <1>6, <1>7, <1>8, <1>9 DEF Table

\* waitACK reads the answer in front, and after AA a byte that is there or not.
LEMMA TableWaitACK ==
  ASSUME Types, Table, One, Tested, waitACK
  PROVE  Table'
<1>1. /\ coming' = coming /\ out' = Empty(out)
      /\ UNCHANGED <<machine, driver, pc, scanning, ctl, late>>
  BY DEF waitACK
<1>2. /\ out'.byte = out.byte
      /\ out.full => out.byte = Head(Flight) /\ Flight' = Tail(Flight)
      /\ ~ out.full => Flight' = Flight
  BY <1>1, FlightRead
<1>3. ack = "wait" => /\ out.full /\ ack' = IF out.byte = "AA" THEN "again" ELSE "none"
                      /\ acked' = (out.byte \in {"AA", "FA"})
  BY DEF waitACK
<1>4. ack = "again" => ack' = "none"
  BY DEF waitACK
<1>5. ack = "wait" \/ ack = "again"
  BY DEF waitACK
<1>6. \/ pc = "reset1done" \/ pc = "F2" \/ pc = "byte0_store"
      \/ pc \in {"02", "F4", "done"}
  BY <1>5 DEF Table, Alone
<1>7. Alone'
  BY <1>1, <1>6 DEF Table, Alone, driver
<1>8. CASE pc = "reset1done"
  <2>1. ack = "wait" /\ Flight = Back
    BY <1>5, <1>8 DEF Table, ResetAnswers
  <2>2. out.byte = "FA" /\ Flight' = Passed
    BY <2>1, <1>2, <1>3, FirstAndRest
  <2>3. ack' = "none"
    BY <2>1, <2>2, <1>3
  <2>4. out.byte \in {"AA", "FA"}
    BY <2>2
  <2>5. acked'
    BY <2>1, <2>4, <1>3, Zenon
  <2> QED
    BY <2>2, <2>3, <2>5, <1>1, <1>7, <1>8 DEF Table, ResetAnswers, NameAnswers, Identified, Found, driver
<1>9. CASE pc = "F2"
  <2>1. \/ ack = "wait" /\ Flight = PassedAck
        \/ ack = "again" /\ Flight = Ack
    BY <1>5, <1>9 DEF Table, ResetAnswers
  <2>2. \/ ack' = "again" /\ Flight' = Ack
        \/ ack' = "none" /\ (Flight' = None \/ Flight' = Ack)
    <3>1. CASE ack = "wait" /\ Flight = PassedAck
      BY <3>1, <1>2, <1>3, FirstAndRest
    <3>2. CASE ack = "again" /\ Flight = Ack
      BY <3>2, <1>2, <1>4, FirstAndRest
    <3> QED
      BY <2>1, <3>1, <3>2
  <2>3. DEV1 \in config
    BY <1>9 DEF Table, NameAnswers
  <2> QED
    BY <2>2, <2>3, <1>1, <1>7, <1>9 DEF Table, ResetAnswers, NameAnswers, Identified, Found, driver
<1>10. CASE pc = "byte0_store"
  <2>1. /\ ack = "wait"
        /\ IF machine.device[DEV1] = "mf2" THEN Flight = Mf2Name \/ Flight = AckMf2Name
           ELSE Flight = Ack \/ Flight = AckAck
    BY <1>5, <1>10 DEF Table, NameAnswers
  <2>2. /\ ack' = "none"
        /\ IF machine.device[DEV1] = "mf2" THEN Flight' = NamePair \/ Flight' = Mf2Name
           ELSE (Flight' = None /\ out'.byte = "FA") \/ Flight' = Ack
    <3>1. out.byte = Head(Flight) /\ Flight' = Tail(Flight) /\ out'.byte = out.byte
      BY <2>1, <1>2, <1>3
    <3>2. CASE machine.device[DEV1] = "mf2"
      <4>1. out.byte = "FA" /\ (Flight' = NamePair \/ Flight' = Mf2Name)
        BY <2>1, <3>1, <3>2, FirstAndRest
      <4> QED
        BY <2>1, <3>2, <4>1, <1>3
    <3>3. CASE machine.device[DEV1] # "mf2"
      <4>1. out.byte = "FA" /\ (Flight' = None \/ Flight' = Ack)
        BY <2>1, <3>1, <3>3, FirstAndRest
      <4> QED
        BY <2>1, <3>1, <3>3, <4>1, <1>3
    <3> QED
      BY <3>2, <3>3
  <2>3. DEV1 \in config
    BY <1>10 DEF Table, NameAnswers
  <2> QED
    BY <2>2, <2>3, <1>1, <1>7, <1>10 DEF Table, ResetAnswers, NameAnswers, Identified, Found, driver
<1>11. CASE pc \in {"02", "F4", "done"}
  <2>1. ack = "wait" /\ Flight = Ack
    BY <1>5, <1>11 DEF Table, Identified, Found
  <2>2. ack' = "none" /\ Flight' = None
    BY <2>1, <1>2, <1>3, FirstAndRest
  <2>3. ResetAnswers' /\ NameAnswers'
    BY <1>1, <1>11 DEF ResetAnswers, NameAnswers
  <2>4. Identified'
    BY <2>2, <1>1, <1>11 DEF Table, Identified, Found, driver
  <2> QED
    BY <2>3, <2>4, <1>7 DEF Table
<1> QED
  BY <1>6, <1>8, <1>9, <1>10, <1>11

LEMMA TableReset1 ==
  ASSUME Types, Quiet, Table, One, Tested, Reset(DEV1, "reset1", "reset1done")
  PROVE  Table'
<1>1. /\ pc = "reset1" /\ pc' = "reset1done" /\ DEV1 \in usable_channels
      /\ device = DEV1 /\ coming[DEV2] = <<>> /\ devType[DEV2] = Unknown
      /\ DEV2 \notin usable_channels
  BY DEF Reset, At, Table, Alone
<1>2. Receive(DEV1, "FF") /\ ack' = "wait" /\ out' = out /\ driver' = driver
  BY <1>1 DEF Reset
<1>3. Flight' = Flight \o Answers(machine.device[DEV1], "FF") /\ coming'[DEV2] = coming[DEV2]
  BY <1>2, FlightReceive
<1>4. Flight = None
  <2>1. ~ out.full /\ coming = [d \in Devices |-> <<>>]
    BY <1>1 DEF Quiet, Silent
  <2>2. Flight = coming[DEV1]
    BY <2>1, FlightFacts
  <2> QED
    BY <2>1, <2>2 DEF None, Devices
<1>5. Answers(machine.device[DEV1], "FF") = Back
  BY OneFacts, AnswerIs
<1>6. Flight' = Back
  BY <1>3, <1>4, <1>5, Appended
<1> QED
  BY <1>1, <1>2, <1>3, <1>6
  DEF Table, Alone, ResetAnswers, NameAnswers, Identified, Found, driver

LEMMA TableResetDone1 ==
  ASSUME Types, Table, One, Tested, ResetDone(DEV1, "reset1done", "reset2")
  PROVE  Table'
<1>1. /\ pc = "reset1done" /\ ack = "none" /\ DEV1 \in usable_channels
      /\ device = DEV1 /\ coming[DEV2] = <<>> /\ devType[DEV2] = Unknown
      /\ DEV2 \notin usable_channels
  BY DEF ResetDone, At, Table, Alone
<1>2. Flight = Passed /\ acked
  BY <1>1 DEF Table, ResetAnswers
<1>3. /\ usable_channels' = usable_channels /\ config' = config \cup {DEV1}
      /\ pc' = "reset2"
      /\ UNCHANGED <<device, devType, ack, coming, out>>
  BY <1>1, <1>2 DEF ResetDone, wires, DEV1, DEV2
<1>4. Flight' = Flight
  BY <1>3, FlightKept
<1> QED
  BY <1>1, <1>2, <1>3, <1>4
  DEF Table, Alone, ResetAnswers, NameAnswers, Identified, Found

LEMMA TableReset2 ==
  ASSUME Types, Table, One, Tested,
         \/ Reset(DEV2, "reset2", "reset2done") \/ ResetDone(DEV2, "reset2done", "F5")
  PROVE  Table'
<1>1. /\ pc = "reset2" \/ pc = "reset2done"
      /\ device = DEV1 /\ coming[DEV2] = <<>> /\ devType[DEV2] = Unknown
      /\ DEV2 \notin usable_channels /\ DEV1 \in usable_channels
  BY DEF Reset, ResetDone, At, Table, Alone
<1>2. Flight = Passed /\ DEV1 \in config
  BY <1>1 DEF Table, ResetAnswers
<1>3. /\ pc' = "reset2done" \/ pc' = "F5"
      /\ UNCHANGED <<device, devType, usable_channels, config, ack, coming, out>>
  BY <1>1 DEF Reset, ResetDone, wires, driver
<1>4. Flight' = Flight
  BY <1>3, FlightKept
<1>5. ack = "none"
  BY DEF Reset, ResetDone, At
<1> QED
  BY <1>1, <1>2, <1>3, <1>4, <1>5
  DEF Table, Alone, ResetAnswers, NameAnswers, Identified, Found

\* A command to the keyboard, which no watch dog gives up.
LEMMA OneCommand ==
  ASSUME Types, Table, One, Tested, ~ late', NEW label, NEW byte, NEW next,
         Command(label, DEV1, byte, next)
  PROVE  /\ pc = label /\ pc' = next /\ ack' = "wait"
         /\ Flight' = Flight \o Answers(machine.device[DEV1], byte)
         /\ device' = DEV1 /\ coming'[DEV2] = <<>> /\ devType'[DEV2] = Unknown
         /\ DEV2 \notin usable_channels' /\ Receive(DEV1, byte)
         /\ UNCHANGED <<machine, driver, acked, out, ctl>>
<1>1. /\ pc = label /\ pc' = next /\ ps2_sendDataTo(DEV1, byte)
      /\ UNCHANGED <<machine, driver, acked, out, ctl>>
  BY DEF Command, At
<1>2. Receive(DEV1, byte) /\ ack' = "wait"
  BY <1>1, OneFacts DEF ps2_sendDataTo
<1>3. /\ Flight' = Flight \o Answers(machine.device[DEV1], byte)
      /\ coming'[DEV2] = coming[DEV2]
  BY <1>1, <1>2, FlightReceive
<1>4. /\ device = DEV1 /\ coming[DEV2] = <<>> /\ devType[DEV2] = Unknown
      /\ DEV2 \notin usable_channels
  BY DEF Table, Alone
<1> QED
  BY <1>1, <1>2, <1>3, <1>4 DEF driver

LEMMA TableF5 ==
  ASSUME Types, Table, One, Tested, ~ late', Command("F5", device, "F5", "F2")
  PROVE  Table'
<1>1. Command("F5", DEV1, "F5", "F2")
  BY OneFacts
<1>2. /\ pc = "F5" /\ pc' = "F2" /\ ack' = "wait"
      /\ Flight' = Flight \o Answers(machine.device[DEV1], "F5")
      /\ device' = DEV1 /\ coming'[DEV2] = <<>> /\ devType'[DEV2] = Unknown
      /\ DEV2 \notin usable_channels' /\ driver' = driver
  BY <1>1, OneCommand
<1>3. Flight = Passed /\ DEV1 \in config
  BY <1>2 DEF Table, ResetAnswers
<1>4. Answers(machine.device[DEV1], "F5") = Ack
  BY OneFacts, AnswerIs
<1>5. Flight' = PassedAck /\ DEV1 \in config'
  BY <1>2, <1>3, <1>4, Appended DEF driver
<1> QED
  BY <1>2, <1>5 DEF Table, Alone, ResetAnswers, NameAnswers, Identified, Found

LEMMA TableF2 ==
  ASSUME Types, Table, One, Tested, ~ late', Command("F2", device, "F2", "byte0_store")
  PROVE  Table'
<1>1. Command("F2", DEV1, "F2", "byte0_store")
  BY OneFacts
<1>2. /\ pc = "F2" /\ pc' = "byte0_store" /\ ack' = "wait"
      /\ Flight' = Flight \o Answers(machine.device[DEV1], "F2")
      /\ device' = DEV1 /\ coming'[DEV2] = <<>> /\ devType'[DEV2] = Unknown
      /\ DEV2 \notin usable_channels' /\ driver' = driver /\ machine' = machine
  BY <1>1, OneCommand
<1>3. (Flight = None \/ Flight = Ack) /\ DEV1 \in config
  BY <1>1, <1>2 DEF Table, ResetAnswers, NameAnswers, Command, At
<1>4. IF machine.device[DEV1] = "mf2" THEN Answers(machine.device[DEV1], "F2") = Mf2Name
      ELSE Answers(machine.device[DEV1], "F2") = Ack
  BY OneFacts, AnswerIs
<1>5. /\ IF machine.device[DEV1] = "mf2" THEN Flight' = Mf2Name \/ Flight' = AckMf2Name
         ELSE Flight' = Ack \/ Flight' = AckAck
      /\ DEV1 \in config'
  BY <1>2, <1>3, <1>4, Appended DEF driver
<1> QED
  BY <1>2, <1>5 DEF Table, Alone, ResetAnswers, NameAnswers, Identified, Found

\* ReadByte: a byte of the keyboard, or the one read last when none is to come.
LEMMA OneRead ==
  ASSUME Types, Table, One, Tested, ~ late', NEW label, NEW next, ReadByte(label, next)
  PROVE  /\ pc = label /\ pc' = next /\ ack = "none" /\ ack' = "none"
         /\ out'.byte = out.byte
         /\ Flight # None => out.byte = Head(Flight) /\ Flight' = Tail(Flight)
         /\ Flight = None => Flight' = None
         /\ UNCHANGED <<machine, acked, coming, scanning, ctl>>
<1>1. /\ pc = label /\ pc' = next /\ ack = "none" /\ ack' = "none"
      /\ out' = Empty(out) /\ coming' = coming
      /\ out.full \/ coming[DEV1] = <<>>
      /\ UNCHANGED <<machine, acked, coming, scanning, ctl>>
  BY DEF ReadByte, At, Devices
<1>2. /\ out'.byte = out.byte
      /\ out.full => Flight # None /\ out.byte = Head(Flight) /\ Flight' = Tail(Flight)
      /\ ~ out.full => Flight' = Flight
  BY <1>1, FlightRead
<1>3. ~ out.full => Flight = None
  BY <1>1, FlightFacts DEF None
<1> QED
  BY <1>1, <1>2, <1>3

LEMMA TableByte0Store ==
  ASSUME Types, Table, One, Tested, ~ late', Byte0Store
  PROVE  Table'
<1>1. ReadByte("byte0_store", "byte0")
  BY DEF Byte0Store
<1>2. /\ pc = "byte0_store" /\ pc' = "byte0" /\ ack = "none" /\ ack' = "none"
      /\ out'.byte = out.byte
      /\ Flight # None => out.byte = Head(Flight) /\ Flight' = Tail(Flight)
      /\ Flight = None => Flight' = None
      /\ UNCHANGED <<machine, acked, coming, scanning, ctl>>
  BY <1>1, OneRead
<1>3. /\ byte0_store' = out.byte
      /\ UNCHANGED <<devType, hasDEV2, usable_channels, config, byte0, device, lines>>
  BY DEF Byte0Store
<1>4. /\ IF machine.device[DEV1] = "mf2" THEN Flight = NamePair \/ Flight = Mf2Name
         ELSE (Flight = None /\ out.byte = "FA") \/ Flight = Ack
      /\ DEV1 \in config
  BY <1>2 DEF Table, NameAnswers
<1>5. IF machine.device[DEV1] = "mf2"
      THEN \/ byte0_store' = "AB" /\ Flight' = NameLast
           \/ byte0_store' = "FA" /\ Flight' = NamePair
      ELSE byte0_store' = "FA" /\ Flight' = None /\ out'.byte = "FA"
  <2>1. CASE machine.device[DEV1] = "mf2"
    BY <2>1, <1>2, <1>3, <1>4, FirstAndRest, NotNone
  <2>2. CASE machine.device[DEV1] # "mf2"
    BY <2>2, <1>2, <1>3, <1>4, FirstAndRest, NotNone
  <2> QED
    BY <2>1, <2>2
<1> QED
  BY <1>2, <1>3, <1>4, <1>5
  DEF Table, Alone, ResetAnswers, NameAnswers, Identified, Found

LEMMA TableByte0 ==
  ASSUME Types, Table, One, Tested, ~ late', Byte0
  PROVE  Table'
<1>1. ReadByte("byte0", "byte1")
  BY DEF Byte0
<1>2. /\ pc = "byte0" /\ pc' = "byte1" /\ ack = "none" /\ ack' = "none"
      /\ out'.byte = out.byte
      /\ Flight # None => out.byte = Head(Flight) /\ Flight' = Tail(Flight)
      /\ Flight = None => Flight' = None
      /\ UNCHANGED <<machine, acked, coming, scanning, ctl>>
  BY <1>1, OneRead
<1>3. /\ byte0' = FirstByte(byte0_store, out.byte)
      /\ UNCHANGED <<devType, hasDEV2, usable_channels, config, byte0_store, device, lines>>
  BY DEF Byte0
<1>4. /\ IF machine.device[DEV1] = "mf2"
         THEN \/ byte0_store = "AB" /\ Flight = NameLast
              \/ byte0_store = "FA" /\ Flight = NamePair
         ELSE byte0_store = "FA" /\ Flight = None /\ out.byte = "FA"
      /\ DEV1 \in config
  BY <1>2 DEF Table, NameAnswers
<1>5. IF machine.device[DEV1] = "mf2"
      THEN byte0' = "AB" /\ \/ Flight' = NameLast
                            \/ Flight' = None /\ out'.byte = "83"
      ELSE byte0' = "FA" /\ Flight' = None /\ out'.byte = "FA"
  <2>1. CASE machine.device[DEV1] = "mf2"
    <3>1. CASE byte0_store = "AB" /\ Flight = NameLast
      <4>1. out.byte = "83" /\ Flight' = None /\ out'.byte = "83"
        BY <3>1, <1>2, FirstAndRest, NotNone
      <4> QED
        BY <4>1, <3>1, <2>1, <1>3 DEF FirstByte
    <3>2. CASE byte0_store = "FA" /\ Flight = NamePair
      <4>1. out.byte = "AB" /\ Flight' = NameLast
        BY <3>2, <1>2, FirstAndRest, NotNone
      <4> QED
        BY <4>1, <3>2, <2>1, <1>3 DEF FirstByte
    <3> QED
      BY <2>1, <3>1, <3>2, <1>4
  <2>2. CASE machine.device[DEV1] # "mf2"
    BY <2>2, <1>2, <1>3, <1>4 DEF FirstByte
  <2> QED
    BY <2>1, <2>2
<1> QED
  BY <1>2, <1>3, <1>4, <1>5
  DEF Table, Alone, ResetAnswers, NameAnswers, Identified, Found

LEMMA TableByte1 ==
  ASSUME Types, Table, One, Tested, ~ late', Byte1
  PROVE  Table'
<1>1. ReadByte("byte1", "detected")
  BY DEF Byte1
<1>2. /\ pc = "byte1" /\ pc' = "detected" /\ ack = "none" /\ ack' = "none"
      /\ out'.byte = out.byte
      /\ Flight # None => out.byte = Head(Flight) /\ Flight' = Tail(Flight)
      /\ Flight = None => Flight' = None
      /\ UNCHANGED <<machine, acked, coming, scanning, ctl>>
  BY <1>1, OneRead
<1>3. /\ devType' = [devType EXCEPT ![device] = TypeOf(byte0, out.byte)]
      /\ UNCHANGED <<hasDEV2, usable_channels, config, byte0_store, byte0, device, lines>>
  BY DEF Byte1
<1>4. /\ IF machine.device[DEV1] = "mf2"
         THEN byte0 = "AB" /\ \/ Flight = NameLast
                              \/ Flight = None /\ out.byte = "83"
         ELSE byte0 = "FA" /\ Flight = None /\ out.byte = "FA"
      /\ DEV1 \in config
  BY <1>2 DEF Table, NameAnswers
<1>5. /\ Flight' = None
      /\ \/ byte0 = "AB" /\ out.byte = "83"
         \/ byte0 = "FA" /\ out.byte = "FA"
  <2>1. CASE machine.device[DEV1] = "mf2"
    BY <2>1, <1>2, <1>4, FirstAndRest, NotNone
  <2>2. CASE machine.device[DEV1] # "mf2"
    BY <2>2, <1>2, <1>4
  <2> QED
    BY <2>1, <2>2
<1>6. TypeOf(byte0, out.byte) \in KeyboardTypes
  BY <1>5 DEF TypeOf, KeyboardTypes
<1>7. device = DEV1 /\ devType[DEV2] = Unknown /\ coming[DEV2] = <<>> /\ DEV2 \notin usable_channels
  BY DEF Table, Alone
<1>8. devType'[DEV1] \in KeyboardTypes /\ devType'[DEV2] = Unknown
  BY <1>3, <1>6, <1>7 DEF Types, Devices, DEV1, DEV2
<1> QED
  BY <1>2, <1>3, <1>4, <1>5, <1>7, <1>8
  DEF Table, Alone, ResetAnswers, NameAnswers, Identified, Found

\* From then on a read that polls finds nothing.
LEMMA TableDrain ==
  ASSUME Types, Table, One, Tested,
         Drain("detected", "next") \/ Drain("clearBuffer", "keyboard")
  PROVE  Table'
<1>1. /\ (pc = "detected" \/ pc = "clearBuffer")
      /\ ack = "none" /\ out' = Empty(out) /\ coming' = coming
      /\ UNCHANGED <<machine, driver, ack, acked, coming, scanning, ctl, late>>
  BY DEF Drain, At
<1>2. Flight = None
  BY <1>1 DEF Table, Identified, Found
<1>3. ~ out.full
  BY <1>2, FlightFacts
<1>4. Flight' = None
  BY <1>1, <1>2, <1>3, FlightRead
<1>5. \/ pc = "detected" /\ pc' = "next"
      \/ pc = "clearBuffer" /\ pc' = "keyboard"
  <2>1. CASE Drain("detected", "next")
    BY <1>3, <2>1 DEF Drain, At
  <2>2. CASE Drain("clearBuffer", "keyboard")
    BY <1>3, <2>2 DEF Drain, At
  <2> QED
    BY <2>1, <2>2
<1> QED
  BY <1>1, <1>4, <1>5
  DEF Table, Alone, ResetAnswers, NameAnswers, Identified, Found, driver

LEMMA TableNextDevice ==
  ASSUME Types, Table, One, Tested, NextDevice
  PROVE  Table'
<1>1. /\ pc = "next" /\ ack = "none" /\ device' = device /\ pc' = "finish"
      /\ UNCHANGED <<machine, devType, usable_channels, config, lines, ack, coming, out, ctl>>
  BY OneFacts DEF NextDevice, At, wires
<1>2. Flight' = Flight
  BY <1>1, FlightKept
<1> QED
  BY <1>1, <1>2 DEF Table, Alone, ResetAnswers, NameAnswers, Identified, Found

LEMMA TableFinish ==
  ASSUME Types, Types', Table, One, Tested, Finish
  PROVE  Table'
<1>1. /\ pc = "finish" /\ ack = "none" /\ pc' = "clearBuffer" /\ Answered
      /\ UNCHANGED <<machine, devType, usable_channels, device, ack, coming>>
  BY DEF Finish, At
<1>2. /\ Flight = None /\ devType[DEV1] \in KeyboardTypes /\ DEV1 \in config
      /\ devType[DEV2] = Unknown
  BY <1>1 DEF Table, Alone, NameAnswers, Identified, Found
<1>3. ~ out.full /\ coming[DEV1] = None
  BY <1>2, FlightFacts
<1>4. out'.full = FALSE
  BY <1>1, <1>3 DEF Answered, Types
<1>5. Flight' = None
  BY <1>1, <1>3, <1>4, FlightFactsNext
<1>6. 0 \in ctl' /\ 4 \notin ctl'
  <2> DEFINE bits == UNION {FinishBit(devType[d] # Unknown, d) : d \in Devices}
  <2>1. FinishBit(devType[DEV1] # Unknown, DEV1) = {4}
    BY <1>2 DEF FinishBit, KeyboardTypes, Unknown, DEV1
  <2>2. FinishBit(devType[DEV2] # Unknown, DEV2) = {1}
    BY <1>2 DEF FinishBit, DEV2
  <2>3. \A d \in Devices : 0 \notin FinishBit(devType[d] # Unknown, d)
    BY <2>1, <2>2 DEF Devices
  <2>4. 0 \notin bits
    BY <2>3
  <2>5. 4 \in bits
    BY <2>1 DEF Devices
  <2>6. ctl' = config \ bits
    BY DEF Finish
  <2> HIDE DEF bits
  <2> QED
    BY <2>4, <2>5, <2>6, <1>2 DEF DEV1
<1> QED
  BY <1>1, <1>2, <1>5, <1>6
  DEF Table, Alone, ResetAnswers, NameAnswers, Identified, Found

LEMMA TableHandle ==
  ASSUME Types, Table, One, Tested, ps2_handleDevice
  PROVE  Table'
<1>1. /\ pc = "keyboard" /\ ack = "none" /\ pc' = "F0"
      /\ UNCHANGED <<machine, devType, usable_channels, config, device, ack, coming, out, ctl>>
  BY DEF ps2_handleDevice, At, wires
<1>2. Flight' = Flight
  BY <1>1, FlightKept
<1>3. devType[DEV1] \in KeyboardTypes
  BY <1>1 DEF Table, Identified, Found
<1>4. getKeyboardDev = DEV1
  BY <1>3, OneFacts
<1>5. 1 \in lines'
  BY <1>4 DEF ps2_handleDevice, DEV1, DEV2
<1> QED
  BY <1>1, <1>2, <1>5
  DEF Table, Alone, ResetAnswers, NameAnswers, Identified, Found

\* keyboard_init sends its three commands to the keyboard.
LEMMA TableKeyboard ==
  ASSUME Types, Table, One, Tested, ~ late',
         \/ Command("F0", getKeyboardDev, "F0", "02")
         \/ Command("02", getKeyboardDev, "02", "F4")
         \/ Command("F4", getKeyboardDev, "F4", "done")
  PROVE  Table'
<1>1. pc \in {"F0", "02", "F4"} /\ ack = "none"
  BY DEF Command, At
<1>2. /\ devType[DEV1] \in KeyboardTypes /\ Flight = None
      /\ 0 \in ctl /\ 4 \notin ctl /\ 1 \in lines
  BY <1>1 DEF Table, Identified, Found
<1>3. getKeyboardDev = DEV1
  BY <1>2, OneFacts
<1>4. PICK byte : /\ byte \in {"F0", "02", "F4"}
                  /\ Command(byte, DEV1, byte, IF byte = "F0" THEN "02" ELSE
                                               IF byte = "02" THEN "F4" ELSE "done")
  BY <1>3
<1> DEFINE next == IF byte = "F0" THEN "02" ELSE IF byte = "02" THEN "F4" ELSE "done"
<1>5. Command(byte, DEV1, byte, next)
  BY <1>4
<1>6. next \in {"02", "F4", "done"} /\ (next = "done" => byte = "F4")
  BY <1>4
<1> HIDE DEF next
<1>7. /\ pc' = next /\ ack' = "wait"
      /\ Flight' = Flight \o Answers(machine.device[DEV1], byte)
      /\ device' = DEV1 /\ coming'[DEV2] = <<>> /\ devType'[DEV2] = Unknown
      /\ DEV2 \notin usable_channels' /\ Receive(DEV1, byte)
      /\ UNCHANGED <<machine, driver, acked, out, ctl>>
  BY <1>5, OneCommand
<1>8. Answers(machine.device[DEV1], byte) = Ack
  BY <1>4, OneFacts, AnswerIs
<1>9. Flight' = Ack
  BY <1>2, <1>7, <1>8, Appended
<1>10. next = "done" => DEV1 \in scanning'
  BY <1>6, <1>7 DEF Receive
<1>11. Alone' /\ ResetAnswers' /\ NameAnswers'
  BY <1>6, <1>7 DEF Table, Alone, ResetAnswers, NameAnswers
<1>12. Identified'
  BY <1>2, <1>6, <1>7, <1>9, <1>10 DEF Table, Identified, driver
<1> QED
  BY <1>11, <1>12 DEF Table

LEMMA TableStutter ==
  ASSUME Table, UNCHANGED vars
  PROVE  Table'
<1>1. Flight' = Flight /\ One' = One
  BY DEF Flight, One, OneKeyboard, vars, wires, driver
<1>2. UNCHANGED <<machine, devType, device, config, usable_channels, byte0_store, byte0, lines,
                  pc, ack, acked, out, coming, scanning, ctl>>
  BY DEF vars, wires, driver
<1>3. Alone' = Alone /\ ResetAnswers' = ResetAnswers
  BY <1>1, <1>2 DEF Alone, ResetAnswers, Tested
<1>4. NameAnswers' = NameAnswers
  BY <1>1, <1>2 DEF NameAnswers
<1>5. Identified' = Identified
  BY <1>1, <1>2 DEF Identified
<1> QED
  BY <1>3, <1>4, <1>5 DEF Table

\* What is on its way stays as the table says.
LEMMA TableStep ==
  ASSUME Types, Types', Quiet, Table, [Next]_vars
  PROVE  Table'
<1>1. CASE ~ One'
  BY <1>1 DEF Table, Alone, ResetAnswers, NameAnswers, Identified
<1>2. CASE ~ Tested'
  BY <1>2 DEF Table, Alone, ResetAnswers, NameAnswers, Identified, Tested, Found
<1>3. CASE One' /\ Tested' /\ ~ Tested
  <2>1. TestPorts
    BY <1>3, OnePasses
  <2> QED
    BY <1>3, <2>1, TableTestPorts
<1>4. CASE One' /\ Tested
  <2>0. One /\ ~ late'
    BY <1>4, OneBefore
  <2>1. CASE (\E d \in Devices : Deliver(d)) \/ waitACK
    BY <1>4, <2>0, <2>1, TableDeliver, TableWaitACK
  <2>2. CASE Drain("clear", "config") \/ ReadConfig \/ SelfTest \/ TestPorts
    BY <1>4, <2>2 DEF Tested, Drain, ReadConfig, SelfTest, TestPorts, At
  <2>3. CASE \/ Reset(DEV1, "reset1", "reset1done") \/ ResetDone(DEV1, "reset1done", "reset2")
             \/ Reset(DEV2, "reset2", "reset2done") \/ ResetDone(DEV2, "reset2done", "F5")
    BY <1>4, <2>0, <2>3, TableReset1, TableResetDone1, TableReset2
  <2>4. CASE Command("F5", device, "F5", "F2") \/ Command("F2", device, "F2", "byte0_store")
    BY <1>4, <2>0, <2>4, TableF5, TableF2
  <2>5. CASE Byte0Store \/ Byte0 \/ Byte1
    BY <1>4, <2>0, <2>5, TableByte0Store, TableByte0, TableByte1
  <2>6. CASE Drain("detected", "next") \/ Drain("clearBuffer", "keyboard")
    BY <1>4, <2>0, <2>6, TableDrain
  <2>7. CASE NextDevice \/ Finish \/ ps2_handleDevice
    BY <1>4, <2>0, <2>7, TableNextDevice, TableFinish, TableHandle
  <2>8. CASE \/ Command("F0", getKeyboardDev, "F0", "02")
             \/ Command("02", getKeyboardDev, "02", "F4")
             \/ Command("F4", getKeyboardDev, "F4", "done")
    BY <1>4, <2>0, <2>8, TableKeyboard
  <2>9. CASE UNCHANGED vars
    BY <2>9, TableStutter
  <2> QED
    BY <2>1, <2>2, <2>3, <2>4, <2>5, <2>6, <2>7, <2>8, <2>9 DEF Next
<1> QED
  BY <1>1, <1>2, <1>3, <1>4

-----------------------------------------------------------------------------
(* The theorems.                                                           *)

LEMMA Initially ==
  ASSUME Init
  PROVE  IInv
<1>1. machine.config \subseteq Bits
  BY MachineFacts DEF Init
<1>2. ctl \subseteq Bits
  BY <1>1 DEF Init, Bits
<1>3. Types
  <2>1. /\ machine \in Machines
        /\ devType \in [Devices -> KeyboardTypes \cup MouseTypes \cup {Unknown}]
        /\ hasDEV2 = {} /\ usable_channels = {} /\ config = {} /\ lines = {} /\ scanning = {}
        /\ device \in Devices /\ pc \in Labels /\ ack = "none"
        /\ acked = FALSE /\ late = FALSE
    BY DEF Init, Labels, Devices
  <2>2. out \in [full : BOOLEAN, byte : Bytes]
    BY DEF Init, Bytes
  <2>3. coming \in [Devices -> Seq(Bytes)]
    BY Short DEF Init, None
  <2> QED
    BY <1>2, <2>1, <2>2, <2>3 DEF Types
<1>4. Quiet
  BY DEF Init, Quiet
<1>5. OnTheWay = 0
  <2>1. coming[DEV1] = None /\ coming[DEV2] = None /\ ~ out.full
    BY DEF Init, Devices, None
  <2>2. Coming1 = 0 /\ Coming2 = 0 /\ Buffered = 0
    BY <2>1, Short DEF Coming1, Coming2, Buffered
  <2> QED
    BY <2>2 DEF OnTheWay
<1>6. Waiting = 0
  BY DEF Init, Waiting
<1>7. Counted
  BY <1>5, <1>6, UnreadBound DEF Counted
<1>8. Alone /\ ResetAnswers /\ NameAnswers /\ Identified
  BY DEF Init, Alone, ResetAnswers, NameAnswers, Identified, Tested, Found
<1> QED
  BY <1>3, <1>4, <1>7, <1>8 DEF IInv

\* At each point of the dialogue no more bytes are on their way than were sent and
\* not read; and with one keyboard, and no watch dog expired, just those that the
\* table says, whatever the order in which they come.
THEOREM Invariant == Spec => []IInv
<1>1. Init => IInv
  BY Initially
<1>2. IInv /\ [Next]_vars => IInv'
  <2> SUFFICES ASSUME IInv, [Next]_vars
               PROVE  IInv'
    OBVIOUS
  <2>1. Types /\ Quiet /\ Counted /\ Table
    BY DEF IInv, Table
  <2>2. Types'
    BY <2>1, TypesStep
  <2>3. Quiet'
    BY <2>1, QuietStep
  <2>4. Counted'
    BY <2>1, <2>2, CountedStep
  <2>5. Table'
    BY <2>1, <2>2, TableStep
  <2> QED
    BY <2>2, <2>3, <2>4, <2>5 DEF IInv, Table
<1> QED
  BY <1>1, <1>2, PTL DEF Spec

\* The keyboard works from the first key on: ps2_init identifies it although each
\* answer is read one command late, and when keyboard_init returns it scans, its
\* interrupt and clock are on and no answer is left that would be taken for a key.
THEOREM UsableKeyboard == Spec => []KeyboardUsable
<1>1. IInv => KeyboardUsable
  <2> SUFFICES ASSUME IInv
               PROVE  KeyboardUsable
    OBVIOUS
  <2>0. Types /\ Counted /\ Table
    BY DEF IInv, Table
  <2>1. TypeOK
    <3>1. \A d \in Devices : Len(coming[d]) <= 7
      BY <2>0, SevenBytes
    <3> QED
      BY <2>0, <3>1 DEF Types, TypeOK
  <2>2. ASSUME Done, OneKeyboard, ~ late
        PROVE  /\ devType[DEV1] \in KeyboardTypes /\ DEV1 \in scanning
               /\ 0 \in ctl /\ 4 \notin ctl /\ 1 \in lines
               /\ ~ out.full /\ \A d \in Devices : coming[d] = <<>>
    <3>1. pc = "done" /\ ack = "none" /\ One /\ Tested
      BY <2>2 DEF Done, At, One, Tested
    <3>2. /\ devType[DEV1] \in KeyboardTypes /\ DEV1 \in scanning
          /\ 0 \in ctl /\ 4 \notin ctl /\ 1 \in lines /\ Flight = None
      BY <2>0, <3>1 DEF Table, Identified, Found
    <3>3. coming[DEV2] = <<>>
      BY <2>0, <3>1 DEF Table, Alone
    <3>4. ~ out.full /\ coming[DEV1] = <<>>
      BY <2>0, <3>2, FlightFacts DEF None
    <3> QED
      BY <3>2, <3>3, <3>4 DEF Devices
  <2> QED
    BY <2>1, <2>2 DEF KeyboardUsable, KeyboardReady, NothingLeft
<1> QED
  BY <1>1, Invariant, PTL
=============================================================================
