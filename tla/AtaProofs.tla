------------------------------ MODULE AtaProofs ------------------------------
(***************************************************************************)
(* The disk driver under interrupts, proved for any drives, any calls of   *)
(* kinit, any place of the keyboard and any timeout: ata_irq finds its     *)
(* device, no line with a handler is left in service, no answer outlives   *)
(* the wait for it, and a call gives its device back.                      *)
(***************************************************************************)
EXTENDS Ata, SequenceTheorems, TLAPS

-----------------------------------------------------------------------------
(* The inductive invariant. *)

Booting == {"timer", "keyboard", "identify", "register", "publish"}
InCall == {"data", "poll", "flush", "status", "packet", "transfer", "more"}
Places == Booting \cup Waiting \cup InCall \cup {"call", "enter", "idle"}

\* The lines that ever request, and the one handler each may have.
Wired == {0, 1, 12, 14, 15}
HandlerOf(n) == IF n = Timer THEN "timer_isr"
                ELSE IF n \in {1, 12} THEN "keyboard_isr" ELSE "ata_irq"

Controller == [bus : Buses, type : {"ata", "atapi"}, in_use : BOOLEAN,
               is_blocked : BOOLEAN, has_errored : BOOLEAN]

\* A number that ide_init gave out for a drive.
IsDevice(dev) == \E i \in 1 .. Len(controllers) : dev = 2 * (i - 1)

\* Where kinit is, and that a call which works works on a device it selected.
KinitOK ==
    /\ pc \in Places
    /\ todo \in Seq([op : Calls, bus : Buses])
    /\ call \in [op : Calls \cup {"none", "ide_init"}, dev : Nat]
    /\ pc \in {"identify", "register", "publish"} => call.dev \in Buses
    /\ pc \in {"register", "publish"} => Found(call.dev) # "none"
    /\ pc = "enter" => call.dev = Invalid \/ IsDevice(call.dev)
    /\ pc \in Waiting \cup InCall =>
         IsDevice(call.dev) /\ current_controller = call.dev
    /\ pc \in Waiting => ret \in {"data", "status", "transfer", "more"}
    /\ timeout \in 0 .. MaxTimeout /\ alt_error \in BOOLEAN

\* Which call is at which place, and in whose wait.
BackAt(places) == pc \in places \/ (pc \in Waiting /\ ret \in places)

OpsOK ==
    /\ BackAt({"status"}) => call.op = "ata_command"
    /\ BackAt({"packet", "transfer", "more"}) => call.op \in AtapiOps

\* The drives.
DrivesOK ==
    /\ machine \in [Buses -> [master : DriveTypes, slave : DriveTypes]]
    /\ drive \in [Buses -> DriveStates]

\* The array, and that current_controller stands for an element of it as soon as
\* it has one.
DriverOK ==
    /\ controllers \in Seq(Controller)
    /\ controller_index = 2 * Len(controllers)
    /\ ids \in [Buses -> Nat]
    /\ \A b \in Buses : ids[b] = Invalid \/ IsDevice(ids[b])
    /\ current_controller \in Nat
    /\ controllers # << >> => IsDevice(current_controller)
    /\ controllers = << >> => current_controller = 0

\* The chains: who may be where, and that a disk has a handler only when the
\* array has been filled, or is about to be.
ChainsOK ==
    /\ DOMAIN irqs = Lines
    /\ \A n \in Lines :
         irqs[n] = << >> \/ (n \in Wired /\ irqs[n] = << HandlerOf(n) >>)
    /\ irqs[Timer] = << >> <=> pc = "timer"
    /\ irqs[1] = << >> <=> pc \in {"timer", "keyboard"}
    /\ irqs[12] # << >> => irqs[1] # << >>
    /\ \A b \in Buses :
         irqs[Line(b)] # << >> =>
            /\ irqs[1] # << >>
            /\ pc \in {"identify", "register"} => b < call.dev
            /\ pc = "publish" => b <= call.dev
            /\ pc # "publish" => controllers # << >>

\* Interrupts are on and handlers run only while kinit waits or idles: the byte
\* that remembers IF never says that it was set.
Quiet ==
    /\ were_intrs_enabled = 0
    /\ interrupts \in BOOLEAN
    /\ interrupts => vector = NoLine
    /\ interrupts \/ vector # NoLine => pc \in Waiting \cup {"idle"}
    /\ pc \in Booting =>
         /\ in_service = {}
         /\ \A i \in 1 .. Len(controllers) : ~controllers[i].in_use

\* What may be in service when no handler runs.
Settled(S) ==
    /\ \A n \in S : n = Cascade \/ irqs[n] = << >>
    /\ Cascade \in S <=> Slave(S) # {}

\* What may be when one does.  A line of the second controller is taken only
\* when nothing is in service, as what is stuck there keeps the cascade in service.
Service ==
    /\ irr \subseteq Wired /\ asserted \subseteq Wired
    /\ masked \subseteq Lines
    /\ in_service \subseteq Wired \cup {Cascade}
    /\ vector \in {0, 1, 7, 12, 14, 15, NoLine}
    /\ vector \in {7, NoLine} => Settled(in_service)
    /\ vector \in {0, 1} =>
         vector \in in_service /\ Settled(in_service \ {vector})
    /\ vector \in {12, 14, 15} =>
         \/ in_service = {vector, Cascade}
         \/ vector = 15 /\ in_service = {Cascade}

IInv == /\ KinitOK /\ OpsOK /\ DrivesOK /\ DriverOK /\ ChainsOK /\ Quiet /\ Service
        /\ UnblockedOnlyInWait

-----------------------------------------------------------------------------
(* What the invariant says of the operators. *)

LEMMA Indices == \A i \in Nat \ {0} : Index(2 * (i - 1)) = i
  BY DEF Index

\* The device of a call is an element of the array, its bus one of the two.
LEMMA Devices ==
    ASSUME controllers \in Seq(Controller), NEW dev, IsDevice(dev)
    PROVE  /\ dev \in Nat
           /\ Index(dev) \in 1 .. Len(controllers)
           /\ Index(dev) \in DOMAIN controllers
           /\ controllers[Index(dev)] \in Controller
           /\ controllers[Index(dev)].bus \in Buses
  <1>1. PICK i \in 1 .. Len(controllers) : dev = 2 * (i - 1)
    BY DEF IsDevice
  <1>2. Index(dev) = i
    BY <1>1, Indices
  <1>3. DOMAIN controllers = 1 .. Len(controllers)
    OBVIOUS
  <1>4. controllers[i] \in Controller
    BY <1>3
  <1>5. controllers[i].bus \in Buses
    BY <1>4 DEF Controller
  <1> QED
    BY <1>1, <1>2, <1>3, <1>4, <1>5

\* Where kinit has a device in its hand.
AtWork == \/ pc \in Waiting \cup InCall
          \/ pc = "enter" /\ call.dev # Invalid

LEMMA AtWorkOnDevice ==
    ASSUME KinitOK, DriverOK, AtWork
    PROVE  /\ IsDevice(call.dev) /\ call.dev \in Nat
           /\ Index(call.dev) \in 1 .. Len(controllers)
           /\ Index(call.dev) \in DOMAIN controllers
           /\ Device \in Controller
           /\ Bus \in Buses
  <1>1. IsDevice(call.dev)
    BY DEF KinitOK, AtWork
  <1>2. controllers \in Seq(Controller)
    BY DEF DriverOK
  <1> QED
    BY <1>1, <1>2, Devices DEF Device, Bus

\* Changing a drive's fields within their ranges.
LEMMA FieldChanges ==
    ASSUME NEW d \in DriveStates
    PROVE  /\ \A p \in {"ready", "busy", "packet", "data"} :
                [d EXCEPT !.phase = p] \in DriveStates
           /\ \A p \in {"ready", "busy", "packet", "data"},
                 c \in {"read", "write", "written", "flush", "packet", "payload"} :
                [d EXCEPT !.phase = p, !.cmd = c] \in DriveStates
           /\ \A n \in 0 .. MaxBlocks : [d EXCEPT !.blocks = n] \in DriveStates
  BY DEF DriveStates

LEMMA ReadyOK == Ready \in DriveStates
  <1>1. 0 \in 0 .. MaxBlocks
    BY AtaBoundsAssumption
  <1> QED
    BY <1>1 DEF Ready, DriveStates

\* A drive stays one, whatever it answers.
LEMMA OutcomesOK ==
    ASSUME DrivesOK, NEW bus \in Buses, NEW out \in Outcomes(bus)
    PROVE  out[1] \in DriveStates /\ out[2] \in BOOLEAN
  <1> DEFINE d == drive[bus]
             To(phase, err) ==
                [d EXCEPT !.phase = phase, !.err = err,
                          !.cmd = IF phase = "ready" THEN "none" ELSE @]
  <1>1. d \in DriveStates
    BY DEF DrivesOK
  <1>2. \A phase \in {"ready", "data", "packet"}, err \in BOOLEAN :
           To(phase, err) \in DriveStates /\ To(phase, err).blocks = d.blocks
    BY <1>1 DEF DriveStates
  <1>3. CASE out = << To("ready", TRUE), TRUE >>
    BY <1>2, <1>3
  <1>4. CASE /\ Understands(machine[bus].master, d.cmd)
             /\ out # << To("ready", TRUE), TRUE >>
    <2>1. CASE d.cmd = "read"
      <3>1. out = << To("data", FALSE), TRUE >>
        BY <1>4, <2>1 DEF Outcomes
      <3> QED
        BY <3>1, <1>2
    <2>2. CASE d.cmd = "write"
      <3>1. out = << To("data", FALSE), FALSE >>
        BY <1>4, <2>2 DEF Outcomes
      <3> QED
        BY <3>1, <1>2
    <2>3. CASE d.cmd = "packet"
      <3>1. out = << To("packet", FALSE), FALSE >>
        BY <1>4, <2>3 DEF Outcomes
      <3> QED
        BY <3>1, <1>2
    <2>4. CASE d.cmd \in {"written", "flush"}
      <3>1. out = << To("ready", FALSE), TRUE >>
        BY <1>4, <2>4 DEF Outcomes
      <3> QED
        BY <3>1, <1>2
    <2>5. CASE d.cmd = "payload"
      <3>1. PICK e \in DriveStates :
               e = To("data", FALSE) /\ e.blocks = d.blocks
        BY <1>2
      <3>2. \/ e.blocks < MaxBlocks /\ out = << [e EXCEPT !.blocks = @ + 1], TRUE >>
            \/ out = << To("ready", FALSE), TRUE >>
        BY <1>4, <2>5, <3>1 DEF Outcomes
      <3>3. PICK n \in Nat : n = e.blocks
        BY DEF DriveStates
      <3>4. n < MaxBlocks => n + 1 \in 0 .. MaxBlocks
        BY AtaBoundsAssumption
      <3>5. n < MaxBlocks => [e EXCEPT !.blocks = @ + 1] \in DriveStates
        BY <3>3, <3>4, FieldChanges
      <3>6. CASE out = << To("ready", FALSE), TRUE >>
        BY <1>2, <3>6
      <3>7. CASE /\ e.blocks < MaxBlocks
                 /\ out = << [e EXCEPT !.blocks = @ + 1], TRUE >>
        <4>1. [e EXCEPT !.blocks = @ + 1] \in DriveStates
          BY <3>3, <3>5, <3>7
        <4> QED
          BY <4>1, <3>7
      <3> QED
        BY <3>2, <3>6, <3>7
    <2> QED
      BY <1>4, <2>1, <2>2, <2>3, <2>4, <2>5 DEF Understands
  <1> QED
    BY <1>3, <1>4 DEF Outcomes

LEMMA CommandedOK ==
    ASSUME DrivesOK, NEW bus \in Buses,
           NEW cmd \in {"read", "write", "flush", "packet"}
    PROVE  Commanded(bus, cmd) \in [Buses -> DriveStates]
  <1>1. [Ready EXCEPT !.phase = "busy", !.cmd = cmd] \in DriveStates
    BY ReadyOK, FieldChanges
  <1> QED
    BY <1>1 DEF Commanded, DrivesOK

LEMMA DrainedOK ==
    ASSUME DrivesOK, NEW bus \in Buses
    PROVE  Drained(bus) \in [Buses -> DriveStates]
  <1>1. drive[bus] \in DriveStates
    BY DEF DrivesOK
  <1>2. [drive[bus] EXCEPT !.phase = "busy"] \in DriveStates
    BY <1>1, FieldChanges
  <1> QED
    BY <1>2, ReadyOK DEF Drained, DrivesOK

\* What the three assignments to a device leave of the array.
Changed(s, t, i) == /\ t \in Seq(Controller) /\ Len(t) = Len(s)
                    /\ \A j \in 1 .. Len(s) : j # i => t[j] = s[j]

LEMMA TakenEffect ==
    ASSUME NEW s \in Seq(Controller), NEW i \in 1 .. Len(s), NEW t
    PROVE  t = [s EXCEPT ![i].in_use = TRUE] =>
             Changed(s, t, i) /\ t[i].is_blocked = s[i].is_blocked
  <1>1. PICK c \in Controller : c = s[i]
    OBVIOUS
  <1>2. PICK e : e = [c EXCEPT !.in_use = TRUE]
    OBVIOUS
  <1>3. e \in Controller /\ e.is_blocked = c.is_blocked
    BY <1>2 DEF Controller
  <1>4. t = [s EXCEPT ![i].in_use = TRUE]
          => t = [s EXCEPT ![i] = e]
    BY <1>1, <1>2, Zenon
  <1>5. ASSUME t = [s EXCEPT ![i] = e]
        PROVE  Changed(s, t, i) /\ t[i] = e
    BY <1>3, <1>5 DEF Changed
  <1> QED
    BY <1>1, <1>3, <1>4, <1>5 DEF Changed

LEMMA GivenEffect ==
    ASSUME NEW s \in Seq(Controller), NEW i \in 1 .. Len(s), NEW t
    PROVE  t = [s EXCEPT ![i].in_use = FALSE] =>
             Changed(s, t, i) /\ ~t[i].in_use /\ t[i].is_blocked = s[i].is_blocked
  <1>1. PICK c \in Controller : c = s[i]
    OBVIOUS
  <1>2. PICK e : e = [c EXCEPT !.in_use = FALSE]
    OBVIOUS
  <1>3. e \in Controller /\ ~e.in_use /\ e.is_blocked = c.is_blocked
    BY <1>2 DEF Controller
  <1>4. t = [s EXCEPT ![i].in_use = FALSE]
          => t = [s EXCEPT ![i] = e]
    BY <1>1, <1>2, Zenon
  <1>5. ASSUME t = [s EXCEPT ![i] = e]
        PROVE  Changed(s, t, i) /\ t[i] = e
    BY <1>3, <1>5 DEF Changed
  <1> QED
    BY <1>1, <1>3, <1>4, <1>5 DEF Changed

LEMMA ReblockEffect ==
    ASSUME NEW s \in Seq(Controller), NEW i \in 1 .. Len(s), NEW t
    PROVE  t = [s EXCEPT ![i].is_blocked = TRUE] =>
             Changed(s, t, i) /\ t[i].is_blocked /\ t[i].in_use = s[i].in_use
  <1>1. PICK c \in Controller : c = s[i]
    OBVIOUS
  <1>2. PICK e : e = [c EXCEPT !.is_blocked = TRUE]
    OBVIOUS
  <1>3. e \in Controller /\ e.is_blocked /\ e.in_use = c.in_use
    BY <1>2 DEF Controller
  <1>4. t = [s EXCEPT ![i].is_blocked = TRUE]
          => t = [s EXCEPT ![i] = e]
    BY <1>1, <1>2, Zenon
  <1>5. ASSUME t = [s EXCEPT ![i] = e]
        PROVE  Changed(s, t, i) /\ t[i] = e
    BY <1>3, <1>5 DEF Changed
  <1> QED
    BY <1>1, <1>3, <1>4, <1>5 DEF Changed

LEMMA AnswerEffect ==
    ASSUME NEW s \in Seq(Controller), NEW i \in 1 .. Len(s), NEW err \in BOOLEAN,
           NEW t
    PROVE  t = [s EXCEPT ![i].has_errored = err, ![i].is_blocked = FALSE] =>
             Changed(s, t, i) /\ t[i].in_use = s[i].in_use
  <1>1. PICK c \in Controller : c = s[i]
    OBVIOUS
  <1>2. PICK e : e = [c EXCEPT !.has_errored = err, !.is_blocked = FALSE]
    OBVIOUS
  <1>3. e \in Controller /\ e.in_use = c.in_use
    BY <1>2 DEF Controller
  <1>4. t = [s EXCEPT ![i].has_errored = err, ![i].is_blocked = FALSE]
          => t = [s EXCEPT ![i] = e]
    BY <1>1, <1>2, Zenon
  <1>5. ASSUME t = [s EXCEPT ![i] = e]
        PROVE  Changed(s, t, i) /\ t[i] = e
    BY <1>3, <1>5 DEF Changed
  <1> QED
    BY <1>1, <1>3, <1>4, <1>5 DEF Changed

-----------------------------------------------------------------------------
(* Every part of the invariant is kept by every step. *)

LEMMA DrivesStep == IInv /\ [Next]_vars => DrivesOK'
  <1> SUFFICES ASSUME IInv, [Next]_vars PROVE DrivesOK'
    OBVIOUS
  <1> USE DEF IInv
  <1>1. CASE Boot \/ Wait \/ NextCall \/ EnterInvalid \/ KinitDone
    BY <1>1 DEF Boot, InitTimer, InitKeyboard, Identify, Register, Publish, Wait,
                Check, Halt, Wake, Leave, NextCall, EnterInvalid, KinitDone,
                DrivesOK, driveVars
  <1>2. CASE Interrupt \/ Handling \/ Tick \/ KeyRaised \/ UNCHANGED vars
    BY <1>2 DEF Interrupt, Handling, Handled, AtaInterrupt, ata_irq, Tick,
                KeyRaised, vars, DrivesOK, driveVars
  <1>3. CASE \/ AtaRefused \/ AtaCommandEnd \/ AtapiRefused \/ AtapiFailed
             \/ AtapiMore \/ AtapiEnd
    BY <1>3 DEF AtaRefused, AtaCommandEnd, AtapiRefused, AtapiFailed, AtapiMore,
                AtapiEnd, KeepIds, DrivesOK, driveVars
  <1>4. ASSUME NEW bus \in Buses, DriveAnswers(bus) PROVE DrivesOK'
    <2>1. PICK out \in Outcomes(bus) : drive' = [drive EXCEPT ![bus] = out[1]]
      BY <1>4 DEF DriveAnswers
    <2>2. out[1] \in DriveStates
      BY OutcomesOK
    <2>3. UNCHANGED machine
      BY <1>4 DEF DriveAnswers
    <2> QED
      BY <2>1, <2>2, <2>3 DEF DrivesOK
  <1>5. AtWork => Bus \in Buses
    BY AtWorkOnDevice
  <1>6. ASSUME NEW op, NEW cmd \in {"read", "write"}, AtaStart(op, cmd)
        PROVE  DrivesOK'
    <2>1. Bus \in Buses
      BY <1>5, <1>6 DEF AtaStart, Enter, KinitAt, AtWork
    <2> QED
      BY <1>6, <2>1, CommandedOK DEF AtaStart, KeepIds, DrivesOK
  <1>7. CASE AtaReadStart \/ AtaWriteStart
    BY <1>6, <1>7 DEF AtaReadStart, AtaWriteStart
  <1>8. CASE AtaReadData
    <2>1. Bus \in Buses
      BY <1>5, <1>8 DEF AtaReadData, KinitAt, AtWork, InCall
    <2> QED
      BY <1>8, <2>1, DrainedOK DEF AtaReadData, KeepIds, DrivesOK
  <1>9. CASE AtaWriteData
    <2>1. Bus \in Buses
      BY <1>5, <1>9 DEF AtaWriteData, KinitAt, AtWork, InCall
    <2>2. [drive EXCEPT ![Bus].phase = "busy", ![Bus].cmd = "written"]
             \in [Buses -> DriveStates]
      <3>1. drive[Bus] \in DriveStates
        BY <2>1 DEF DrivesOK
      <3>2. [drive[Bus] EXCEPT !.phase = "busy", !.cmd = "written"] \in DriveStates
        BY <3>1, FieldChanges
      <3> QED
        BY <2>1, <3>2 DEF DrivesOK
    <2> QED
      BY <1>9, <2>1, <2>2 DEF AtaWriteData, DrivesOK
  <1>10. CASE AtaWriteFlush \/ AtaCommandStart
    <2>1. Bus \in Buses
      BY <1>5, <1>10
         DEF AtaWriteFlush, AtaCommandStart, Enter, KinitAt, AtWork, InCall
    <2> QED
      BY <1>10, <2>1, CommandedOK
         DEF AtaWriteFlush, AtaCommandStart, KeepIds, DrivesOK
  <1>11. CASE AtapiStart
    <2>1. Bus \in Buses
      BY <1>5, <1>11 DEF AtapiStart, Enter, KinitAt, AtWork
    <2> QED
      BY <1>11, <2>1, CommandedOK DEF AtapiStart, KeepIds, DrivesOK
  <1>12. CASE AtapiPacket
    <2>1. Bus \in Buses
      BY <1>5, <1>12 DEF AtapiPacket, KinitAt, AtWork, InCall
    <2>2. [drive EXCEPT ![Bus].phase = "busy", ![Bus].cmd = "payload"]
             \in [Buses -> DriveStates]
      <3>1. drive[Bus] \in DriveStates
        BY <2>1 DEF DrivesOK
      <3>2. [drive[Bus] EXCEPT !.phase = "busy", !.cmd = "payload"] \in DriveStates
        BY <3>1, FieldChanges
      <3> QED
        BY <2>1, <3>2 DEF DrivesOK
    <2> QED
      BY <1>12, <2>1, <2>2 DEF AtapiPacket, DrivesOK
  <1>13. CASE AtapiTransfer
    <2>1. Bus \in Buses
      BY <1>5, <1>13 DEF AtapiTransfer, KinitAt, AtWork, InCall
    <2> QED
      BY <1>13, <2>1, DrainedOK DEF AtapiTransfer, DrivesOK
  <1> QED
    BY <1>1, <1>2, <1>3, <1>4, <1>7, <1>8, <1>9, <1>10, <1>11, <1>12, <1>13
       DEF Next, Kinit, Boot, Wait, DriverCalls, Handling, Drives

\* When ata_irq is about to run, its device is there: the handler is registered
\* before the array is filled, but no interrupt is taken until it is.
LEMMA HandlerDevice ==
    ASSUME IInv, Dispatching, Answerer(vector) = "ata_irq"
    PROVE  /\ pc \in Waiting \cup {"idle"}
           /\ Index(current_controller) \in DOMAIN controllers
           /\ Index(current_controller) \in 1 .. Len(controllers)
           /\ controllers[Index(current_controller)].bus \in Buses
  <1>1. pc \in Waiting \cup {"idle"}
    BY DEF IInv, Quiet, Dispatching
  <1>2. vector \in Lines
    BY DEF IInv, Service, Dispatching, Lines, NoLine
  <1>3. irqs[vector] = << HandlerOf(vector) >> /\ vector \in Wired
    BY <1>2 DEF IInv, ChainsOK, Answerer
  <1>4. HandlerOf(vector) = "ata_irq"
    BY <1>3 DEF Answerer
  <1>5. vector \in {14, 15}
    BY <1>3, <1>4 DEF HandlerOf, Wired, Timer
  <1>6. PICK b \in Buses : vector = Line(b)
    BY <1>5 DEF Buses, Line
  <1>7. controllers # << >>
    BY <1>1, <1>3, <1>6 DEF IInv, ChainsOK, Waiting
  <1>8. IsDevice(current_controller) /\ controllers \in Seq(Controller)
    BY <1>7 DEF IInv, DriverOK
  <1> QED
    BY <1>1, <1>8, Devices

\* The steps that touch the array, and what they do to it.
NewDevice == /\ Publish
             /\ \E c \in Controller : /\ ~c.in_use /\ c.is_blocked
                                      /\ controllers' = Append(controllers, c)

WaitOver == LET i == Index(call.dev) IN
            /\ Leave /\ i \in 1 .. Len(controllers)
            /\ Changed(controllers, controllers', i)
            /\ controllers'[i].is_blocked
            /\ controllers'[i].in_use = controllers[i].in_use

Interrupted == LET i == Index(current_controller) IN
               /\ AtaInterrupt /\ i \in 1 .. Len(controllers)
               /\ Changed(controllers, controllers', i)
               /\ controllers'[i].in_use = controllers[i].in_use

TakenOrGiven == LET i == Index(call.dev) IN
                /\ pc \in InCall \cup {"enter"} /\ i \in 1 .. Len(controllers)
                /\ Changed(controllers, controllers', i)
                /\ controllers'[i].is_blocked = controllers[i].is_blocked
                /\ pc' = "call" => ~controllers'[i].in_use

LEMMA LeaveReblocks ==
    ASSUME IInv, Leave
    PROVE  WaitOver
  <1>1. controllers \in Seq(Controller)
    BY DEF IInv, DriverOK
  <1>2. Index(call.dev) \in 1 .. Len(controllers)
    BY AtWorkOnDevice DEF IInv, Leave, KinitAt, AtWork, Waiting
  <1>3. controllers' = [controllers EXCEPT ![Index(call.dev)].is_blocked = TRUE]
    BY DEF Leave, Reblock
  <1> QED
    BY <1>1, <1>2, <1>3, ReblockEffect DEF WaitOver

LEMMA AtaInterruptAnswers ==
    ASSUME IInv, AtaInterrupt
    PROVE  Interrupted
  <1> DEFINE i == Index(current_controller)
             err == Errs(controllers[i].bus)
  <1>1. controllers \in Seq(Controller)
    BY DEF IInv, DriverOK
  <1>2. i \in 1 .. Len(controllers)
    BY HandlerDevice DEF AtaInterrupt
  <1>3. controllers' = [controllers EXCEPT ![i].has_errored = err,
                                           ![i].is_blocked = FALSE]
    BY DEF AtaInterrupt, ata_irq
  <1>4. err \in BOOLEAN
    BY HandlerDevice DEF IInv, AtaInterrupt, Errs, DrivesOK, DriveStates
  <1> HIDE DEF i, err
  <1>5. Changed(controllers, controllers', i)
        /\ controllers'[i].in_use = controllers[i].in_use
    BY <1>1, <1>2, <1>3, <1>4, AnswerEffect
  <1> QED
    BY <1>2, <1>5 DEF Interrupted, i

LEMMA ArrayStep ==
    ASSUME IInv, [Next]_vars
    PROVE  \/ UNCHANGED controllers
           \/ NewDevice \/ WaitOver \/ Interrupted \/ TakenOrGiven
  <1> USE DEF IInv
  <1>0. controllers \in Seq(Controller)
    BY DEF DriverOK
  <1>1. CASE \/ InitTimer \/ InitKeyboard \/ Identify \/ Register \/ Check \/ Halt
             \/ Wake \/ NextCall \/ EnterInvalid \/ KinitDone
    BY <1>1 DEF InitTimer, InitKeyboard, Identify, Register, Check, Halt, Wake,
                NextCall, EnterInvalid, KinitDone, ataVars
  <1>2. CASE Interrupt \/ Handled \/ Tick \/ KeyRaised \/ Drives \/ UNCHANGED vars
    BY <1>2 DEF Interrupt, Handled, Tick, KeyRaised, Drives, DriveAnswers, vars,
                ataVars
  <1>3. CASE \/ AtaRefused \/ AtaWriteData \/ AtaCommandStart \/ AtaCommandEnd
             \/ AtapiRefused \/ AtapiPacket \/ AtapiFailed \/ AtapiTransfer
             \/ AtapiMore
    BY <1>3 DEF AtaRefused, AtaWriteData, AtaCommandStart, AtaCommandEnd,
                AtapiRefused, AtapiPacket, AtapiFailed, AtapiTransfer, AtapiMore,
                ataVars
  <1>4. CASE Publish
    <2>1. call.dev \in Buses /\ Found(call.dev) \in {"ata", "atapi"}
      BY <1>4 DEF Publish, KinitAt, KinitOK, Found, Reported
    <2>2. PICK garbage \in BOOLEAN :
             controllers' = Append(controllers,
                    [bus |-> call.dev, type |-> Found(call.dev), in_use |-> FALSE,
                     is_blocked |-> TRUE, has_errored |-> garbage])
      BY <1>4 DEF Publish
    <2>3. PICK c : c = [bus |-> call.dev, type |-> Found(call.dev), in_use |-> FALSE,
                        is_blocked |-> TRUE, has_errored |-> garbage]
      OBVIOUS
    <2>4. c \in Controller /\ ~c.in_use /\ c.is_blocked
      BY <2>1, <2>3 DEF Controller
    <2> QED
      BY <1>4, <2>2, <2>3, <2>4 DEF NewDevice
  <1>5. CASE Leave \/ AtaInterrupt
    BY <1>5, LeaveReblocks, AtaInterruptAnswers
  <1>7. ASSUME AtWork, pc = "enter", InUse(TRUE), pc' # "call"
        PROVE  TakenOrGiven
    <2> DEFINE i == Index(call.dev)
    <2>1. i \in 1 .. Len(controllers)
      BY <1>7, AtWorkOnDevice
    <2>2. controllers' = [controllers EXCEPT ![i].in_use = TRUE]
      BY <1>7 DEF InUse
    <2> HIDE DEF i
    <2>3. /\ Changed(controllers, controllers', i)
          /\ controllers'[i].is_blocked = controllers[i].is_blocked
      BY <1>0, <2>1, <2>2, TakenEffect
    <2> QED
      BY <1>7, <2>1, <2>3 DEF TakenOrGiven, i
  <1>7b. ASSUME AtWork, pc \in InCall, InUse(FALSE)
        PROVE  TakenOrGiven
    <2> DEFINE i == Index(call.dev)
    <2>1. i \in 1 .. Len(controllers)
      BY <1>7b, AtWorkOnDevice
    <2>2. controllers' = [controllers EXCEPT ![i].in_use = FALSE]
      BY <1>7b DEF InUse
    <2> HIDE DEF i
    <2>3. /\ Changed(controllers, controllers', i)
          /\ ~controllers'[i].in_use
          /\ controllers'[i].is_blocked = controllers[i].is_blocked
      BY <1>0, <2>1, <2>2, GivenEffect
    <2> QED
      BY <1>7b, <2>1, <2>3 DEF TakenOrGiven, i
  <1>8. CASE AtaReadStart \/ AtaWriteStart \/ AtapiStart
    <2>1. InUse(TRUE) /\ AtWork /\ pc = "enter" /\ pc' # "call"
      BY <1>8 DEF AtaReadStart, AtaWriteStart, AtaStart, AtapiStart, Enter, KinitAt,
                  AtWork, StartWait
    <2> QED
      BY <1>7, <2>1
  <1>9. CASE AtaReadData \/ AtaWriteFlush \/ AtapiEnd
    <2>1. InUse(FALSE) /\ AtWork /\ pc \in InCall
      BY <1>9 DEF AtaReadData, AtaWriteFlush, AtapiEnd, KinitAt, AtWork, InCall,
                  Release
    <2> QED
      BY <1>7b, <2>1
  <1> QED
    BY <1>1, <1>2, <1>3, <1>4, <1>5, <1>8, <1>9
       DEF Next, Kinit, Boot, Wait, DriverCalls, Handling

\* What the steps that touch neither the array nor the numbers leave alone.
LEMMA NumbersStay ==
    ASSUME [Next]_vars, ~Publish
    PROVE  UNCHANGED << controller_index, ids >>
  <1>1. CASE Boot \/ Wait \/ NextCall \/ EnterInvalid \/ KinitDone
    BY <1>1 DEF Boot, InitTimer, InitKeyboard, Identify, Register, Wait, Check,
                Halt, Wake, Leave, NextCall, EnterInvalid, KinitDone, ataVars
  <1>2. CASE Interrupt \/ Handling \/ Tick \/ KeyRaised \/ Drives \/ UNCHANGED vars
    BY <1>2 DEF Interrupt, Handling, Handled, AtaInterrupt, ata_irq, Tick,
                KeyRaised, Drives, DriveAnswers, vars, ataVars
  <1>3. CASE \/ AtaRefused \/ AtaReadStart \/ AtaReadData \/ AtaWriteStart
             \/ AtaWriteData \/ AtaWriteFlush \/ AtaCommandStart \/ AtaCommandEnd
    BY <1>3 DEF AtaRefused, AtaReadStart, AtaReadData, AtaWriteStart, AtaStart,
                AtaWriteData, AtaWriteFlush, AtaCommandStart, AtaCommandEnd,
                KeepIds, ataVars
  <1>4. CASE \/ AtapiRefused \/ AtapiStart \/ AtapiPacket \/ AtapiFailed
             \/ AtapiTransfer \/ AtapiMore \/ AtapiEnd
    BY <1>4 DEF AtapiRefused, AtapiStart, AtapiPacket, AtapiFailed, AtapiTransfer,
                AtapiMore, AtapiEnd, KeepIds, ataVars
  <1> QED
    BY <1>1, <1>2, <1>3, <1>4 DEF Next, Kinit, DriverCalls

\* The steps that select a device select the one of the call.
LEMMA Selected ==
    ASSUME [Next]_vars
    PROVE  \/ UNCHANGED current_controller
           \/ AtWork /\ current_controller' = call.dev
  <1>1. CASE Boot \/ Wait \/ NextCall \/ EnterInvalid \/ KinitDone
    BY <1>1 DEF Boot, InitTimer, InitKeyboard, Identify, Register, Publish, Wait,
                Check, Halt, Wake, Leave, NextCall, EnterInvalid, KinitDone, ataVars
  <1>2. CASE Interrupt \/ Handling \/ Tick \/ KeyRaised \/ Drives \/ UNCHANGED vars
    BY <1>2 DEF Interrupt, Handling, Handled, AtaInterrupt, ata_irq, Tick,
                KeyRaised, Drives, DriveAnswers, vars, ataVars
  <1>3. CASE \/ AtaRefused \/ AtaReadData \/ AtaWriteData \/ AtaWriteFlush
             \/ AtaCommandEnd \/ AtapiPacket \/ AtapiFailed \/ AtapiTransfer
             \/ AtapiMore \/ AtapiEnd
    BY <1>3 DEF AtaRefused, AtaReadData, AtaWriteData, AtaWriteFlush,
                AtaCommandEnd, AtapiPacket, AtapiFailed, AtapiTransfer,
                AtapiMore, AtapiEnd, ataVars
  <1>4. CASE \/ AtaReadStart \/ AtaWriteStart \/ AtaCommandStart \/ AtapiRefused
             \/ AtapiStart
    BY <1>4 DEF AtaReadStart, AtaWriteStart, AtaStart, AtaCommandStart,
                AtapiRefused, AtapiStart, Enter, KinitAt, AtWork, switchDevice
  <1> QED
    BY <1>1, <1>2, <1>3, <1>4 DEF Next, Kinit, DriverCalls

\* The array only grows, and only when ide_init fills it.
LEMMA ArrayGrows ==
    ASSUME IInv, [Next]_vars
    PROVE  /\ controllers' \in Seq(Controller)
           /\ Len(controllers) \in Nat /\ Len(controllers') \in Nat
           /\ Len(controllers) <= Len(controllers')
           /\ NewDevice \/ Len(controllers') = Len(controllers)
           /\ NewDevice => Len(controllers') = Len(controllers) + 1
  <1>1. controllers \in Seq(Controller)
    BY DEF IInv, DriverOK
  <1>2. CASE NewDevice
    BY <1>1, <1>2, AppendProperties DEF NewDevice
  <1>3. CASE UNCHANGED controllers /\ ~NewDevice
    BY <1>1, <1>3
  <1>4. CASE (WaitOver \/ Interrupted \/ TakenOrGiven) /\ ~NewDevice
    BY <1>1, <1>4 DEF WaitOver, Interrupted, TakenOrGiven, Changed
  <1> QED
    BY <1>2, <1>3, <1>4, ArrayStep

LEMMA PublishIsNew ==
    ASSUME IInv, [Next]_vars, Publish
    PROVE  NewDevice
  <1>1. controllers' # controllers
    <2>1. PICK c : controllers' = Append(controllers, c)
      BY DEF Publish
    <2> QED
      BY <2>1, AppendProperties DEF IInv, DriverOK
  <1>2. ~Leave /\ ~AtaInterrupt
    BY DEF Publish, Leave, AtaInterrupt, KinitAt, Dispatching
  <1> QED
    BY <1>1, <1>2, ArrayStep
       DEF WaitOver, Interrupted, TakenOrGiven, Publish, KinitAt, InCall

LEMMA DriverStep == IInv /\ [Next]_vars => DriverOK'
  <1> SUFFICES ASSUME IInv, [Next]_vars PROVE DriverOK'
    OBVIOUS
  <1> USE DEF IInv
  <1>1. controllers' \in Seq(Controller)
    BY ArrayGrows
  <1>2. ASSUME NEW dev, IsDevice(dev)
        PROVE  \E i \in 1 .. Len(controllers') : dev = 2 * (i - 1)
    <2>1. PICK i \in 1 .. Len(controllers) : dev = 2 * (i - 1)
      BY <1>2 DEF IsDevice
    <2>2. i \in 1 .. Len(controllers')
      BY ArrayGrows
    <2> QED
      BY <2>1, <2>2
  <1>3. CASE Publish
    <2>1. NewDevice
      BY <1>3, PublishIsNew
    <2>2. Len(controllers') = Len(controllers) + 1 /\ Len(controllers) \in Nat
      BY <2>1, ArrayGrows
    <2>3. controller_index' = 2 * Len(controllers')
      BY <1>3, <2>2 DEF Publish, DriverOK
    <2>4. Len(controllers') \in 1 .. Len(controllers')
      BY <2>2
    <2>5. /\ controller_index \in Nat
          /\ controller_index = 2 * (Len(controllers') - 1)
      BY <2>2 DEF DriverOK
    <2>6. ids' \in [Buses -> Nat]
      BY <1>3, <2>5 DEF Publish, DriverOK
    <2>7. ASSUME NEW b \in Buses
          PROVE  ids'[b] = Invalid \/ IsDevice(ids[b])'
      <3>1. CASE b = call.dev
        <4>1. ids'[b] = controller_index
          BY <1>3, <3>1 DEF Publish, DriverOK
        <4> QED
          BY <2>4, <2>5, <4>1 DEF IsDevice
      <3>2. CASE b # call.dev
        <4>1. ids'[b] = ids[b]
          BY <1>3, <3>2 DEF Publish, DriverOK
        <4> QED
          BY <1>2, <4>1 DEF DriverOK, IsDevice
      <3> QED
        BY <3>1, <3>2
    <2>8. UNCHANGED current_controller
      BY <1>3 DEF Publish
    <2>9. IsDevice(current_controller)'
      <3>1. CASE controllers = << >>
        <4>1. current_controller' = 2 * (1 - 1) /\ 1 \in 1 .. Len(controllers')
          BY <2>2, <2>8, <3>1 DEF DriverOK
        <4> QED
          BY <4>1 DEF IsDevice
      <3>2. CASE controllers # << >>
        BY <1>2, <2>8, <3>2 DEF DriverOK, IsDevice
      <3> QED
        BY <3>1, <3>2
    <2>10. controllers' # << >>
      BY <1>1, <2>2
    <2> QED
      BY <1>1, <2>3, <2>6, <2>7, <2>8, <2>9, <2>10 DEF DriverOK
  <1>4. CASE ~Publish
    <2>1. Len(controllers') = Len(controllers)
      BY <1>4, ArrayGrows DEF NewDevice
    <2>2. UNCHANGED << controller_index, ids >>
      BY <1>4, NumbersStay
    <2>3. \A b \in Buses : ids'[b] = Invalid \/ IsDevice(ids[b])'
      BY <1>2, <2>2 DEF DriverOK, IsDevice
    <2>4. controllers' = << >> <=> controllers = << >>
      BY <1>1, <2>1, EmptySeq DEF DriverOK
    <2>5. CASE UNCHANGED current_controller
      BY <1>1, <1>2, <2>1, <2>2, <2>3, <2>4, <2>5 DEF DriverOK, IsDevice
    <2>6. CASE AtWork /\ current_controller' = call.dev
      <3>1. IsDevice(call.dev) /\ call.dev \in Nat
        BY <2>6, AtWorkOnDevice
      <3>2. IsDevice(current_controller)'
        BY <1>2, <2>6, <3>1 DEF IsDevice
      <3>3. controllers' # << >>
        BY <1>1, <2>4, <2>6, AtWorkOnDevice, EmptySeq DEF DriverOK
      <3> QED
        BY <1>1, <2>1, <2>2, <2>3, <2>6, <3>1, <3>2, <3>3 DEF DriverOK
    <2> QED
      BY <2>5, <2>6, Selected
  <1> QED
    BY <1>3, <1>4

\* What happens around kinit and the handlers: the timer, the keys, the drives.
Around == Tick \/ KeyRaised \/ Drives \/ UNCHANGED vars

LEMMA AroundKeeps ==
    ASSUME Around
    PROVE  UNCHANGED << halVars, in_service, masked, irqs, vector, ataVars, kinitVars >>
  BY DEF Around, Tick, KeyRaised, Drives, DriveAnswers, vars, irqVars

\* No handler is added, and kinit does not return to the initialisation, later.
LEMMA AfterBoot ==
    ASSUME IInv, [Next]_vars, ~Boot, ~Around
    PROVE  pc \notin Booting /\ pc' \notin Booting /\ UNCHANGED irqs
  <1> USE DEF IInv
  <1>1. CASE Wait \/ NextCall \/ EnterInvalid \/ KinitDone
    <2>1. CASE Check \/ Halt \/ Wake
      BY <2>1 DEF Check, Halt, Wake, KinitAt, Booting, irqVars
    <2>2. CASE Leave
      BY <2>2 DEF Leave, KinitAt, Booting, irqVars, KinitOK, Waiting
    <2>3. CASE NextCall \/ EnterInvalid \/ KinitDone
      BY <2>3 DEF NextCall, EnterInvalid, Answered, KinitDone, KinitAt, Booting,
                  irqVars
    <2> QED
      BY <1>1, <2>1, <2>2, <2>3 DEF Wait
  <1>2. CASE Interrupt \/ Handling
    <2>1. pc \in Waiting \cup {"idle"}
      BY <1>2 DEF Interrupt, Accept, Handling, Handled, DismissSpurious, DispatchTo,
                  AtaInterrupt, Dispatching, Quiet
    <2>2. pc' \in {pc, "woken"} /\ UNCHANGED irqs
      BY <1>2 DEF Interrupt, Accept, Handling, Handled, DismissSpurious, DispatchTo,
                  AtaInterrupt, ata_irq, Return, Resume, kinitVars
    <2> QED
      BY <2>1, <2>2 DEF Waiting, Booting
  <1>3. CASE AtaRefused \/ AtaReadStart \/ AtaReadData
    BY <1>3 DEF AtaRefused, AtaReadStart, AtaStart, AtaReadData, Answered, Enter,
                KinitAt, StartWait, StatusRead, irqVars, Booting
  <1>4. CASE AtaWriteStart \/ AtaWriteData \/ AtaWriteFlush
    BY <1>4 DEF AtaWriteStart, AtaStart, AtaWriteData, AtaWriteFlush, Answered,
                Enter, KinitAt, StatusRead, irqVars, Booting
  <1>5. CASE AtaCommandStart \/ AtaCommandEnd
    BY <1>5 DEF AtaCommandStart, AtaCommandEnd, Answered, Enter, KinitAt, StartWait,
                StatusRead, irqVars, Booting
  <1>6. CASE AtapiRefused \/ AtapiStart \/ AtapiPacket \/ AtapiFailed
    BY <1>6 DEF AtapiRefused, AtapiStart, AtapiPacket, AtapiFailed, Answered, Enter,
                KinitAt, StartWait, StatusRead, irqVars, Booting
  <1>7. CASE AtapiTransfer \/ AtapiMore \/ AtapiEnd
    BY <1>7 DEF AtapiTransfer, AtapiMore, AtapiEnd, Answered, KinitAt, StartWait,
                irqVars, Booting
  <1> QED
    BY <1>1, <1>2, <1>3, <1>4, <1>5, <1>6, <1>7
       DEF Next, Kinit, DriverCalls, Around, vars

LEMMA PublishFills ==
    ASSUME IInv, [Next]_vars, Publish
    PROVE  controllers' # << >>
  <1>1. PICK c : controllers' = Append(controllers, c)
    BY DEF Publish
  <1> QED
    BY <1>1, AppendProperties, EmptySeq DEF IInv, DriverOK

LEMMA ChainsStep == IInv /\ [Next]_vars => ChainsOK'
  <1> SUFFICES ASSUME IInv, [Next]_vars PROVE ChainsOK'
    OBVIOUS
  <1> USE DEF IInv
  <1>0. controllers # << >> => controllers' # << >>
    BY ArrayGrows, EmptySeq DEF DriverOK
  <1>1. CASE Around
    BY <1>1, AroundKeeps DEF ChainsOK, ataVars, kinitVars
  <1>2. CASE ~Boot /\ ~Around
    <2>1. pc \notin Booting /\ pc' \notin Booting /\ UNCHANGED irqs
      BY <1>2, AfterBoot
    <2> QED
      BY <1>0, <2>1 DEF ChainsOK, Booting
  <1>3. CASE InitTimer
    <2>1. pc = "timer" /\ pc' = "keyboard" /\ UNCHANGED << call, controllers >>
      BY <1>3 DEF InitTimer, KinitAt, ataVars
    <2>2. \A n \in Lines : irqs[n] = << >>
      BY <2>1 DEF ChainsOK, Wired, Buses, Line, Lines, Timer
    <2>2a. irqs[Timer] = << >> /\ Timer \in Lines
      BY <2>2 DEF Lines, Timer
    <2>2b. irqs' = [irqs EXCEPT ![Timer] = << "timer_isr" >>]
      BY <1>3, <2>2a DEF InitTimer, AddHandler
    <2>3. /\ DOMAIN irqs' = Lines /\ irqs'[Timer] = << "timer_isr" >>
          /\ \A n \in Lines \ {Timer} : irqs'[n] = << >>
      BY <2>2, <2>2a, <2>2b DEF ChainsOK
    <2>4. \A b \in Buses : Line(b) \in Lines \ {Timer}
      BY DEF Buses, Line, Lines, Timer
    <2> QED
      BY <2>1, <2>3, <2>4 DEF ChainsOK, Lines, Timer, Wired, HandlerOf
  <1>4. CASE InitKeyboard
    <2>1. pc = "keyboard" /\ pc' = "identify" /\ call'.dev = 0
      BY <1>4 DEF InitKeyboard, KinitAt
    <2>2. \A n \in Lines \ {Timer} : irqs[n] = << >>
      BY <2>1 DEF ChainsOK, Wired, Buses, Line, Lines, Timer
    <2>3. /\ DOMAIN irqs' = Lines /\ irqs'[Timer] = irqs[Timer]
          /\ irqs'[1] = << "keyboard_isr" >>
          /\ irqs'[12] \in {<< >>, << "keyboard_isr" >>}
          /\ \A n \in Lines \ {Timer, 1, 12} : irqs'[n] = << >>
      <3>1. irqs[1] = << >> /\ irqs[12] = << >> /\ {1, 12} \subseteq Lines
        BY <2>2 DEF Lines, Timer
      <3>2. PICK first : first = AddHandler(irqs, 1, "keyboard_isr")
        OBVIOUS
      <3>3. first = [irqs EXCEPT ![1] = << "keyboard_isr" >>]
        BY <3>1, <3>2 DEF AddHandler
      <3>4. /\ DOMAIN first = Lines /\ first[1] = << "keyboard_isr" >>
            /\ \A n \in Lines \ {1} : first[n] = irqs[n]
        BY <3>1, <3>3 DEF ChainsOK
      <3>5. irqs' = first \/ irqs' = AddHandler(first, 12, "keyboard_isr")
        BY <1>4, <3>2 DEF InitKeyboard
      <3>6. AddHandler(first, 12, "keyboard_isr")
              = [first EXCEPT ![12] = << "keyboard_isr" >>]
        <4>1. first[12] = << >>
          BY <3>1, <3>4
        <4> QED
          BY <4>1 DEF AddHandler
      <3>7. CASE irqs' = first
        BY <2>2, <3>1, <3>4, <3>7 DEF Lines, Timer
      <3>8. CASE irqs' = [first EXCEPT ![12] = << "keyboard_isr" >>]
        BY <2>2, <3>1, <3>4, <3>8 DEF Lines, Timer
      <3> QED
        BY <3>5, <3>6, <3>7, <3>8
    <2>4. \A b \in Buses : Line(b) \in Lines \ {Timer, 1, 12}
      BY DEF Buses, Line, Lines, Timer
    <2>5. irqs[Timer] # << >> /\ irqs[Timer] = << HandlerOf(Timer) >>
      BY <2>1 DEF ChainsOK, Lines, Timer
    <2>6. \A n \in Lines : \/ irqs'[n] = << >>
                           \/ n \in Wired /\ irqs'[n] = << HandlerOf(n) >>
      BY <2>3, <2>5 DEF Lines, Timer, Wired, HandlerOf
    <2> QED
      BY <2>1, <2>3, <2>4, <2>5, <2>6 DEF ChainsOK
  <1>5. CASE Identify
    <2>1. pc = "identify" /\ UNCHANGED << irqs, controllers >>
      BY <1>5 DEF Identify, KinitAt, ataVars
    <2>2. \/ pc' = "register" /\ UNCHANGED call
          \/ pc' = "identify" /\ call.dev = 0 /\ call'.dev = 1
          \/ pc' = "call"
      BY <1>5 DEF Identify, AfterIde
    <2> QED
      BY <2>1, <2>2 DEF ChainsOK, Buses
  <1>6. CASE Register
    <2>1. /\ pc = "register" /\ pc' = "publish" /\ UNCHANGED << call, controllers >>
          /\ call.dev \in Buses
      BY <1>6 DEF Register, KinitAt, ataVars, KinitOK
    <2>2. Line(call.dev) \in {14, 15}
      BY <2>1 DEF Buses, Line
    <2>3. irqs[Line(call.dev)] = << >>
      BY <2>1 DEF ChainsOK, Buses
    <2>4. /\ DOMAIN irqs' = Lines
          /\ irqs'[Line(call.dev)] = << "ata_irq" >>
          /\ \A n \in Lines \ {Line(call.dev)} : irqs'[n] = irqs[n]
      BY <1>6, <2>2, <2>3 DEF Register, AddHandler, ChainsOK, Lines
    <2>5. \A n \in Lines : \/ irqs'[n] = << >>
                           \/ n \in Wired /\ irqs'[n] = << HandlerOf(n) >>
      BY <2>2, <2>4 DEF ChainsOK, Wired, HandlerOf, Timer
    <2>6. /\ irqs'[Timer] = irqs[Timer] /\ irqs'[1] = irqs[1]
          /\ irqs'[12] = irqs[12]
      BY <2>2, <2>4 DEF Lines, Timer
    <2>7. irqs[1] # << >>
      BY <2>1 DEF ChainsOK
    <2>8. \A b \in Buses : irqs'[Line(b)] # << >> => b <= call.dev
      BY <2>1, <2>4 DEF ChainsOK, Buses, Line, Lines
    <2> QED
      BY <2>1, <2>4, <2>5, <2>6, <2>7, <2>8 DEF ChainsOK
  <1>7. CASE Publish
    <2>1. /\ pc = "publish" /\ UNCHANGED irqs
          /\ \/ pc' = "identify" /\ call.dev = 0 /\ call'.dev = 1
             \/ pc' = "call"
      BY <1>7 DEF Publish, KinitAt, AfterIde
    <2>2. controllers' # << >>
      BY <1>7, PublishFills
    <2> QED
      BY <2>1, <2>2 DEF ChainsOK, Buses
  <1> QED
    BY <1>1, <1>2, <1>3, <1>4, <1>5, <1>6, <1>7 DEF Boot

\* IF is bit 9, and the byte that remembers it has eight.
LEMMA NothingSaved == \A on \in BOOLEAN : SavedFlag(on) = 0
  BY DEF SavedFlag, IntrFlag, ByteSize

LEMMA QuietStep == IInv /\ [Next]_vars => Quiet'
  <1> SUFFICES ASSUME IInv, [Next]_vars PROVE Quiet'
    OBVIOUS
  <1> USE DEF IInv
  <1>0. SavedFlag(interrupts) = 0
    BY NothingSaved DEF Quiet
  <1>1. CASE Around
    BY <1>1, AroundKeeps DEF Quiet, halVars, ataVars, kinitVars
  <1>2. CASE Boot
    <2>1. pc \in Booting /\ vector = NoLine /\ CloseSection
      BY <1>2 DEF Boot, InitTimer, InitKeyboard, Identify, Register, Publish,
                  KinitAt, Booting
    <2>2. UNCHANGED << in_service, vector >>
      BY <1>2 DEF Boot, InitTimer, InitKeyboard, Identify, Register, Publish,
                  Controllers
    <2>3. were_intrs_enabled' = 0 /\ interrupts' = FALSE
      <3>1. were_intrs_enabled' = 0
        BY <1>0, <2>1 DEF CloseSection, SaveFlag
      <3>2. interrupts' = (were_intrs_enabled' # 0)
        BY <2>1 DEF CloseSection
      <3> QED
        BY <3>1, <3>2
    <2>4. \A i \in 1 .. Len(controllers') : ~controllers'[i].in_use
      <3>1. CASE Publish
        <4>1. NewDevice
          BY <3>1, PublishIsNew
        <4>2. PICK c \in Controller :
                 ~c.in_use /\ controllers' = Append(controllers, c)
          BY <4>1 DEF NewDevice
        <4>3. controllers \in Seq(Controller)
          BY DEF DriverOK
        <4>4. \A i \in 1 .. Len(controllers) : ~controllers[i].in_use
          BY <2>1 DEF Quiet
        <4> QED
          BY <4>2, <4>3, <4>4, AppendProperties
      <3>2. CASE ~Publish
        <4>1. UNCHANGED controllers
          BY <1>2, <3>2 DEF Boot, InitTimer, InitKeyboard, Identify, Register,
                            ataVars
        <4> QED
          BY <2>1, <4>1 DEF Quiet
      <3> QED
        BY <3>1, <3>2
    <2>5. in_service' = {}
      BY <2>1, <2>2 DEF Quiet
    <2> QED
      BY <2>1, <2>2, <2>3, <2>4, <2>5 DEF Quiet
  <1>3. CASE ~Boot /\ ~Around
    <2>0. pc' \notin Booting
      BY <1>3, AfterBoot
    <2>1. ASSUME vector = NoLine, UNCHANGED vector,
                 \/ UNCHANGED halVars /\ pc \notin Waiting \cup {"idle"}
                 \/ UNCHANGED halVars /\ pc' \in Waiting
                 \/ EnableInterrupts /\ pc' \in Waiting \cup {"idle"}
                 \/ RestoreInterrupts
          PROVE  Quiet'
      <3>1. CASE UNCHANGED halVars /\ pc \notin Waiting \cup {"idle"}
        BY <2>0, <2>1, <3>1 DEF Quiet, halVars
      <3>2. CASE UNCHANGED halVars /\ pc' \in Waiting
        BY <2>0, <2>1, <3>2 DEF Quiet, halVars
      <3>3. CASE EnableInterrupts /\ pc' \in Waiting \cup {"idle"}
        <4>1. were_intrs_enabled' = 0 /\ interrupts' = TRUE
          BY <1>0, <3>3 DEF EnableInterrupts, SaveFlag
        <4> QED
          BY <2>0, <2>1, <3>3, <4>1 DEF Quiet
      <3>4. CASE RestoreInterrupts
        <4>1. were_intrs_enabled' = 0
          BY <3>4 DEF Quiet, RestoreInterrupts
        <4>2. interrupts' = (were_intrs_enabled # 0)
          BY <3>4 DEF RestoreInterrupts
        <4>3. interrupts' = FALSE
          BY <4>2 DEF Quiet
        <4> QED
          BY <2>0, <2>1, <4>1, <4>3 DEF Quiet
      <3> QED
        BY <2>1, <3>1, <3>2, <3>3, <3>4
    <2>2. CASE Wait
      BY <2>1, <2>2 DEF Wait, Check, Halt, Wake, Leave, KinitAt, Waiting, irqVars
    <2>3. CASE NextCall \/ EnterInvalid \/ KinitDone
      BY <2>1, <2>3 DEF NextCall, EnterInvalid, KinitDone, KinitAt, Waiting, irqVars
    <2>4. CASE Interrupt
      BY <2>0, <2>4 DEF Quiet, Interrupt, Accept, kinitVars
    <2>5. CASE Handling
      <3>1. /\ vector' = NoLine /\ interrupts' = TRUE
            /\ UNCHANGED were_intrs_enabled /\ vector # NoLine
            /\ pc' \in {pc, "woken"}
        BY <2>5 DEF Handling, Handled, DismissSpurious, DispatchTo, AtaInterrupt,
                    ata_irq, Return, Resume, Dispatching
      <3> QED
        BY <2>0, <3>1 DEF Quiet, Waiting
    <2>6. CASE \/ AtaRefused \/ AtaReadStart \/ AtaReadData \/ AtaWriteStart
               \/ AtaWriteData
      BY <2>1, <2>6 DEF AtaRefused, AtaReadStart, AtaReadData, AtaWriteStart,
            AtaStart, AtaWriteData, Enter, KinitAt, StartWait, StatusRead, Waiting,
            irqVars
    <2>7. CASE AtaWriteFlush \/ AtaCommandStart \/ AtaCommandEnd \/ AtapiRefused
      BY <2>1, <2>7 DEF AtaWriteFlush, AtaCommandStart, AtaCommandEnd, AtapiRefused,
            Enter, KinitAt, StartWait, StatusRead, Waiting, irqVars
    <2>8. CASE \/ AtapiStart \/ AtapiPacket \/ AtapiFailed \/ AtapiTransfer
               \/ AtapiMore \/ AtapiEnd
      BY <2>1, <2>8 DEF AtapiStart, AtapiPacket, AtapiFailed, AtapiTransfer,
            AtapiMore, AtapiEnd, Enter, KinitAt, StartWait, StatusRead, Waiting,
            irqVars
    <2> QED
      BY <1>3, <2>2, <2>3, <2>4, <2>5, <2>6, <2>7, <2>8
         DEF Next, Kinit, DriverCalls, Around, vars
  <1> QED
    BY <1>1, <1>2, <1>3

\* The end of service, where it happens.
LEMMA CascadeAlone == MasterEOI({Cascade}) = {}
  BY DEF MasterEOI, EndHighest, Master, Slave, Cascade

LEMMA CascadedPair ==
    \A n \in {12, 14, 15} : MasterEOI(SlaveEOI({n, Cascade})) = {}
  <1> TAKE n \in {12, 14, 15}
  <1>0. /\ n \notin 0 .. 7 /\ n \in 8 .. 15
        /\ Cascade \in 0 .. 7 /\ Cascade \notin 8 .. 15
    BY DEF Cascade
  <1>1. Master({n, Cascade}) = {Cascade} /\ Slave({n, Cascade}) = {n}
    BY <1>0, Zenon DEF Master, Slave
  <1>2. EndHighest({n}) = {}
    BY DEF EndHighest
  <1>3. SlaveEOI({n, Cascade}) = {Cascade}
    BY <1>1, <1>2 DEF SlaveEOI
  <1> QED
    BY <1>3, CascadeAlone

LEMMA HighestEnds ==
    ASSUME NEW S, S \subseteq Wired \cup {Cascade}, NEW n \in {0, 1}, n \in S,
           {0, 1} \cap S = {n}
    PROVE  MasterEOI(S) = S \ {n}
  <1>0. \A k \in S : (k \in 0 .. 7 <=> k \in {n, Cascade})
                    /\ (k \in 8 .. 15 <=> k \notin {n, Cascade})
    BY DEF Wired, Cascade
  <1>1. Master(S) = S \cap {n, Cascade} /\ Slave(S) = S \ {n, Cascade}
    BY <1>0, Zenon DEF Master, Slave
  <1>2. EndHighest(S \cap {n, Cascade}) = S \cap {Cascade}
    BY DEF EndHighest, Cascade
  <1>3. MasterEOI(S) = (S \cap {Cascade}) \cup (S \ {n, Cascade})
    BY <1>1, <1>2 DEF MasterEOI
  <1> QED
    BY <1>3 DEF Cascade

\* The timer and the keyboard have their handlers before interrupts are let in.
LEMMA BothHandled ==
    ASSUME IInv, interrupts \/ vector # NoLine
    PROVE  irqs[0] # << >> /\ irqs[1] # << >> /\ pc \notin Booting
  BY DEF IInv, Quiet, ChainsOK, Waiting, Booting, Timer

LEMMA Accepted ==
    ASSUME IInv, Interrupt
    PROVE  Service'
  <1> USE DEF IInv
  <1>1. PICK n \in Lines : Accept(n)
    BY DEF Interrupt
  <1>2. /\ vector = NoLine /\ interrupts /\ Settled(in_service)
        /\ n \in Wired /\ UNCHANGED << irqs, masked >>
        /\ irr' \subseteq Wired /\ asserted' \subseteq Wired
    BY <1>1 DEF Accept, Highest, Admitted, Service
  <1>3. in_service \subseteq Wired \cup {Cascade} /\ masked' \subseteq Lines
    BY <1>2 DEF Service
  <1>4. 0 \notin in_service /\ 1 \notin in_service
    BY <1>2, BothHandled DEF Settled, Cascade
  <1>5. CASE n \in {0, 1}
    <2>1. ~OnSlave(n)
      BY <1>5 DEF OnSlave
    <2>2. \/ vector' = n /\ in_service' = in_service \cup {n}
          \/ vector' = 7 /\ in_service' = in_service
      BY <1>1, <2>1 DEF Accept
    <2>3. CASE vector' = n /\ in_service' = in_service \cup {n}
      <3>1. in_service' \ {n} = in_service
        BY <1>4, <1>5, <2>3
      <3>2. Settled(in_service \ {vector})'
        BY <1>2, <2>3, <3>1 DEF Settled
      <3>3. vector' \in in_service' /\ vector' \in {0, 1}
        BY <1>5, <2>3
      <3>4. in_service' \subseteq Wired \cup {Cascade}
        BY <1>3, <1>5, <2>3 DEF Wired
      <3> QED
        BY <1>2, <1>3, <3>2, <3>3, <3>4 DEF Service, NoLine
    <2>4. CASE vector' = 7 /\ in_service' = in_service
      <3>1. Settled(in_service)'
        BY <1>2, <2>4 DEF Settled
      <3> QED
        BY <1>2, <1>3, <2>4, <3>1 DEF Service
    <2> QED
      BY <2>2, <2>3, <2>4
  <1>6. CASE n \in {12, 14, 15}
    <2>1. OnSlave(n)
      BY <1>6 DEF OnSlave
    <2>2. \A k \in Master(in_service) : Cascade < k
      BY <1>1, <2>1 DEF Accept, Highest, Admitted
    <2>3. Cascade \notin in_service
      BY <2>2 DEF Master, Cascade
    <2>4. Slave(in_service) = {}
      BY <1>2, <2>3 DEF Settled
    <2>5. in_service = {}
      BY <1>3, <1>4, <2>3, <2>4 DEF Slave, Wired
    <2>6. \/ vector' = n /\ in_service' = {n, Cascade}
          \/ vector' = 15 /\ in_service' = {Cascade}
      BY <1>1, <2>1, <2>5 DEF Accept
    <2>7. vector' \in {12, 14, 15} /\ in_service' \subseteq Wired \cup {Cascade}
      BY <1>6, <2>6 DEF Wired
    <2> QED
      BY <1>2, <1>3, <2>6, <2>7 DEF Service, NoLine
  <1> QED
    BY <1>2, <1>5, <1>6 DEF Wired

LEMMA Served ==
    ASSUME IInv, Handling
    PROVE  Service'
  <1> USE DEF IInv
  <1>1. /\ vector # NoLine /\ vector' = NoLine
        /\ UNCHANGED << irr, masked, irqs >>
        /\ asserted' \subseteq asserted
    BY DEF Handling, Handled, DismissSpurious, DispatchTo, AtaInterrupt, ata_irq,
           Dispatching, Return
  <1>2. irqs[0] # << >> /\ irqs[1] # << >>
    BY <1>1, BothHandled
  <1>3. vector \in {0, 1, 7, 12, 14, 15} /\ in_service \subseteq Wired \cup {Cascade}
    BY <1>1 DEF Service
  <1>4. ASSUME in_service' \subseteq Wired \cup {Cascade}, Settled(in_service)'
        PROVE  Service'
    BY <1>1, <1>4 DEF Service, NoLine
  <1>5. ASSUME in_service' = {}
        PROVE  Service'
    <2>1. Settled(in_service)'
      BY <1>5 DEF Settled, Slave
    <2> QED
      BY <1>4, <1>5, <2>1
  <1>6. CASE Spurious(vector)
    <2>1. in_service' = SpuriousEOI(vector, in_service)
      BY <1>6 DEF Handling, Handled, DismissSpurious, DispatchTo, AtaInterrupt,
                  ata_irq, Dispatching, Return
    <2>2. CASE vector = 7
      <3>1. in_service' = in_service
        BY <2>1, <2>2 DEF SpuriousEOI
      <3>2. Settled(in_service)'
        BY <1>1, <2>2, <3>1 DEF Service, Settled
      <3> QED
        BY <1>3, <1>4, <3>1, <3>2
    <2>3. CASE vector = 15
      <3>1. in_service = {Cascade}
        BY <1>6, <2>3 DEF Service, Spurious
      <3> QED
        BY <1>5, <2>1, <2>3, <3>1, CascadeAlone DEF SpuriousEOI
    <2> QED
      BY <1>6, <2>2, <2>3 DEF Spurious
  <1>7. CASE ~Spurious(vector)
    <2>1. in_service' = Acknowledged(vector, in_service)
      BY <1>7 DEF Handling, Handled, DismissSpurious, DispatchTo, AtaInterrupt,
                  ata_irq, Dispatching, Return
    <2>2. CASE vector \in {0, 1}
      <3>1. vector \in in_service /\ Settled(in_service \ {vector})
        BY <2>2 DEF Service
      <3>2. {0, 1} \cap in_service = {vector}
        BY <1>2, <2>2, <3>1 DEF Settled, Cascade
      <3>3. in_service' = MasterEOI(in_service)
        BY <1>2, <2>1, <2>2 DEF Acknowledged, pic_ack, OnSlave
      <3>4. in_service' = in_service \ {vector}
        BY <1>3, <2>2, <3>1, <3>2, <3>3, HighestEnds
      <3>5. Settled(in_service)'
        BY <1>1, <3>1, <3>4 DEF Settled
      <3> QED
        BY <1>3, <1>4, <3>4, <3>5
    <2>3. CASE vector \in {12, 14, 15}
      <3>1. in_service = {vector, Cascade}
        BY <1>7, <2>3 DEF Service, Spurious, Cascade
      <3>2. CASE irqs[vector] = << >>
        <4>1. in_service' = in_service
          BY <2>1, <3>2 DEF Acknowledged
        <4>2. vector \in Slave(in_service) /\ Cascade \in in_service
          <5>1. vector \in 8 .. 15
            BY <2>3
          <5> QED
            BY <3>1, <5>1, Zenon DEF Slave
        <4>3. \A n \in in_service : n = Cascade \/ irqs[n] = << >>
          BY <3>1, <3>2
        <4>4. Settled(in_service)'
          <5>1. Slave(in_service') # {}
            BY <4>1, <4>2
          <5>2. \A n \in in_service' : n = Cascade \/ irqs'[n] = << >>
            BY <1>1, <4>1, <4>3
          <5>3. Cascade \in in_service'
            BY <4>1, <4>2
          <5> QED
            BY <5>1, <5>2, <5>3 DEF Settled
        <4> QED
          BY <1>3, <1>4, <4>1, <4>4
      <3>3. CASE irqs[vector] # << >>
        <4>1. in_service' = MasterEOI(SlaveEOI(in_service))
          BY <2>1, <2>3, <3>3 DEF Acknowledged, pic_ack, OnSlave
        <4> QED
          BY <1>5, <2>3, <3>1, <4>1, CascadedPair
      <3> QED
        BY <3>2, <3>3
    <2>4. vector # 7
      <3>1. 7 \notin in_service
        BY <1>3 DEF Wired, Cascade
      <3> QED
        BY <1>7, <3>1 DEF Spurious
    <2> QED
      BY <1>3, <2>2, <2>3, <2>4
  <1> QED
    BY <1>6, <1>7

LEMMA ServiceStep == IInv /\ [Next]_vars => Service'
  <1> SUFFICES ASSUME IInv, [Next]_vars PROVE Service'
    OBVIOUS
  <1> USE DEF IInv
  <1>0. ASSUME UNCHANGED << in_service, vector, irqs >>,
               irr' \subseteq Wired, asserted' \subseteq Wired, masked' \subseteq Lines
        PROVE  Service'
    BY <1>0 DEF Service, Settled
  <1>1. CASE Around
    <2>1. UNCHANGED << in_service, vector, irqs, masked >>
      BY <1>1, AroundKeeps
    <2>2. ASSUME NEW n \in Wired, Raised(n)
          PROVE  irr' \subseteq Wired /\ asserted' \subseteq Wired
      BY <2>2 DEF Raised, Service
    <2>3. \/ \E n \in Wired : Raised(n)
          \/ UNCHANGED << irr, asserted >>
      BY <1>1 DEF Around, Tick, KeyRaised, Drives, DriveAnswers, Wired, Timer, Line,
                  Buses, vars, irqVars
    <2> QED
      BY <1>0, <2>1, <2>2, <2>3 DEF Service
  <1>2. CASE Boot
    <2>1. /\ pc \in Booting /\ vector = NoLine
          /\ UNCHANGED << in_service, vector, asserted, masked >>
      BY <1>2 DEF Boot, InitTimer, InitKeyboard, Identify, Register, Publish,
                  KinitAt, Booting, Controllers
    <2>2. in_service' = {}
      BY <2>1 DEF Quiet
    <2>3. Settled(in_service)'
      BY <2>2 DEF Settled, Slave
    <2>4. irr' \subseteq Wired
      <3>1. CASE Identify
        <4>1. call.dev \in Buses
          BY <3>1 DEF Identify, KinitAt, KinitOK
        <4>2. Line(call.dev) \in Wired
          BY <4>1 DEF Line, Buses, Wired
        <4>3. irr' = IF Present(call.dev) THEN irr \cup {Line(call.dev)} ELSE irr
          BY <3>1 DEF Identify
        <4> QED
          BY <4>2, <4>3 DEF Service
      <3>2. CASE ~Identify
        BY <1>2, <3>2 DEF Boot, InitTimer, InitKeyboard, Register, Publish,
                          Controllers, Service
      <3> QED
        BY <3>1, <3>2
    <2> QED
      BY <2>1, <2>2, <2>3, <2>4 DEF Service, NoLine
  <1>3. CASE ~Boot /\ ~Around
    <2>1. UNCHANGED irqs
      BY <1>3, AfterBoot
    <2>2. ASSUME UNCHANGED << in_service, vector, irr >>,
                 asserted' \subseteq asserted, masked' \subseteq masked
          PROVE  Service'
      BY <1>0, <2>1, <2>2 DEF Service
    <2>3. CASE Interrupt
      BY <2>3, Accepted
    <2>4. CASE Handling
      BY <2>4, Served
    <2>5. CASE Wait \/ NextCall \/ EnterInvalid \/ KinitDone
      BY <2>2, <2>5 DEF Wait, Check, Halt, Wake, Leave, NextCall, EnterInvalid,
            KinitDone, pic_unmaskIRQ, irqVars
    <2>6. CASE DriverCalls
      <3>1. UNCHANGED << in_service, vector, irr, masked >>
        BY <2>6 DEF DriverCalls, AtaRefused, AtaReadStart, AtaReadData,
              AtaWriteStart, AtaStart, AtaWriteData, AtaWriteFlush,
              AtaCommandStart, AtaCommandEnd, AtapiRefused, AtapiStart,
              AtapiPacket, AtapiFailed, AtapiTransfer, AtapiMore, AtapiEnd,
              StatusRead, irqVars
      <3>2. UNCHANGED asserted \/ StatusRead(Bus)
        <4>1. CASE \/ AtaRefused \/ AtaReadData \/ AtaWriteFlush \/ AtaCommandEnd
                   \/ AtapiPacket \/ AtapiFailed \/ AtapiTransfer \/ AtapiMore
                   \/ AtapiEnd
          BY <4>1 DEF AtaRefused, AtaReadData, AtaWriteFlush, AtaCommandEnd,
                AtapiPacket, AtapiFailed, AtapiTransfer, AtapiMore, AtapiEnd, irqVars
        <4>2. CASE AtaReadStart \/ AtaWriteStart \/ AtaCommandStart \/ AtapiStart
          BY <4>2 DEF AtaReadStart, AtaWriteStart, AtaStart, AtaCommandStart,
                AtapiStart
        <4>3. CASE AtaWriteData \/ AtapiRefused
          BY <4>3 DEF AtaWriteData, AtapiRefused, irqVars
        <4> QED
          BY <2>6, <4>1, <4>2, <4>3 DEF DriverCalls
      <3>3. asserted' \subseteq asserted
        BY <3>2 DEF StatusRead
      <3> QED
        BY <2>2, <3>1, <3>3
    <2> QED
      BY <1>3, <2>3, <2>4, <2>5, <2>6 DEF Next, Kinit, Around, vars
  <1> QED
    BY <1>1, <1>2, <1>3

\* A step that does not fill the array keeps the numbers of its devices.
LEMMA NumberStays ==
    ASSUME IInv, [Next]_vars, NEW dev, IsDevice(dev)
    PROVE  \E i \in 1 .. Len(controllers') : dev = 2 * (i - 1)
  <1>1. PICK i \in 1 .. Len(controllers) : dev = 2 * (i - 1)
    BY DEF IsDevice
  <1>2. i \in 1 .. Len(controllers')
    BY ArrayGrows
  <1> QED
    BY <1>1, <1>2

LEMMA KinitStep == IInv /\ [Next]_vars => KinitOK'
  <1> SUFFICES ASSUME IInv, [Next]_vars PROVE KinitOK'
    OBVIOUS
  <1> USE DEF IInv
  <1>0. MaxTimeout \in Nat /\ 0 \in 0 .. MaxTimeout
    BY AtaBoundsAssumption
  <1>1. ASSUME UNCHANGED << machine, kinitVars, current_controller >>
        PROVE  KinitOK'
    BY <1>1, NumberStays DEF KinitOK, kinitVars, IsDevice, Found, Reported
  <1>2. CASE Around \/ Interrupt
    BY <1>1, <1>2, AroundKeeps
       DEF Around, Tick, KeyRaised, Drives, DriveAnswers, Interrupt, vars, driveVars,
           ataVars
  <1>3. CASE Handling
    <2>1. /\ UNCHANGED << machine, current_controller, todo, call, timeout,
                          alt_error, ret >>
          /\ pc' = IF pc = "hlt" THEN "woken" ELSE pc
      BY <1>3 DEF Handling, Handled, AtaInterrupt, ata_irq, Resume, driveVars,
                  ataVars
    <2>2. CASE pc # "hlt"
      BY <2>1, <2>2, NumberStays DEF KinitOK, IsDevice, Found, Reported
    <2>3. CASE pc = "hlt"
      <3>1. IsDevice(call.dev)'
        BY <2>1, <2>3, NumberStays DEF KinitOK, IsDevice, Waiting
      <3> QED
        BY <2>1, <2>3, <3>1 DEF KinitOK, Waiting, Places
    <2> QED
      BY <2>2, <2>3
  <1>4. CASE Boot
    <2>1. UNCHANGED << machine, todo, timeout, alt_error >>
      BY <1>4 DEF Boot, InitTimer, InitKeyboard, Identify, Register, Publish,
                  driveVars, Locals
    <2>2. CASE InitTimer
      BY <2>1, <2>2 DEF InitTimer, KinitOK, Places, Booting, Waiting, InCall
    <2>3. CASE InitKeyboard
      BY <2>1, <2>3 DEF InitKeyboard, KinitOK, Places, Booting, Waiting, InCall,
                        Buses
    <2>4. ASSUME AfterIde(call.dev)
          PROVE  KinitOK'
      BY <2>1, <2>4 DEF AfterIde, KinitOK, Places, Booting, Waiting, InCall, Buses,
                        NoCall, Invalid
    <2>5. CASE Identify
      <3>1. CASE AfterIde(call.dev)
        BY <2>4, <3>1
      <3>2. CASE pc' = "register" /\ UNCHANGED call /\ Found(call.dev) # "none"
        BY <2>1, <2>5, <3>2 DEF Identify, KinitAt, KinitOK, Places, Booting,
              Waiting, InCall, Found, Reported
      <3> QED
        BY <2>5, <3>1, <3>2 DEF Identify
    <2>6. CASE Register
      BY <2>1, <2>6 DEF Register, KinitAt, KinitOK, Places, Booting, Waiting,
            InCall, Found, Reported
    <2>7. CASE Publish
      BY <2>4, <2>7 DEF Publish
    <2> QED
      BY <1>4, <2>2, <2>3, <2>5, <2>6, <2>7 DEF Boot
  <1>5. ASSUME AtWork, call' = call, current_controller' = call.dev,
               UNCHANGED todo,
               timeout' \in 0 .. MaxTimeout, alt_error' \in BOOLEAN,
               pc' \in Waiting \cup InCall,
               pc' \in Waiting => ret' \in {"data", "status", "transfer", "more"}
        PROVE  KinitOK'
    <2>1. IsDevice(call.dev)'
      BY <1>5, AtWorkOnDevice, NumberStays DEF IsDevice
    <2> QED
      BY <1>5, <2>1 DEF KinitOK, Places, Booting, Waiting, InCall
  <1>6. ASSUME pc' \in {"call", "idle"}, UNCHANGED << todo, call >>,
               UNCHANGED << timeout, alt_error >>
        PROVE  KinitOK'
    BY <1>6 DEF KinitOK, Places, Booting, Waiting, InCall
  <1>7. AtWork /\ pc # "enter" => current_controller = call.dev
    BY DEF AtWork, KinitOK
  <1>8. CASE Wait
    <2>1. CASE Check
      <3>1. AtWork /\ pc # "enter"
        BY <2>1 DEF Check, KinitAt, AtWork, Waiting
      <3>2. timeout' \in 0 .. MaxTimeout
        BY <1>0, <2>1 DEF Check, MustWait, KinitOK
      <3>3. ret \in {"data", "status", "transfer", "more"}
        BY <2>1 DEF Check, KinitAt, KinitOK, Waiting
      <3> QED
        BY <1>5, <1>7, <2>1, <3>1, <3>2, <3>3
           DEF Check, KinitOK, Waiting, ataVars
    <2>2. CASE Halt
      BY <1>5, <1>7, <2>2 DEF Halt, KinitAt, AtWork, KinitOK, Waiting, ataVars,
            Locals
    <2>3. CASE Wake
      <3>1. AtWork /\ pc # "enter"
        BY <2>3 DEF Wake, KinitAt, AtWork, Waiting
      <3>2. alt_error' \in BOOLEAN
        BY <2>3, <3>1, AtWorkOnDevice DEF Wake, Errs, DrivesOK, DriveStates
      <3>3. ret \in {"data", "status", "transfer", "more"}
        BY <2>3 DEF Wake, KinitAt, KinitOK, Waiting
      <3> QED
        BY <1>5, <1>7, <2>3, <3>1, <3>2, <3>3
           DEF Wake, KinitOK, Waiting, ataVars
    <2>4. CASE Leave
      <3>1. AtWork /\ pc # "enter"
        BY <2>4 DEF Leave, KinitAt, AtWork, Waiting
      <3>2. ret \in {"data", "status", "transfer", "more"}
        BY <2>4 DEF Leave, KinitAt, KinitOK, Waiting
      <3> QED
        BY <1>5, <1>7, <2>4, <3>1, <3>2
           DEF Leave, KinitOK, Waiting, InCall, Locals
    <2> QED
      BY <1>8, <2>1, <2>2, <2>3, <2>4 DEF Wait
  <1>9. CASE NextCall
    <2>1. /\ pc' = "enter" /\ todo # << >> /\ todo' = Tail(todo)
          /\ call' = [op |-> Head(todo).op, dev |-> ids[Head(todo).bus]]
          /\ UNCHANGED << timeout, alt_error >>
      BY <1>9 DEF NextCall, Locals
    <2>2. todo \in Seq([op : Calls, bus : Buses])
      BY DEF KinitOK
    <2>3. Head(todo) \in [op : Calls, bus : Buses]
          /\ todo' \in Seq([op : Calls, bus : Buses])
      BY <2>1, <2>2, HeadTailProperties
    <2>4. /\ call'.op \in Calls /\ call'.dev = ids[Head(todo).bus]
          /\ call' \in [op : Calls \cup {"none", "ide_init"}, dev : Nat]
      BY <2>1, <2>3 DEF DriverOK
    <2>5. call'.dev = Invalid \/ IsDevice(call.dev)'
      BY <2>3, <2>4, NumberStays DEF DriverOK, IsDevice
    <2> QED
      BY <2>1, <2>3, <2>4, <2>5 DEF KinitOK, Places, Waiting, InCall
  <1>10. CASE EnterInvalid \/ KinitDone
    BY <1>6, <1>10 DEF EnterInvalid, Answered, KinitDone, Locals
  <1>11. CASE AtaRefused \/ AtaReadData \/ AtaWriteFlush \/ AtaCommandEnd
    BY <1>6, <1>11 DEF AtaRefused, AtaReadData, AtaWriteFlush, AtaCommandEnd,
          Answered
  <1>12. CASE AtapiRefused \/ AtapiFailed \/ AtapiEnd
    BY <1>6, <1>12 DEF AtapiRefused, AtapiFailed, AtapiEnd, Answered
  <1>13. CASE AtaReadStart \/ AtaCommandStart
    BY <1>0, <1>5, <1>13 DEF AtaReadStart, AtaStart, AtaCommandStart, Enter,
          KinitAt, AtWork, switchDevice, StartWait, Waiting
  <1>14. CASE AtaWriteStart \/ AtapiStart
    BY <1>5, <1>14 DEF AtaWriteStart, AtaStart, AtapiStart, Enter, KinitAt, AtWork,
          switchDevice, KinitOK, InCall, Waiting, Locals
  <1>15. CASE AtaWriteData
    BY <1>5, <1>7, <1>15 DEF AtaWriteData, KinitAt, AtWork, KinitOK, InCall,
          Waiting, ataVars, Locals
  <1>16. CASE AtapiPacket \/ AtapiTransfer \/ AtapiMore
    BY <1>0, <1>5, <1>7, <1>16 DEF AtapiPacket, AtapiTransfer, AtapiMore, KinitAt,
          AtWork, StartWait, InCall, Waiting, ataVars
  <1> QED
    BY <1>2, <1>3, <1>4, <1>8, <1>9, <1>10, <1>11, <1>12, <1>13, <1>14, <1>15,
       <1>16 DEF Next, Kinit, DriverCalls, Around

\* Until Leave, a wait goes on for the device it is for; kinit stays idle.
LEMMA WaitGoesOn ==
    ASSUME IInv, [Next]_vars, ~Leave
    PROVE  /\ pc \in Waiting => pc' \in Waiting /\ call' = call
           /\ pc = "idle" => pc' = "idle"
  <1>1. CASE Around
    BY <1>1, AroundKeeps DEF kinitVars
  <1>2. CASE Interrupt \/ Handling
    BY <1>2 DEF Interrupt, Handling, Handled, AtaInterrupt, ata_irq, Resume,
                kinitVars, Waiting
  <1>3. CASE Check \/ Halt \/ Wake
    BY <1>3 DEF Check, Halt, Wake, KinitAt, Waiting, Locals
  <1>4. CASE Boot \/ NextCall \/ EnterInvalid \/ KinitDone \/ DriverCalls
    <2>1. pc \notin Waiting \cup {"idle"}
      BY <1>4 DEF Boot, InitTimer, InitKeyboard, Identify, Register, Publish,
            NextCall, EnterInvalid, KinitDone, DriverCalls, AtaRefused,
            AtaReadStart, AtaReadData, AtaWriteStart, AtaStart, AtaWriteData,
            AtaWriteFlush, AtaCommandStart, AtaCommandEnd, AtapiRefused,
            AtapiStart, AtapiPacket, AtapiFailed, AtapiTransfer, AtapiMore,
            AtapiEnd, Enter, KinitAt, Waiting
    <2> QED
      BY <2>1
  <1> QED
    BY <1>1, <1>2, <1>3, <1>4 DEF Next, Kinit, Wait, Around

LEMMA BlockedStep == IInv /\ [Next]_vars => UnblockedOnlyInWait'
  <1> SUFFICES ASSUME IInv, [Next]_vars, NEW i \in DOMAIN controllers',
                      ~controllers'[i].is_blocked
               PROVE  \/ pc' = "idle"
                      \/ pc' \in Waiting /\ Index(call'.dev) = i
    BY DEF UnblockedOnlyInWait, Index
  <1>1. /\ controllers \in Seq(Controller) /\ controllers' \in Seq(Controller)
        /\ DOMAIN controllers = 1 .. Len(controllers)
        /\ i \in 1 .. Len(controllers')
    BY ArrayGrows DEF IInv, DriverOK
  <1>2. ASSUME i \in 1 .. Len(controllers), ~controllers[i].is_blocked
        PROVE  pc = "idle" \/ (pc \in Waiting /\ Index(call.dev) = i)
    BY <1>1, <1>2 DEF IInv, UnblockedOnlyInWait
  <1>3. CASE Leave
    <2>1. WaitOver
      BY <1>3, LeaveReblocks
    <2>2. /\ i # Index(call.dev) /\ i \in 1 .. Len(controllers)
          /\ ~controllers[i].is_blocked
      BY <1>1, <2>1 DEF WaitOver, Changed
    <2>3. pc = "leave"
      BY <1>3 DEF Leave, KinitAt
    <2> QED
      BY <1>2, <2>2, <2>3
  <1>4. ASSUME ~Leave, i \in 1 .. Len(controllers), ~controllers[i].is_blocked
        PROVE  pc' = "idle" \/ (pc' \in Waiting /\ Index(call'.dev) = i)
    BY <1>2, <1>4, WaitGoesOn
  <1>5. CASE ~Leave /\ UNCHANGED controllers
    BY <1>1, <1>4, <1>5
  <1>6. CASE NewDevice
    <2>1. PICK c \in Controller :
             c.is_blocked /\ controllers' = Append(controllers, c)
      BY <1>6 DEF NewDevice
    <2>2. ~Leave
      BY <1>6 DEF NewDevice, Publish, Leave, KinitAt
    <2>3. i \in 1 .. Len(controllers)
      BY <1>1, <2>1, AppendProperties
    <2>4. controllers'[i] = controllers[i]
      BY <1>1, <2>1, <2>3, AppendProperties
    <2> QED
      BY <1>4, <2>2, <2>3, <2>4
  <1>7. CASE AtaInterrupt
    <2>1. Interrupted /\ ~Leave
      BY <1>7, AtaInterruptAnswers DEF Leave, AtaInterrupt, KinitAt, Dispatching
    <2>2. pc \in Waiting \cup {"idle"}
      BY <1>7, HandlerDevice DEF AtaInterrupt
    <2>3. i \in 1 .. Len(controllers)
      BY <1>1, <2>1 DEF Interrupted, Changed
    <2>4. CASE i = Index(current_controller)
      <3>1. pc \in Waiting => current_controller = call.dev
        BY DEF IInv, KinitOK
      <3> QED
        BY <2>1, <2>2, <2>4, <3>1, WaitGoesOn
    <2>5. CASE i # Index(current_controller)
      BY <1>4, <2>1, <2>3, <2>5 DEF Interrupted, Changed
    <2> QED
      BY <2>4, <2>5
  <1>8. CASE ~Leave /\ TakenOrGiven
    <2>1. i \in 1 .. Len(controllers)
      BY <1>1, <1>8 DEF TakenOrGiven, Changed
    <2>2. controllers'[i].is_blocked = controllers[i].is_blocked
      BY <1>8, <2>1 DEF TakenOrGiven, Changed
    <2> QED
      BY <1>4, <1>8, <2>1, <2>2
  <1> QED
    BY <1>3, <1>5, <1>6, <1>7, <1>8, ArrayStep DEF WaitOver, Interrupted

LEMMA OpsStep == IInv /\ [Next]_vars => OpsOK'
  <1> SUFFICES ASSUME IInv, [Next]_vars PROVE OpsOK'
    OBVIOUS
  <1> USE DEF IInv
  <1>1. CASE Around \/ Interrupt
    BY <1>1, AroundKeeps DEF Interrupt, OpsOK, BackAt, kinitVars
  <1>2. CASE Handling
    <2>1. /\ UNCHANGED << call, ret >>
          /\ pc' = IF pc = "hlt" THEN "woken" ELSE pc
      BY <1>2 DEF Handling, Handled, AtaInterrupt, ata_irq, Resume
    <2> QED
      BY <2>1 DEF OpsOK, BackAt, Waiting
  <1>3. CASE Boot
    BY <1>3 DEF Boot, InitTimer, InitKeyboard, Identify, Register, Publish,
          AfterIde, OpsOK, BackAt, Waiting
  <1>4. CASE Wait
    BY <1>4 DEF Wait, Check, Halt, Wake, Leave, KinitAt, OpsOK, BackAt, KinitOK,
          Waiting, Locals
  <1>5. CASE NextCall \/ EnterInvalid \/ KinitDone
    BY <1>5 DEF NextCall, EnterInvalid, Answered, KinitDone, OpsOK, BackAt, Waiting
  <1>6. CASE AtaRefused \/ AtaReadStart \/ AtaReadData \/ AtaWriteStart
    BY <1>6 DEF AtaRefused, AtaReadStart, AtaStart, AtaReadData, AtaWriteStart,
          Answered, StartWait, OpsOK, BackAt, Waiting
  <1>7. CASE AtaWriteData \/ AtaWriteFlush \/ AtaCommandStart \/ AtaCommandEnd
    BY <1>7 DEF AtaWriteData, AtaWriteFlush, AtaCommandStart, AtaCommandEnd, Enter,
          Answered, StartWait, OpsOK, BackAt, Waiting
  <1>8. CASE AtapiRefused \/ AtapiStart \/ AtapiFailed \/ AtapiEnd
    BY <1>8 DEF AtapiRefused, AtapiStart, AtapiFailed, AtapiEnd, Enter, Answered,
          OpsOK, BackAt, Waiting
  <1>9. CASE AtapiPacket \/ AtapiTransfer \/ AtapiMore
    <2>1. /\ pc \in {"packet", "transfer", "more"} /\ call' = call
          /\ pc' = "check" /\ ret' \in {"transfer", "more"}
      <3>1. CASE AtapiPacket
        BY <3>1 DEF AtapiPacket, KinitAt, StartWait
      <3>2. CASE AtapiTransfer \/ AtapiMore
        BY <3>2 DEF AtapiTransfer, AtapiMore, KinitAt, StartWait
      <3> QED
        BY <1>9, <3>1, <3>2
    <2> QED
      BY <2>1 DEF OpsOK, BackAt, Waiting
  <1> QED
    BY <1>1, <1>2, <1>3, <1>4, <1>5, <1>6, <1>7, <1>8, <1>9
       DEF Next, Kinit, DriverCalls, Around

-----------------------------------------------------------------------------
(* The theorems. *)

LEMMA Initially == Init => IInv
  <1> SUFFICES ASSUME Init PROVE IInv
    OBVIOUS
  <1>1. PICK s \in Scenarios : machine = s.machine /\ todo = s.plan
    BY DEF Init
  <1>2. /\ machine \in [Buses -> [master : DriveTypes, slave : DriveTypes]]
        /\ todo \in Seq([op : Calls, bus : Buses])
    BY <1>1, ScenariosAssumption
  <1>3. KinitOK
    <2>1. call \in [op : Calls \cup {"none", "ide_init"}, dev : Nat]
      BY DEF Init, NoCall, Invalid
    <2>2. 0 \in 0 .. MaxTimeout
      BY AtaBoundsAssumption
    <2>3. pc = "timer" /\ timeout = 0 /\ alt_error = FALSE
      BY DEF Init
    <2> QED
      BY <1>2, <2>1, <2>2, <2>3 DEF KinitOK, Places, Booting, Waiting, InCall
  <1>4. DrivesOK
    BY <1>2, ReadyOK DEF Init, DrivesOK
  <1>5. DriverOK
    BY EmptySeq DEF Init, DriverOK, Invalid
  <1>6. ChainsOK
    BY DEF Init, IrqInit, ChainsOK, Lines, Timer, Line, Buses
  <1>7. Quiet
    <2>1. controllers = << >> /\ 1 .. Len(controllers) = {}
      BY EmptySeq DEF Init
    <2> QED
      BY <2>1 DEF Init, IrqInit, HalInit, Quiet
  <1>8. Service
    BY DEF Init, IrqInit, Service, Settled, Slave, Lines, NoLine
  <1>9. UnblockedOnlyInWait /\ OpsOK
    BY DEF Init, UnblockedOnlyInWait, OpsOK, BackAt, Waiting
  <1> QED
    BY <1>3, <1>4, <1>5, <1>6, <1>7, <1>8, <1>9 DEF IInv

LEMMA Invariance == Spec => []IInv
  <1>1. IInv /\ [Next]_vars => IInv'
    BY KinitStep, OpsStep, DrivesStep, DriverStep, ChainsStep, QuietStep,
       ServiceStep, BlockedStep DEF IInv
  <1> QED
    BY <1>1, Initially, PTL DEF Spec

\* When no handler runs, no line that has a handler is left in service, and the
\* cascade only together with a line behind it (isr_handler, pic_ack,
\* pic_checkSpurious): whatever interrupts, in whatever order, and however often
\* spuriously, no line is held off for good by one that was handled.
THEOREM LinesAreFreed == Spec => []NothingStuck
  <1>1. IInv => NothingStuck
    BY DEF IInv, Service, Settled, NothingStuck
  <1> QED
    BY <1>1, Invariance, PTL

\* ata_irq, which uses controllers[current_controller >> 1] without a test, always
\* finds a device there, and every value of the driver, the drives and the two
\* controllers has its type whenever it runs (ata_irq, ide_init, waitForIRQ).
THEOREM HandlerIsReady == Spec => []HandlerReady
  <1>1. IInv => HandlerFindsDevice
    BY HandlerDevice DEF HandlerFindsDevice
  <1>2. IInv => HalTypeOK /\ IrqTypeOK
    <2> SUFFICES ASSUME IInv PROVE HalTypeOK /\ IrqTypeOK
      OBVIOUS
    <2>1. HalTypeOK
      BY DEF IInv, Quiet, HalTypeOK, ByteSize
    <2>2. ASSUME NEW n \in Lines
          PROVE  Len(irqs[n]) <= 2 /\ Range(irqs[n]) \subseteq Handlers
      <3>1. CASE irqs[n] = << >>
        BY <3>1 DEF Range
      <3>2. CASE irqs[n] = << HandlerOf(n) >>
        BY <3>2 DEF Range, HandlerOf, Handlers
      <3> QED
        BY <3>1, <3>2 DEF IInv, ChainsOK
    <2>3. Wired \cup {Cascade} \subseteq Lines /\ {0, 1, 7, 12, 14, 15} \subseteq Lines
      BY DEF Wired, Cascade, Lines
    <2>4. DOMAIN irqs = Lines
      BY DEF IInv, ChainsOK
    <2>5. /\ asserted \subseteq Lines /\ irr \subseteq Lines
          /\ in_service \subseteq Lines /\ masked \subseteq Lines
          /\ vector \in Lines \cup {NoLine}
      BY <2>3 DEF IInv, Service
    <2> QED
      BY <2>1, <2>2, <2>4, <2>5 DEF IrqTypeOK
  <1>3. IInv => TypeOK
    <2> SUFFICES ASSUME IInv PROVE TypeOK
      OBVIOUS
    <2>1. ASSUME NEW i \in DOMAIN controllers
          PROVE  /\ controllers[i].bus \in Buses
                 /\ controllers[i].type \in {"ata", "atapi"}
                 /\ {controllers[i].in_use, controllers[i].is_blocked,
                     controllers[i].has_errored} \subseteq BOOLEAN
      <3>1. controllers[i] \in Controller
        BY DEF IInv, DriverOK
      <3> QED
        BY <3>1 DEF Controller
    <2> QED
      BY <1>2, <2>1 DEF TypeOK, IInv, DrivesOK, DriverOK, KinitOK
  <1> QED
    BY <1>1, <1>3, Invariance, PTL DEF HandlerReady

\* No answer is kept: a device is unblocked only in the wait for it, so a wait never
\* starts with the flag of an earlier command - whatever interrupts when
\* (is_blocked, ata_irq, waitForIRQ).
THEOREM NoAnswerIsKept == Spec => []UnblockedOnlyInWait
  BY Invariance, PTL DEF IInv

\* A call that ends gives its device back, unless it is an ATAPI command that
\* failed, and takes no other (ata_read, ata_write, ata_sendCommand, atapi_read).
THEOREM DevicesAreReleased == Spec => ReleasesDevice
  <1>1. ASSUME IInv, [Next]_vars, NEW i \in DOMAIN controllers,
               pc \notin {"call", "enter"}, pc' = "call", controllers'[i].in_use
        PROVE  /\ controllers[i].in_use
               /\ \/ Index(call.dev) # i \/ call.op = "ata_command"
                  \/ call.op \in AtapiOps /\ Errs(Bus)
    <2>1. controllers \in Seq(Controller) /\ DOMAIN controllers = 1 .. Len(controllers)
      BY <1>1 DEF IInv, DriverOK
    <2>2. CASE Boot
      <3>1. pc \in Booting
        BY <2>2 DEF Boot, InitTimer, InitKeyboard, Identify, Register, Publish,
              KinitAt, Booting
      <3>2. ~controllers[i].in_use
        BY <1>1, <2>1, <3>1 DEF IInv, Quiet
      <3>3. CASE Publish
        <4>1. PICK c : controllers' = Append(controllers, c)
          BY <3>3 DEF Publish
        <4> QED
          BY <1>1, <2>1, <3>2, <4>1, AppendProperties
      <3>4. CASE ~Publish
        BY <1>1, <2>2, <3>2, <3>4 DEF Boot, InitTimer, InitKeyboard, Identify,
              Register, ataVars
      <3> QED
        BY <3>3, <3>4
    <2>3. CASE AtaReadData \/ AtaWriteFlush \/ AtapiEnd
      <3>1. InUse(FALSE) /\ AtWork
        BY <2>3 DEF AtaReadData, AtaWriteFlush, AtapiEnd, KinitAt, AtWork, InCall,
              Release
      <3>2. Index(call.dev) \in 1 .. Len(controllers)
        BY <1>1, <3>1, AtWorkOnDevice DEF IInv
      <3>3. controllers' = [controllers EXCEPT ![Index(call.dev)].in_use = FALSE]
        BY <3>1 DEF InUse
      <3>4. /\ Changed(controllers, controllers', Index(call.dev))
            /\ ~controllers'[Index(call.dev)].in_use
        BY <2>1, <3>2, <3>3, GivenEffect
      <3> QED
        BY <1>1, <2>1, <3>4 DEF Changed
    <2>4. CASE AtaCommandEnd
      BY <1>1, <2>4 DEF AtaCommandEnd, KinitAt, IInv, OpsOK, BackAt, ataVars
    <2>5. CASE AtapiFailed
      <3>1. Errs(Bus) /\ UNCHANGED controllers /\ pc = "transfer"
        BY <2>5 DEF AtapiFailed, KinitAt, ataVars
      <3>2. call.op \in AtapiOps
        BY <1>1, <3>1 DEF IInv, OpsOK, BackAt
      <3> QED
        BY <1>1, <3>1, <3>2 DEF Errs
    <2>6. CASE Around \/ Interrupt \/ Handling
      <3>1. pc' \in {pc, "woken"}
        BY <2>6, AroundKeeps DEF Interrupt, Handling, Handled, AtaInterrupt, ata_irq,
              Resume, kinitVars
      <3> QED
        BY <1>1, <3>1
    <2>7. CASE Wait
      <3>1. pc' # "call"
        BY <1>1, <2>7 DEF Wait, Check, Halt, Wake, Leave, KinitAt, IInv, KinitOK,
              Waiting
      <3> QED
        BY <1>1, <3>1
    <2>8. CASE NextCall \/ EnterInvalid \/ KinitDone
      BY <1>1, <2>8 DEF NextCall, EnterInvalid, KinitDone, KinitAt
    <2>9. CASE \/ AtaRefused \/ AtaReadStart \/ AtaWriteStart \/ AtaWriteData
               \/ AtaCommandStart
      BY <1>1, <2>9 DEF AtaRefused, AtaReadStart, AtaWriteStart, AtaStart,
            AtaWriteData, AtaCommandStart, StartWait, Enter, KinitAt
    <2>10. CASE \/ AtapiRefused \/ AtapiStart \/ AtapiPacket \/ AtapiTransfer
                \/ AtapiMore
      BY <1>1, <2>10 DEF AtapiRefused, AtapiStart, AtapiPacket, AtapiTransfer,
            AtapiMore, StartWait, Enter, KinitAt
    <2> QED
      BY <1>1, <2>2, <2>3, <2>4, <2>5, <2>6, <2>7, <2>8, <2>9, <2>10
         DEF Next, Kinit, DriverCalls, Around
  <1>2. IInv /\ [Next]_vars =>
          [\A i \in DOMAIN controllers :
             pc \notin {"call", "enter"} /\ pc' = "call" /\ controllers'[i].in_use
               => /\ controllers[i].in_use
                  /\ \/ Index(call.dev) # i \/ call.op = "ata_command"
                     \/ call.op \in AtapiOps /\ Errs(Bus)]_vars
    BY <1>1
  <1> QED
    BY <1>2, Invariance, PTL DEF Spec, ReleasesDevice

=============================================================================
