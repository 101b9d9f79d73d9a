-------------------------------- MODULE Ata --------------------------------
(***************************************************************************)
(* The disk driver (kernel/kernel/ata/ata.c) as kinit uses it: detection   *)
(* of the drives, the commands, the wait for an interrupt and the handler  *)
(* ata_irq, over the interrupt layer of Irq and over drives that answer    *)
(* when they like.                                                         *)
(*                                                                         *)
(* kinit is the only caller and no process exists yet (kernel.c:110-129),  *)
(* so the concurrency is between kinit, the interrupts and the drives.     *)
(***************************************************************************)
EXTENDS Irq

CONSTANTS
    Scenarios,     \* the drives of a machine, [Buses -> [master, slave]], and the
                   \* calls its kernel makes
    KeyboardPorts, \* the PS/2 ports, 1 or 2, the keyboard may be found at
    MaxTimeout,    \* bound: 256 in waitForIRQ
    MaxBlocks      \* bound: data blocks an ATAPI drive sends for a sector

Buses == {0, 1}          \* 0x1F0 and 0x170
Line(bus) == 14 + bus
DriveTypes == {"none", "ata", "atapi", "other"}
Calls == {"ata_read", "ata_write", "ata_command", "atapi_read", "atapi_write"}
Invalid == 65535         \* ATA_DEVICE_INVALID

ASSUME ScenariosAssumption ==
    \A s \in Scenarios :
        /\ s.machine \in [Buses -> [master : DriveTypes, slave : DriveTypes]]
        /\ s.plan \in Seq([op : Calls, bus : Buses])
ASSUME AtaBoundsAssumption ==
    /\ KeyboardPorts \subseteq {1, 2}
    /\ MaxTimeout \in Nat \ {0} /\ MaxBlocks \in Nat \ {0}

VARIABLES
    \* the drives: what each master is doing
    machine, drive,
    \* ata.c
    controllers,          \* the array: bus, type, in_use, is_blocked, has_errored
    controller_index,
    current_controller,
    ids,                  \* ide_dev0, ide_dev1 of kinit
    \* kinit: where it is, the calls left, the call it is in, the locals of
    \* waitForIRQ, where waitForIRQ returns to, and what the last call returned
    pc, todo, call, timeout, alt_error, ret, answer

driveVars == <<machine, drive>>
ataVars == <<controllers, controller_index, current_controller, ids>>
kinitVars == <<pc, todo, call, timeout, alt_error, ret, answer>>
vars == <<halVars, irqVars, driveVars, ataVars, kinitVars>>

\* A drive: what it does, for which command, whether ERR is set, and how many
\* blocks of the sector it has sent.
Ready == [phase |-> "ready", cmd |-> "none", err |-> FALSE, blocks |-> 0]
DriveStates == [phase : {"ready", "busy", "packet", "data"},
                cmd : {"none", "read", "write", "written", "flush", "packet", "payload"},
                err : BOOLEAN, blocks : 0 .. MaxBlocks]

NoCall == [op |-> "none", dev |-> Invalid]
NoAnswer == [op |-> "none", ok |-> FALSE, data |-> FALSE]

Waiting == {"check", "halting", "hlt", "woken", "leave"}

Index(dev) == dev \div 2 + 1
Device == controllers[Index(call.dev)]
Bus == Device.bus

Init == /\ HalInit /\ IrqInit
        /\ \E s \in Scenarios : machine = s.machine /\ todo = s.plan
        /\ drive = [b \in Buses |-> Ready]
        /\ controllers = <<>> /\ controller_index = 0 /\ current_controller = 0
        /\ ids = [b \in Buses |-> Invalid]
        /\ pc = "timer" /\ call = NoCall /\ timeout = 0 /\ alt_error = FALSE
        /\ ret = "call" /\ answer = NoAnswer

------------------------------------------------------------------------------
(* The drives.  A drive takes a command when it is ready; it raises its line  *)
(* when it has data to give, when it is done, and when it gives up.           *)

Commanded(bus, cmd) ==
    IF machine[bus].master # "none" /\ drive[bus].phase = "ready"
    THEN [drive EXCEPT ![bus] = [Ready EXCEPT !.phase = "busy", !.cmd = cmd]]
    ELSE drive

Understands(type, cmd) ==
    \/ type = "ata" /\ cmd \in {"read", "write", "written", "flush"}
    \/ type = "atapi" /\ cmd \in {"packet", "payload"}

\* What the drive of a bus may become when it has worked long enough, and
\* whether it raises its line for it.
Outcomes(bus) ==
    LET d == drive[bus]
        To(phase, err) == [d EXCEPT !.phase = phase, !.err = err,
                               !.cmd = IF phase = "ready" THEN "none" ELSE @]
    IN  {<<To("ready", TRUE), TRUE>>}
        \cup IF ~Understands(machine[bus].master, d.cmd) THEN {}
             ELSE CASE d.cmd = "read" -> {<<To("data", FALSE), TRUE>>}
                    [] d.cmd = "write" -> {<<To("data", FALSE), FALSE>>}
                    [] d.cmd = "packet" -> {<<To("packet", FALSE), FALSE>>}
                    [] d.cmd \in {"written", "flush"} -> {<<To("ready", FALSE), TRUE>>}
                    [] d.cmd = "payload" ->
                         (IF d.blocks < MaxBlocks
                          THEN {<<[To("data", FALSE) EXCEPT !.blocks = @ + 1], TRUE>>}
                          ELSE {})
                         \cup (IF d.blocks > 0 THEN {<<To("ready", FALSE), TRUE>>} ELSE {})

DriveAnswers(bus) ==
    /\ drive[bus].phase = "busy"
    /\ \E out \in Outcomes(bus) :
         /\ drive' = [drive EXCEPT ![bus] = out[1]]
         /\ IF out[2] THEN Raised(Line(bus)) ELSE UNCHANGED <<asserted, irr>>
    /\ UNCHANGED <<halVars, in_service, masked, irqs, vector, machine, ataVars, kinitVars>>

\* The drive has given the block it had.
Drained(bus) ==
    [drive EXCEPT ![bus] = IF @.cmd = "read" THEN Ready ELSE [@ EXCEPT !.phase = "busy"]]

Errs(bus) == drive[bus].phase = "ready" /\ drive[bus].err
HasData(bus) == drive[bus].phase = "data"

------------------------------------------------------------------------------
(* The interrupts. *)

Tick == /\ Raised(Timer)
        /\ UNCHANGED <<halVars, in_service, masked, irqs, vector, driveVars, ataVars, kinitVars>>

\* A keyboard at the second port uses line 12.
KeyRaised == /\ Raised(IF irqs[12] # <<>> THEN 12 ELSE 1)
             /\ UNCHANGED <<halVars, in_service, masked, irqs, vector, driveVars, ataVars,
                            kinitVars>>

Interrupt == /\ \E n \in Lines : Accept(n)
             /\ UNCHANGED <<driveVars, ataVars, kinitVars>>

\* An interrupt ends a hlt.
Resume == /\ pc' = IF pc = "hlt" THEN "woken" ELSE pc
          /\ UNCHANGED <<todo, call, timeout, alt_error, ret, answer>>

\* timer_isr finds no process, keyboard_isr reads the data port.
OtherReads == [nobody |-> {}, timer_isr |-> {}, keyboard_isr |-> {1, 12}]

Handled == /\ \/ DismissSpurious
              \/ \E h \in DOMAIN OtherReads : DispatchTo(h, OtherReads[h])
           /\ Resume /\ UNCHANGED <<driveVars, ataVars>>

\* ata_irq takes whatever interrupted for an answer of the drive selected last.
ata_irq == LET i == Index(current_controller)
               bus == controllers[i].bus
           IN  /\ DispatchTo("ata_irq", {Line(bus)})
               /\ controllers' = [controllers EXCEPT ![i].has_errored = Errs(bus),
                                                     ![i].is_blocked = FALSE]
               /\ Resume
               /\ UNCHANGED <<controller_index, current_controller, ids, driveVars>>

AtaInterrupt == Dispatching /\ Answerer(vector) = "ata_irq" /\ ata_irq

------------------------------------------------------------------------------
(* kinit: the handlers and the drives. *)

KinitAt(place) == pc = place /\ vector = NoLine
Controllers == <<asserted, irr, in_service, masked, vector>>
Locals == <<timeout, alt_error, ret, answer>>

InitTimer == /\ KinitAt("timer")
             /\ irqs' = AddHandler(irqs, Timer, "timer_isr") /\ CloseSection
             /\ pc' = "keyboard"
             /\ UNCHANGED <<Controllers, driveVars, ataVars, todo, call, Locals>>

\* ps2_handleDevice: a keyboard at the second port gets both lines.
InitKeyboard == /\ KinitAt("keyboard")
                /\ \E port \in KeyboardPorts :
                     irqs' = LET first == AddHandler(irqs, 1, "keyboard_isr")
                             IN IF port = 2 THEN AddHandler(first, 12, "keyboard_isr") ELSE first
                /\ CloseSection
                /\ pc' = "identify" /\ call' = [op |-> "ide_init", dev |-> 0]
                /\ UNCHANGED <<Controllers, driveVars, ataVars, todo, Locals>>

\* What initDevice finds: the type of the slave if it has one.
Reported(type) == IF type \in {"ata", "atapi"} THEN type ELSE "none"
Found(bus) == LET slave == Reported(machine[bus].slave)
              IN IF slave # "none" THEN slave ELSE Reported(machine[bus].master)
Present(bus) == machine[bus] # [master |-> "none", slave |-> "none"]

\* The next call of kinit after ide_init for this bus.
AfterIde(bus) == IF bus = 0 THEN /\ pc' = "identify"
                                 /\ call' = [op |-> "ide_init", dev |-> 1]
                 ELSE pc' = "call" /\ call' = NoCall

\* initDevice for the slave and the master.  The drives request an interrupt for
\* the identification; the polling reads the status that withdraws it.
Identify == LET bus == call.dev IN
            /\ KinitAt("identify")
            /\ irr' = IF Present(bus) THEN irr \cup {Line(bus)} ELSE irr
            /\ CloseSection
            /\ IF Found(bus) = "none" THEN AfterIde(bus)
               ELSE pc' = "register" /\ UNCHANGED call
            /\ UNCHANGED <<asserted, in_service, masked, vector, irqs, driveVars, ataVars,
                           todo, Locals>>

Register == /\ KinitAt("register")
            /\ irqs' = AddHandler(irqs, Line(call.dev), "ata_irq") /\ CloseSection
            /\ pc' = "publish"
            /\ UNCHANGED <<Controllers, driveVars, ataVars, todo, call, Locals>>

\* has_errored is whatever kmalloc's block contains.
Publish == LET bus == call.dev IN
           /\ KinitAt("publish")
           /\ \E garbage \in BOOLEAN :
                controllers' = Append(controllers,
                    [bus |-> bus, type |-> Found(bus), in_use |-> FALSE,
                     is_blocked |-> TRUE, has_errored |-> garbage])
           /\ ids' = [ids EXCEPT ![bus] = controller_index]
           /\ controller_index' = controller_index + 2
           /\ CloseSection
           /\ AfterIde(bus)
           /\ UNCHANGED <<irqs, Controllers, driveVars, current_controller, todo, Locals>>

------------------------------------------------------------------------------
(* waitForIRQ. *)

StartWait(next) == /\ EnableInterrupts
                   /\ pc' = "check" /\ ret' = next
                   /\ timeout' = 0 /\ alt_error' = FALSE

MustWait(device) == device.is_blocked /\ timeout < MaxTimeout /\ ~alt_error

Check == /\ KinitAt("check")
         /\ IF MustWait(Device)
            THEN pc' = "halting" /\ timeout' = timeout + 1
            ELSE pc' = "leave" /\ UNCHANGED timeout
         /\ UNCHANGED <<halVars, irqVars, driveVars, ataVars, todo, call, alt_error, ret,
                        answer>>

\* An interrupt taken between the test and the hlt does not end the hlt.
Halt == /\ KinitAt("halting")
        /\ pc' = "hlt"
        /\ UNCHANGED <<halVars, irqVars, driveVars, ataVars, todo, call, Locals>>

Wake == /\ KinitAt("woken")
        /\ alt_error' = Errs(Bus)
        /\ pc' = "check"
        /\ UNCHANGED <<halVars, irqVars, driveVars, ataVars, todo, call, timeout, ret, answer>>

\* Mutated form: the device is left unblocked.
ReblockNot(cs) == cs

Reblock(cs) == [cs EXCEPT ![Index(call.dev)].is_blocked = TRUE]

Leave == /\ KinitAt("leave")
         /\ RestoreInterrupts
         /\ controllers' = Reblock(controllers)
         /\ pc' = ret
         /\ UNCHANGED <<irqVars, driveVars, controller_index, current_controller, ids, todo,
                        call, Locals>>

------------------------------------------------------------------------------
(* The calls. *)

Answered(ok, data) == /\ pc' = "call"
                      /\ answer' = [op |-> call.op, ok |-> ok, data |-> data]
                      /\ UNCHANGED <<todo, call, timeout, alt_error, ret>>

NextCall == /\ KinitAt("call") /\ todo # <<>>
            /\ call' = [op |-> Head(todo).op, dev |-> ids[Head(todo).bus]]
            /\ todo' = Tail(todo)
            /\ pc' = "enter"
            /\ UNCHANGED <<halVars, irqVars, driveVars, ataVars, Locals>>

\* A call without a device.  The reads and writes look at the controller before
\* they look whether there is one: behind the array lies anything, and an ATAPI
\* call that finds the right type there ends as if it had succeeded.
EnterInvalid ==
    /\ KinitAt("enter") /\ call.dev = Invalid
    /\ \E ok \in IF call.op \in {"atapi_read", "atapi_write"} /\ controllers # <<>>
                 THEN BOOLEAN ELSE {FALSE} : Answered(ok, FALSE)
    /\ UNCHANGED <<halVars, irqVars, driveVars, ataVars>>

\* switchDevice: the status it reads withdraws a request.
switchDevice == current_controller' = call.dev
StatusRead(bus) == asserted' = asserted \ {Line(bus)}
                   /\ UNCHANGED <<irr, in_service, masked, irqs, vector>>

InUse(flag) == controllers' = [controllers EXCEPT ![Index(call.dev)].in_use = flag]

Enter(ops) == KinitAt("enter") /\ call.op \in ops /\ call.dev # Invalid
KeepIds == UNCHANGED <<machine, controller_index, ids>>

AtaRefused == /\ Enter({"ata_read", "ata_write"})
              /\ Device.in_use \/ Device.type # "ata"
              /\ Answered(FALSE, FALSE)
              /\ UNCHANGED <<halVars, irqVars, driveVars, ataVars>>

AtaStart(op, cmd) == /\ Enter({op})
                     /\ ~Device.in_use /\ Device.type = "ata"
                     /\ switchDevice /\ StatusRead(Bus)
                     /\ InUse(TRUE)
                     /\ drive' = Commanded(Bus, cmd)
                     /\ KeepIds /\ UNCHANGED <<todo, call, answer>>

AtaReadStart == AtaStart("ata_read", "read") /\ StartWait("data")

\* Mutated form: a device that was read stays in use.
ReleaseNot == UNCHANGED controllers

Release == InUse(FALSE)

\* The data is read as long as there is some; a drive that waits for data to write
\* never has less, and the step is never taken.
AtaReadData == /\ KinitAt("data")
               /\ HasData(Bus) => drive[Bus].cmd = "read"
               /\ drive' = IF HasData(Bus) THEN Drained(Bus) ELSE drive
               /\ Release
               /\ Answered(~Device.has_errored, HasData(Bus))
               /\ KeepIds /\ UNCHANGED <<halVars, irqVars, current_controller>>

AtaWriteStart == /\ AtaStart("ata_write", "write")
                 /\ pc' = "poll" /\ UNCHANGED <<halVars, timeout, alt_error, ret>>

\* The data is written as long as the drive takes it - not at all if it is not yet
\* ready to.
AtaWriteData ==
    /\ KinitAt("poll")
    /\ HasData(Bus) => drive[Bus].cmd = "write"
    /\ StatusRead(Bus)
    /\ drive' = IF HasData(Bus)
                THEN [drive EXCEPT ![Bus].phase = "busy", ![Bus].cmd = "written"] ELSE drive
    /\ pc' = "flush"
    /\ UNCHANGED <<halVars, machine, ataVars, todo, call, Locals>>

AtaWriteFlush == /\ KinitAt("flush")
                 /\ drive' = Commanded(Bus, "flush")
                 /\ Release
                 /\ Answered(~Device.has_errored, FALSE)
                 /\ KeepIds /\ UNCHANGED <<halVars, irqVars, current_controller>>

\* ata_sendCommand with a command that has no data; whoever uses the device.
AtaCommandStart == /\ Enter({"ata_command"})
                   /\ switchDevice /\ StatusRead(Bus)
                   /\ drive' = Commanded(Bus, "flush")
                   /\ StartWait("status")
                   /\ UNCHANGED <<machine, controllers, controller_index, ids, todo, call,
                                  answer>>

AtaCommandEnd == /\ KinitAt("status")
                 /\ Answered(Device.has_errored, FALSE)
                 /\ UNCHANGED <<halVars, irqVars, driveVars, ataVars>>

AtapiOps == {"atapi_read", "atapi_write"}

\* A device of another type is refused; one in use is selected first, and the
\* caller is not told.
AtapiRefused == /\ Enter(AtapiOps)
                /\ \/ /\ Device.type # "atapi"
                      /\ Answered(FALSE, FALSE)
                      /\ UNCHANGED <<irqVars, current_controller>>
                   \/ /\ Device.type = "atapi" /\ Device.in_use
                      /\ switchDevice /\ StatusRead(Bus)
                      /\ Answered(TRUE, FALSE)
                /\ KeepIds /\ UNCHANGED <<halVars, drive, controllers>>

AtapiStart == /\ Enter(AtapiOps)
              /\ Device.type = "atapi" /\ ~Device.in_use
              /\ switchDevice /\ StatusRead(Bus)
              /\ InUse(TRUE)
              /\ drive' = Commanded(Bus, "packet")
              /\ pc' = "packet"
              /\ KeepIds /\ UNCHANGED <<halVars, todo, call, Locals>>

\* The command goes to the drive when it is no longer busy.
AtapiPacket == /\ KinitAt("packet")
               /\ drive[Bus].phase # "busy"
               /\ drive' = IF drive[Bus].phase = "packet"
                           THEN [drive EXCEPT ![Bus].phase = "busy", ![Bus].cmd = "payload"]
                           ELSE drive
               /\ StartWait("transfer")
               /\ UNCHANGED <<irqVars, machine, ataVars, todo, call, answer>>

\* The data is read whether the command reads or writes (atapi_getCommandType); a
\* drive that is to be written goes on waiting.  A failed command is not told and
\* does not release the device.
AtapiFailed == /\ KinitAt("transfer") /\ Errs(Bus)
               /\ Answered(TRUE, FALSE)
               /\ UNCHANGED <<halVars, irqVars, driveVars, ataVars>>

AtapiTransfer == /\ KinitAt("transfer") /\ ~Errs(Bus)
                 /\ drive' = IF HasData(Bus) /\ call.op = "atapi_read" THEN Drained(Bus)
                             ELSE drive
                 /\ StartWait("more")
                 /\ UNCHANGED <<irqVars, machine, ataVars, todo, call, answer>>

AtapiMore == /\ KinitAt("more") /\ HasData(Bus)
             /\ StartWait("transfer")
             /\ UNCHANGED <<irqVars, driveVars, ataVars, todo, call, answer>>

AtapiEnd == /\ KinitAt("more") /\ ~HasData(Bus)
            /\ Release
            /\ Answered(TRUE, FALSE)
            /\ UNCHANGED <<halVars, irqVars, driveVars, controller_index, current_controller,
                           ids>>

\* kinit is done with its drives; in the end it unmasks the timer and lets
\* interrupts in.
KinitDone == /\ KinitAt("call") /\ todo = <<>>
             /\ pic_unmaskIRQ(Timer) /\ EnableInterrupts
             /\ pc' = "idle"
             /\ UNCHANGED <<asserted, irr, in_service, irqs, vector, driveVars, ataVars, todo,
                            call, Locals>>

Boot == InitTimer \/ InitKeyboard \/ Identify \/ Register \/ Publish
Wait == Check \/ Halt \/ Wake \/ Leave
DriverCalls == \/ AtaRefused \/ AtaReadStart \/ AtaReadData
               \/ AtaWriteStart \/ AtaWriteData \/ AtaWriteFlush
               \/ AtaCommandStart \/ AtaCommandEnd
               \/ AtapiRefused \/ AtapiStart \/ AtapiPacket
               \/ AtapiFailed \/ AtapiTransfer \/ AtapiMore \/ AtapiEnd
Kinit == Boot \/ Wait \/ NextCall \/ EnterInvalid \/ DriverCalls \/ KinitDone
Handling == Handled \/ AtaInterrupt
Drives == \E bus \in Buses : DriveAnswers(bus)

Next == Kinit \/ Interrupt \/ Handling \/ Tick \/ KeyRaised \/ Drives

Spec == Init /\ [][Next]_vars

\* The timer ticks and a drive that works on a command answers; the processor takes
\* an interrupt, its handler returns, and kinit gets on between the interrupts.
FairSpec == /\ Spec
            /\ WF_vars(Tick) /\ WF_vars(Interrupt \/ Handling) /\ SF_vars(Kinit)
            /\ \A bus \in Buses : WF_vars(DriveAnswers(bus))

------------------------------------------------------------------------------
(* Properties. *)

TypeOK == /\ HalTypeOK /\ IrqTypeOK
          /\ drive \in [Buses -> DriveStates]
          /\ controller_index = 2 * Len(controllers)
          /\ \A i \in DOMAIN controllers :
               /\ controllers[i].bus \in Buses /\ controllers[i].type \in {"ata", "atapi"}
               /\ {controllers[i].in_use, controllers[i].is_blocked,
                   controllers[i].has_errored} \subseteq BOOLEAN
          /\ timeout \in 0 .. MaxTimeout /\ alt_error \in BOOLEAN

\* When no handler runs, only lines nobody handles are left in service, and the
\* cascade only for one of them: a line that is not acknowledged holds off every
\* line below it for ever (isr_handler, pic_ack, pic_checkSpurious).
NothingStuck ==
    vector = NoLine =>
        /\ \A n \in in_service \ {Cascade} : irqs[n] = <<>>
        /\ Cascade \in in_service => Slave(in_service) # {}

\* Nothing at all is left in service.  A drive that identifies itself and is not
\* one the driver knows leaves a request for which ide_init registers no handler.
LinesOpen == vector = NoLine => in_service = {}

\* ata_irq uses controllers[current_controller >> 1] without a test: when it is
\* about to run there is such a controller, although ide_init registers the handler
\* before it fills the array.
HandlerFindsDevice ==
    Dispatching /\ Answerer(vector) = "ata_irq"
        => Index(current_controller) \in DOMAIN controllers

\* With it, the counters of the waits stay in their bounds: an interrupt that finds
\* the driver anywhere finds it in a state it can work on.
HandlerReady == TypeOK /\ HandlerFindsDevice

\* No answer is kept: a device is unblocked only in the wait for it, so that a wait
\* never starts with the flag of an earlier command (is_blocked, "Set for next
\* IRQ") - until kinit leaves the interrupts on for good.
UnblockedOnlyInWait ==
    \A i \in DOMAIN controllers :
        ~controllers[i].is_blocked =>
            pc = "idle" \/ (pc \in Waiting /\ Index(call.dev) = i)

\* A call that ends leaves no device in use that it took - unless it is an ATAPI
\* command that failed - and none that was not in use before.
ReleasesDevice ==
    [][\A i \in DOMAIN controllers :
         pc \notin {"call", "enter"} /\ pc' = "call" /\ controllers'[i].in_use
             => /\ controllers[i].in_use
                /\ \/ Index(call.dev) # i \/ call.op = "ata_command"
                   \/ call.op \in AtapiOps /\ Errs(Bus)]_vars

\* Whatever the drives do or fail to do, and even with a line stuck, kinit gets
\* through its calls: the timer is never held off, and a wait that is not answered
\* times out.
KinitFinishes == <>(pc = "idle")

\* A read that succeeds has read something.  It does not hold: waitForIRQ is ended by
\* the request the identification left behind, or by the timeout, and has_errored is
\* that of an earlier answer.
ReadsData == pc = "call" /\ answer.op = "ata_read" /\ answer.ok => answer.data

\* No device is left in use when no call is made.  It does not hold: a failed ATAPI
\* command returns without giving the device back (ata.c:311).
NoneInUse == pc = "call" => \A i \in DOMAIN controllers : ~controllers[i].in_use
=============================================================================
