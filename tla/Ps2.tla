-------------------------------- MODULE Ps2 --------------------------------
(***************************************************************************)
(* The PS/2 controller (kernel/arch/i386/ps2.c) from hal_initController to *)
(* the end of keyboard_init.  kinit runs it with interrupts off; what runs *)
(* beside it is the hardware: each device answers in order but when it     *)
(* likes, through one output buffer, and a read of the buffer when it is   *)
(* empty gives the byte read last.  The controller answers its own         *)
(* commands at once, as the code expects where it does not wait.           *)
(*                                                                         *)
(* Bytes are strings of two hexadecimal digits, registers sets of bits.    *)
(***************************************************************************)
EXTENDS Integers, Sequences, FiniteSets

CONSTANTS
    Machines        \* external: controllers with their devices

DEV1 == 0
DEV2 == 1
DEV_INV == 255
Devices == {DEV1, DEV2}

Bits == 0 .. 7

\* The kinds of device, and none.
Kinds == {"mf2", "at", "mouse", "none"}

\* first and enabled: bit 5 of the configuration when the ports are disabled and
\* when the second is enabled; test: the self test; ports: those that pass theirs.
ASSUME Ps2Assumption ==
    Machines \subseteq [config : SUBSET Bits, first : BOOLEAN, enabled : BOOLEAN,
                        test : STRING, ports : SUBSET Devices,
                        device : [Devices -> Kinds]]

VARIABLES
    machine,
    devType, hasDEV2, usable_channels, config,
    byte0_store, byte0,
    device,             \* the device that detectDevice looks at
    pc,                 \* the next thing ps2_init or keyboard_init does
    ack,                \* inside waitACK: "wait", "again" for a second read
    acked,              \* what waitACK returned was 0
    lines,              \* interrupt lines with keyboard_isr
    out,                \* external: the output buffer [full, byte]
    coming,             \* external: the bytes on their way from each device
    ctl,                \* external: the configuration byte
    scanning,           \* external: devices that report keys
    late                \* a watch dog expired with an answer on its way (history)

driver == <<devType, hasDEV2, usable_channels, config, byte0_store, byte0, device, lines>>
wires == <<out, coming, scanning>>
vars == <<machine, driver, pc, ack, acked, wires, ctl, late>>

Unknown == "unknown"
KeyboardTypes == {"atkbd_trans", "mf2kbd", "mf2kbd_trans"}
MouseTypes == {"mouse", "mouse_scr", "mouse_5b"}

-----------------------------------------------------------------------------
(* The devices.                                                            *)

\* A device acknowledges a command and then answers it.
Answers(kind, byte) ==
    IF kind = "none" THEN <<>>
    ELSE CASE byte = "FF" -> IF kind = "mouse" THEN <<"FA", "AA", "00">> ELSE <<"FA", "AA">>
           [] byte = "F2" /\ kind = "mf2" -> <<"FA", "AB", "83">>
           [] byte = "F2" /\ kind = "mouse" -> <<"FA", "00">>
           [] OTHER -> <<"FA">>

Receive(d, byte) ==
    /\ coming' = [coming EXCEPT ![d] = @ \o Answers(machine.device[d], byte)]
    /\ scanning' = CASE byte \in {"FF", "F4"} -> scanning \cup {d}
                     [] byte = "F5" -> scanning \ {d}
                     [] OTHER -> scanning

Deliver(d) ==
    /\ ~ out.full /\ coming[d] # <<>>
    /\ out' = [full |-> TRUE, byte |-> Head(coming[d])]
    /\ coming' = [coming EXCEPT ![d] = Tail(@)]
    /\ UNCHANGED <<machine, driver, pc, ack, acked, ctl, scanning, late>>

Empty(buffer) == [buffer EXCEPT !.full = FALSE]

-----------------------------------------------------------------------------
(* The parts that everything else calls.                                   *)

At(label) == pc = label /\ ack = "none"

\* A command and the controller's answer to it: "??" is the byte that stays in
\* the buffer.
Answered == out' = [out EXCEPT !.byte = "??"]

\* waitACK polls until there is a byte; after AA it reads once more, be there a
\* byte or not.
waitACK ==
    \/ /\ ack = "wait" /\ out.full
       /\ out' = Empty(out)
       /\ ack' = IF out.byte = "AA" THEN "again" ELSE "none"
       /\ acked' = (out.byte \in {"AA", "FA"})
       /\ UNCHANGED <<machine, driver, pc, coming, scanning, ctl, late>>
    \/ /\ ack = "again"
       /\ out' = Empty(out)
       /\ ack' = "none"
       /\ UNCHANGED <<machine, driver, pc, acked, coming, scanning, ctl, late>>

NoDevice(d) == d = DEV_INV \/ (d = DEV2 /\ hasDEV2 = {})

\* The controller takes the byte, or the watch dog of 1000 polls gives it up.
ps2_sendDataTo(d, byte) ==
    IF NoDevice(d) THEN UNCHANGED <<coming, scanning, ack, late>>
    ELSE \/ Receive(d, byte) /\ ack' = "wait" /\ UNCHANGED late
         \/ late' = TRUE /\ UNCHANGED <<coming, scanning, ack>>

\* while(full) inb(PS2_DATA)
Drain(label, next) ==
    /\ At(label)
    /\ out' = Empty(out)
    /\ pc' = IF out.full THEN label ELSE next
    /\ UNCHANGED <<machine, driver, ack, acked, coming, scanning, ctl, late>>

-----------------------------------------------------------------------------
(* ps2_init.                                                               *)

Init == /\ machine \in Machines
        /\ devType = [d \in Devices |-> Unknown]
        /\ hasDEV2 = {} /\ usable_channels = {} /\ config = {}
        /\ byte0_store = "00" /\ byte0 = "00" /\ device = DEV1
        /\ pc = "clear" /\ ack = "none" /\ acked = FALSE
        /\ lines = {}
        /\ out = [full |-> FALSE, byte |-> "??"]
        /\ coming = [d \in Devices |-> <<>>]
        /\ ctl = machine.config \cup {4} \cup (IF machine.first THEN {5} ELSE {})
        /\ scanning = {}
        /\ late = FALSE

SymDiff(a, b) == (a \ b) \cup (b \ a)

\* The interrupts and the translation are turned off.  hasDEV2 is the whole byte
\* with bit 5 turned over.
ReadConfig ==
    /\ At("config")
    /\ ctl' = ctl \ {0, 1, 6}
    /\ hasDEV2' = SymDiff(ctl, {5})
    /\ Answered
    /\ pc' = "selftest"
    /\ UNCHANGED <<machine, devType, usable_channels, config, byte0_store, byte0, device,
                   lines, ack, acked, coming, scanning, late>>

SelfTest ==
    /\ At("selftest")
    /\ Answered
    /\ pc' = IF machine.test = "55" THEN "second" ELSE "keyboard"
    /\ UNCHANGED <<machine, driver, ack, acked, coming, scanning, ctl, late>>

\* Mutated form: the double check is as its comment says.
SecondPortKept(bit5) == ~ bit5

\* With the port enabled, a byte with bit 5 clear counts as no port.
SecondPort(bit5) == bit5

\* The double check, then the tests of the ports.  hasDEV2 >> 4 makes its bit 5
\* the bit of the second channel.
TestPorts ==
    /\ At("second")
    /\ LET second == IF hasDEV2 # {} /\ SecondPort(machine.enabled) THEN hasDEV2 ELSE {}
           usable == ({0} \cup {b - 4 : b \in {c \in second : c >= 4}})
                     \ {d \in Devices : d \notin machine.ports /\ (d = DEV1 \/ second # {})}
       IN  /\ hasDEV2' = IF second # {} /\ DEV2 \in machine.ports THEN {0} ELSE {}
           /\ usable_channels' = usable
           /\ pc' = IF usable = {} THEN "keyboard" ELSE "reset1"
           /\ config' = ctl
    /\ Answered
    /\ UNCHANGED <<machine, devType, byte0_store, byte0, device, lines, ack, acked,
                   coming, scanning, ctl, late>>

\* Enable and reset a port; AE and A8 clear the bit that disables its clock.
Reset(d, label, next) ==
    /\ At(label)
    /\ pc' = next
    /\ IF d \in usable_channels
       THEN /\ Receive(d, "FF") /\ ack' = "wait"
            /\ ctl' = ctl \ {d + 4}
       ELSE UNCHANGED <<coming, scanning, ack, ctl>>
    /\ UNCHANGED <<machine, driver, acked, out, late>>

\* What waitACK returned after the reset.
ResetDone(d, label, next) ==
    /\ At(label)
    /\ LET usable == IF acked THEN usable_channels ELSE usable_channels \ {d} IN
       IF d \in usable_channels
       THEN /\ usable_channels' = usable
            /\ config' = IF acked THEN config \cup {d} ELSE config
            /\ pc' = IF d = DEV2 /\ usable = {} THEN "keyboard" ELSE next
       ELSE /\ pc' = IF d = DEV2 /\ usable_channels = {} THEN "keyboard" ELSE next
            /\ UNCHANGED <<usable_channels, config>>
    /\ UNCHANGED <<machine, devType, hasDEV2, byte0_store, byte0, device, lines, ack,
                   acked, wires, ctl, late>>

-----------------------------------------------------------------------------
(* detectDevice.                                                           *)

Command(label, d, byte, next) ==
    /\ At(label)
    /\ ps2_sendDataTo(d, byte)
    /\ pc' = next
    /\ UNCHANGED <<machine, driver, acked, out, ctl>>

\* A byte within the watch dog, or what is in the buffer when it expires.
ReadByte(label, next) ==
    /\ At(label)
    /\ late' = (late \/ (~ out.full /\ \E d \in Devices : coming[d] # <<>>))
    /\ out' = Empty(out)
    /\ pc' = next
    /\ UNCHANGED <<machine, ack, acked, coming, scanning, ctl>>

Byte0Store ==
    /\ ReadByte("byte0_store", "byte0")
    /\ byte0_store' = out.byte
    /\ UNCHANGED <<devType, hasDEV2, usable_channels, config, byte0, device, lines>>

\* Mutated form: the first byte is taken for the acknowledgement.
FirstByteLast(store, byte) == byte

\* The first byte counts unless it was the acknowledgement.
FirstByte(store, byte) == IF store # byte /\ store # "FA" THEN store ELSE byte

Byte0 ==
    /\ ReadByte("byte0", "byte1")
    /\ byte0' = FirstByte(byte0_store, out.byte)
    /\ UNCHANGED <<devType, hasDEV2, usable_channels, config, byte0_store, device, lines>>

TypeOf(b0, b1) ==
    CASE b0 = "00" /\ b1 = "00" -> "mouse"
      [] b0 = "03" /\ b1 = "03" -> "mouse_scr"
      [] b0 = "04" /\ b1 = "04" -> "mouse_5b"
      [] b0 = "AB" /\ b1 \in {"C1", "41"} -> "mf2kbd_trans"
      [] b0 = "AB" /\ b1 = "83" -> "mf2kbd"
      [] b0 = "FA" /\ b1 = "FA" -> "atkbd_trans"
      [] OTHER -> Unknown

Byte1 ==
    /\ ReadByte("byte1", "detected")
    /\ devType' = [devType EXCEPT ![device] = TypeOf(byte0, out.byte)]
    /\ UNCHANGED <<hasDEV2, usable_channels, config, byte0_store, byte0, device, lines>>

NextDevice ==
    /\ At("next")
    /\ IF device = DEV1 /\ hasDEV2 # {} THEN device' = DEV2 /\ pc' = "F5"
       ELSE device' = device /\ pc' = "finish"
    /\ UNCHANGED <<machine, devType, hasDEV2, usable_channels, config, byte0_store, byte0,
                   lines, ack, acked, wires, ctl, late>>

\* The bit that is cleared: the interrupt of a device that was not found, the
\* disabled clock of one that was.
FinishBit(found, d) == IF found THEN {d + 4} ELSE {d}

Finish ==
    /\ At("finish")
    /\ LET bits == UNION {FinishBit(devType[d] # Unknown, d) : d \in Devices} IN
       /\ config' = config \ bits
       /\ ctl' = config \ bits
    /\ Answered
    /\ pc' = "clearBuffer"
    /\ UNCHANGED <<machine, devType, hasDEV2, usable_channels, byte0_store, byte0, device,
                   lines, ack, acked, coming, scanning, late>>

-----------------------------------------------------------------------------
(* keyboard_init.                                                          *)

getKeyboardDev == IF devType[DEV2] \in KeyboardTypes THEN DEV2
                  ELSE IF devType[DEV1] # Unknown THEN DEV1 ELSE DEV_INV

\* ps2_handleDevice: a handler of the second device is one of the first as well.
ps2_handleDevice ==
    /\ At("keyboard")
    /\ LET d == getKeyboardDev IN
       lines' = IF d = DEV2
                THEN IF hasDEV2 = {} THEN lines ELSE lines \cup {1, 12}
                ELSE lines \cup {1}
    /\ pc' = "F0"
    /\ UNCHANGED <<machine, devType, hasDEV2, usable_channels, config, byte0_store, byte0,
                   device, ack, acked, wires, ctl, late>>

Next ==
    \/ \E d \in Devices : Deliver(d)
    \/ waitACK
    \/ Drain("clear", "config") \/ ReadConfig \/ SelfTest \/ TestPorts
    \/ Reset(DEV1, "reset1", "reset1done") \/ ResetDone(DEV1, "reset1done", "reset2")
    \/ Reset(DEV2, "reset2", "reset2done") \/ ResetDone(DEV2, "reset2done", "F5")
    \/ Command("F5", device, "F5", "F2") \/ Command("F2", device, "F2", "byte0_store")
    \/ Byte0Store \/ Byte0 \/ Byte1
    \/ Drain("detected", "next") \/ NextDevice
    \/ Finish \/ Drain("clearBuffer", "keyboard")
    \/ ps2_handleDevice
    \/ Command("F0", getKeyboardDev, "F0", "02")
    \/ Command("02", getKeyboardDev, "02", "F4")
    \/ Command("F4", getKeyboardDev, "F4", "done")

Spec == Init /\ [][Next]_vars

\* The processor goes on, and a device sends what it has to send.
FairSpec == Spec /\ WF_vars(Next)

-----------------------------------------------------------------------------
(* Properties.                                                             *)

\* Type invariant.
TypeOK ==
    /\ machine \in Machines
    /\ devType \in [Devices -> KeyboardTypes \cup MouseTypes \cup {Unknown}]
    /\ hasDEV2 \subseteq Bits /\ usable_channels \subseteq 0 .. 3
    /\ config \subseteq Bits /\ ctl \subseteq Bits
    /\ device \in Devices /\ lines \subseteq {1, 12} /\ scanning \subseteq Devices
    /\ ack \in {"none", "wait", "again"}
    /\ \A d \in Devices : Len(coming[d]) <= 7
    /\ acked \in BOOLEAN /\ late \in BOOLEAN /\ out.full \in BOOLEAN

Done == At("done")

\* One keyboard, on the first port of a controller that passes its tests.
OneKeyboard ==
    /\ machine.test = "55" /\ DEV1 \in machine.ports /\ hasDEV2 = {}
    /\ machine.device[DEV1] \in {"mf2", "at"}

\* However late the answers come - the reset of a keyboard sends two bytes and one
\* is waited for, so all that follows is out of step - the keyboard is identified,
\* told to scan again after detectDevice silenced it, and its interrupt and
\* clock are on, unless a watch dog gave an answer up.
KeyboardReady ==
    Done /\ OneKeyboard /\ ~ late =>
        /\ devType[DEV1] \in KeyboardTypes
        /\ DEV1 \in scanning
        /\ 0 \in ctl /\ 4 \notin ctl
        /\ 1 \in lines

\* Then no answer is left that keyboard_isr would take for a key.
NothingLeft ==
    Done /\ OneKeyboard /\ ~ late =>
        ~ out.full /\ \A d \in Devices : coming[d] = <<>>

\* Both: the keyboard works from the first key on.
KeyboardUsable == TypeOK /\ KeyboardReady /\ NothingLeft

\* Initialisation ends: each wait without a watch dog has an answer to come.
InitEnds == <>Done

-----------------------------------------------------------------------------
(* What the code does not do; README, "More configurations".               *)

\* The keyboard is found although an answer was given up.
KeyboardReadyLate ==
    Done /\ OneKeyboard => devType[DEV1] \in KeyboardTypes

\* A device on the second port of a controller that has two is looked at ("Test
\* for 2nd PS/2 port", ps2.c:111).
SecondPortFound ==
    Done /\ machine.first /\ ~ machine.enabled /\ machine.test = "55"
         /\ machine.ports = Devices => hasDEV2 # {}

\* The device keyboard_init talks to is a keyboard.
KeyboardIsKeyboard ==
    Done /\ getKeyboardDev # DEV_INV => machine.device[getKeyboardDev] \in {"mf2", "at"}
=============================================================================
