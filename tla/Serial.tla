------------------------------- MODULE Serial -------------------------------
(***************************************************************************)
(* The serial port COM1 (kernel/arch/i386/serial.c) and its UART: a queue  *)
(* of Fifo bytes that the line sends one by one.  A byte written to a full *)
(* queue is lost.                                                          *)
(***************************************************************************)
EXTENDS Integers, Sequences, SequencesExt

CONSTANT Fifo           \* bytes of the transmit queue (16)

ASSUME SerialAssumption == Fifo \in Nat \ {0, 1}

Ready == [op |-> "ready"]           \* the loop on serial_writeReady
OutByte(b) == [op |-> "byte", byte |-> b]

Bytes(c) == IF c = "\n" THEN <<"\r", "\n">> ELSE <<c>>
BytesOf(s) == FlattenSeq([i \in DOMAIN s |-> Bytes(s[i])])
Out(s) == LET b == BytesOf(s) IN [i \in DOMAIN b |-> OutByte(b[i])]

serial_writechar(c) == <<Ready>> \o Out(<<c>>)

\* Mutated form: the port is not waited for.
serial_writes_at_once(s) == Out(s)

serial_writes(s) == <<Ready>> \o Out(s) \o <<Ready>>

\* Bit 5 of the line status: the queue is empty.
serial_writeReady(uart) == uart.fifo = <<>>

outb(uart, b) ==
    IF Len(uart.fifo) < Fifo THEN [uart EXCEPT !.fifo = Append(@, b)] ELSE uart

Sends(uart) == [fifo |-> Tail(uart.fifo), line |-> Append(uart.line, Head(uart.fifo))]
=============================================================================
