-------------------------------- MODULE Irq --------------------------------
(***************************************************************************)
(* How a hardware interrupt reaches a driver: the two interrupt            *)
(* controllers (pic.c), the stubs that ask them about spurious requests    *)
(* (idt_stubs.S) and the dispatch along the handler chains (idt.c).        *)
(*                                                                         *)
(* A layer without a Next of its own: a driver module composes its steps   *)
(* with those of the devices and of the kernel it is about.                *)
(***************************************************************************)
EXTENDS Hal, FiniteSets, SequencesExt

VARIABLES
    \* The controllers.  asserted: the lines the devices drive; irr: the edges
    \* latched and not yet taken; in_service: taken and not yet acknowledged.
    asserted, irr, in_service,
    masked,        \* the two mask registers
    irqs,          \* idt.c: the handler chain of every line
    vector         \* the line whose stub or handlers run, NoLine if none

irqVars == <<asserted, irr, in_service, masked, irqs, vector>>

Lines == 0 .. 15         \* NR_IRQS
NoLine == 16
Timer == 0
Cascade == 2             \* where the second controller requests from the first
OnSlave(n) == n >= 8
Master(S) == S \cap 0 .. 7
Slave(S) == S \cap 8 .. 15
Handlers == {"timer_isr", "keyboard_isr", "ata_irq"}

IrqTypeOK == /\ asserted \subseteq Lines /\ irr \subseteq Lines
             /\ in_service \subseteq Lines /\ masked \subseteq Lines
             /\ DOMAIN irqs = Lines
             /\ \A n \in Lines : /\ Len(irqs[n]) <= 2
                                 /\ Range(irqs[n]) \subseteq Handlers
             /\ vector \in Lines \cup {NoLine}

\* idt_init: no handler anywhere, all lines masked but those of the timer, the
\* keyboard, the cascade, the mouse and the two disks.
IrqInit == /\ asserted = {} /\ irr = {} /\ in_service = {}
           /\ masked = Lines \ {0, 1, 2, 12, 14, 15}
           /\ irqs = [n \in Lines |-> <<>>]
           /\ vector = NoLine

------------------------------------------------------------------------------
(* The controllers: edge triggered, fully nested, not specific in their EOI. *)

\* A device raises its line; only an edge is latched.
Raised(n) == /\ asserted' = asserted \cup {n}
             /\ irr' = IF n \in asserted THEN irr ELSE irr \cup {n}

\* A line in service holds off itself and everything of lower priority on its
\* controller; the second controller is the line Cascade of the first.
Admitted(n) ==
    /\ n \in irr \ masked
    /\ IF OnSlave(n)
       THEN /\ Cascade \notin masked
            /\ \A k \in Slave(in_service) : n < k
            /\ \A k \in Master(in_service) : Cascade < k
       ELSE \A k \in Master(in_service) : n < k

Priority(n) == IF OnSlave(n) THEN 8 * Cascade + n - 7 ELSE 8 * n

Highest(n) == Admitted(n) /\ \A k \in Lines : Admitted(k) => Priority(n) <= Priority(k)

\* The processor takes the request of line n: the gate clears IF.  A request
\* that is no longer asserted may be answered with the lowest line of its
\* controller, which then is not in service.
Accept(n) ==
    /\ interrupts /\ vector = NoLine
    /\ Highest(n)
    /\ irr' = irr \ {n}
    /\ asserted' = asserted \ {Timer}
    /\ \/ /\ vector' = n
          /\ in_service' = in_service \cup {n}
                               \cup (IF OnSlave(n) THEN {Cascade} ELSE {})
       \/ /\ n # Timer /\ n \notin asserted
          /\ vector' = IF OnSlave(n) THEN 15 ELSE 7
          /\ in_service' = in_service \cup (IF OnSlave(n) THEN {Cascade} ELSE {})
    /\ interrupts' = FALSE
    /\ UNCHANGED <<were_intrs_enabled, masked, irqs>>

\* A controller ends the service of its highest line.
EndHighest(S) == {n \in S : \E k \in S : k < n}
MasterEOI(S) == EndHighest(Master(S)) \cup Slave(S)
SlaveEOI(S) == Master(S) \cup EndHighest(Slave(S))

------------------------------------------------------------------------------
(* pic.c *)

\* Mutated forms: the second controller is not told; line 0 is taken for no line.
AckMaster(n, S) == MasterEOI(S)
AckNotTimer(n, S) == IF n = Timer THEN S
                     ELSE IF OnSlave(n) THEN MasterEOI(SlaveEOI(S)) ELSE MasterEOI(S)

\* pic_ack.
pic_ack(n, S) == IF OnSlave(n) THEN MasterEOI(SlaveEOI(S)) ELSE MasterEOI(S)

\* pic_checkSpurious: its answer, and the EOI that a spurious request of the
\* second controller still owes the first.
Spurious(n) == n \in {7, 15} /\ n \notin in_service

SpuriousEOI(n, S) == IF n = 15 THEN MasterEOI(S) ELSE S

pic_unmaskIRQ(n) == masked' = masked \ {n}

------------------------------------------------------------------------------
(* idt.c *)

\* The way back through the stub, to the iret.
Return(S) == /\ in_service' = S
             /\ vector' = NoLine
             /\ interrupts' = TRUE
             /\ UNCHANGED <<were_intrs_enabled, irr, masked, irqs>>

\* The stubs of lines 7 and 15 return before the dispatch.
DismissSpurious == /\ vector # NoLine /\ Spurious(vector)
                   /\ Return(SpuriousEOI(vector, in_service))
                   /\ UNCHANGED asserted

Dispatching == vector # NoLine /\ ~Spurious(vector)

\* Every handler of the kernel answers HANDLED, so the first of the chain ends the
\* walk of isr_handler and the line is acknowledged.  An empty chain leaves it in
\* service.
Answerer(n) == IF irqs[n] = <<>> THEN "nobody" ELSE Head(irqs[n])
Acknowledged(n, S) == IF irqs[n] = <<>> THEN S ELSE pic_ack(n, S)

\* isr_handler when h answers, which reads the registers that withdraw the requests
\* in `read'.
DispatchTo(h, read) == /\ Dispatching /\ Answerer(vector) = h
                       /\ Return(Acknowledged(vector, in_service))
                       /\ asserted' = asserted \ read

\* idt_addIRQ_ISR while interrupts are off: at the end of the chain.  The store
\* of IF, the cli and the restore come to: off before, off behind.
AddHandler(chains, n, h) == [chains EXCEPT ![n] = Append(@, h)]

\* Mutated form: the end of the section turns interrupts on.
CloseSectionOn == SaveFlag /\ interrupts' = TRUE

CloseSection == /\ SaveFlag
                /\ interrupts' = (were_intrs_enabled' # 0)
=============================================================================
