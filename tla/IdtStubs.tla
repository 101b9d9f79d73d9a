------------------------------ MODULE IdtStubs ------------------------------
(***************************************************************************)
(* prep_isr, change_stack and revert_change_stack                          *)
(* (kernel/arch/i386/idt_stubs.S), one definition per movl.                *)
(*                                                                         *)
(* The processor pushes SS and ESP, and pops them, only when the interrupt *)
(* leaves ring 3 or iret enters it.  For ring 0 the stub makes room for    *)
(* both, and on the way back it moves what is left of the frame to the     *)
(* stack of the ESP in it.                                                 *)
(*                                                                         *)
(* An address is a stack and the number of words pushed on it.  A word of  *)
(* memory is the name of the register it holds a copy of; the one that     *)
(* holds an ESP goes with the address it names.                            *)
(***************************************************************************)
EXTENDS Integers

Above(a, words) == [stack |-> a.stack, depth |-> a.depth - words]
Below(a, words) == [stack |-> a.stack, depth |-> a.depth + words]

Addresses(stacks) == [stack : stacks, depth : Int]

Words == {"free", "eip", "cs", "eflags", "esp", "ss", "eax", "ebx", "ecx",
          "err_code", "int_num"}

\* movl through a register, from one word of memory to another.
Mov(memory, from, to) == [memory EXCEPT ![to] = memory[from]]

\* The words of the stacks before anything is pushed.
Blank(stacks) == [a \in Addresses(stacks) |-> "free"]

\* Where EIP is in a frame that begins at top: behind SS, ESP, EFLAGS and CS.
FrameAt(top) == Below(top, 5)

\* The processor and the stub's own pushes from ring 0, at an ESP of `at'.
PushedInRing0(at) ==
    [Blank({at.stack}) EXCEPT ![Below(at, 1)] = "eflags", ![Below(at, 2)] = "cs",
                              ![Below(at, 3)] = "eip", ![Below(at, 4)] = "err_code",
                              ![Below(at, 5)] = "int_num"]

\* change_stack: everything two words down, ESP and SS in front of it.
ChangeStack(at) ==
    LET esp == Below(at, 5)
        m0 == [PushedInRing0(at) EXCEPT ![Below(esp, 3)] = "eax"]
        m1 == Mov(m0, esp, Below(esp, 2))
        m2 == Mov(m1, Above(esp, 1), Below(esp, 1))
        m3 == Mov(m2, Above(esp, 2), esp)
        m4 == Mov(m3, Above(esp, 3), Above(esp, 1))
        m5 == Mov(m4, Above(esp, 4), Above(esp, 2))
    IN  [m5 EXCEPT ![Above(esp, 3)] = "esp", ![Above(esp, 4)] = "ss"]

\* The ESP that change_stack puts in: %esp + 5 * 4.
EspPut(at) == Above(Below(at, 5), 5)

\* A frame as the processor pushes it from ring 3, EIP at f, and EAX where
\* change_stack takes it back from.
IsFrame(memory, f) ==
    /\ memory[f] = "eip" /\ memory[Above(f, 1)] = "cs"
    /\ memory[Above(f, 2)] = "eflags" /\ memory[Above(f, 3)] = "esp"
    /\ memory[Above(f, 4)] = "ss" /\ memory[Below(f, 3)] = "eax"

\* The three words iret pops for ring 0, EIP at n, and the registers that
\* revert_change_stack takes back from behind them.
IsMoved(memory, n) ==
    /\ memory[n] = "eip" /\ memory[Above(n, 1)] = "cs"
    /\ memory[Above(n, 2)] = "eflags"
    /\ memory[Below(n, 3)] = "eax" /\ memory[Below(n, 4)] = "ebx"
    /\ memory[Below(n, 5)] = "ecx"

\* common_isr has popped the other registers: a frame at f, and the three
\* registers revert_change_stack saves below it.
Saved(f, e) ==
    [Blank({f.stack, e.stack}) EXCEPT
        ![f] = "eip", ![Above(f, 1)] = "cs", ![Above(f, 2)] = "eflags",
        ![Above(f, 3)] = "esp", ![Above(f, 4)] = "ss",
        ![Below(f, 1)] = "eax", ![Below(f, 2)] = "ebx", ![Below(f, 3)] = "ecx"]

\* ESP before the iret to ring 0, which pops three words.
NewEsp(e) == Below(e, 3)

\* Mutated form: EIP is copied before EFLAGS.
RevertEipFirst(f, e) ==
    LET esp == NewEsp(e)
        m1 == Mov(Saved(f, e), Below(f, 1), Below(esp, 3))
        m2 == Mov(m1, Below(f, 2), Below(esp, 4))
        m3 == Mov(m2, Below(f, 3), Below(esp, 5))
        m4 == Mov(m3, f, esp)
        m5 == Mov(m4, Above(f, 1), Above(esp, 1))
    IN  Mov(m5, Above(f, 2), Above(esp, 2))

\* revert_change_stack to an ESP of e.
RevertChangeStack(f, e) ==
    LET esp == NewEsp(e)
        m1 == Mov(Saved(f, e), Below(f, 1), Below(esp, 3))
        m2 == Mov(m1, Below(f, 2), Below(esp, 4))
        m3 == Mov(m2, Below(f, 3), Below(esp, 5))
        m4 == Mov(m3, Above(f, 2), Above(esp, 2))
        m5 == Mov(m4, Above(f, 1), Above(esp, 1))
    IN  Mov(m5, f, esp)
=============================================================================
