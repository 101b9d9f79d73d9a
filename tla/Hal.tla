-------------------------------- MODULE Hal --------------------------------
(***************************************************************************)
(* The interrupt-enable part of the hardware abstraction layer             *)
(* (kernel/arch/i386/hal.c).  Every critical section of the kernel - the   *)
(* run list, the heap, the IRQ chains, the wait for a disk - is bracketed  *)
(* by these three functions.  There is one processor, EFLAGS.IF is the     *)
(* only thing that keeps an interrupt out, and the previous value of IF is *)
(* kept in ONE global byte, not on the stack of the caller.                *)
(***************************************************************************)
EXTENDS Integers

VARIABLES
    interrupts,           \* EFLAGS.IF of the processor
    were_intrs_enabled    \* the static byte that remembers IF

halVars == <<interrupts, were_intrs_enabled>>

\* EFLAGS.IF is bit 9, the byte has 8 bits.
IntrFlag == 512
ByteSize == 256

HalTypeOK == /\ interrupts \in BOOLEAN
             /\ were_intrs_enabled \in 0 .. ByteSize - 1

HalInit == interrupts = FALSE /\ were_intrs_enabled = 0

\* Mutated forms of SavedFlag: a byte that stores the flag as 0 or 1, and a
\* store that is as wide as EFLAGS.
SavedFlagAsBool(on) == IF on THEN 1 ELSE 0
SavedFlagWide(on) == IF on THEN IntrFlag ELSE 0

(***************************************************************************)
(* andl $0x200, %eax; movl %eax, (were_intrs_enabled).  The four-byte      *)
(* store leaves the low byte of the masked EFLAGS in the object; the other *)
(* three bytes land in whatever the linker put behind it.                  *)
(***************************************************************************)
SavedFlag(on) == (IF on THEN IntrFlag ELSE 0) % ByteSize

\* The first half of hal_disableInterrupts: pushf .. movl.  An interrupt can
\* still be taken between this store and the cli that follows it.
SaveFlag == were_intrs_enabled' = SavedFlag(interrupts)

\* Mutated form: the cli is missing.
CliDropped == interrupts' = interrupts

Cli == interrupts' = FALSE

\* hal_enableInterrupts.
EnableInterrupts == SaveFlag /\ interrupts' = TRUE

\* hal_restoreInterrupts: sti if the byte is not zero, cli if it is.
RestoreInterrupts == /\ interrupts' = (were_intrs_enabled # 0)
                     /\ UNCHANGED were_intrs_enabled
=============================================================================
