-------------------------- MODULE SchedulerProofs --------------------------
(***************************************************************************)
(* The invariants of Scheduler, proved for any set of processes, any       *)
(* services they call and either layout of the byte behind                 *)
(* were_intrs_enabled: the locks and the stacks; then the run list and the *)
(* PIDs, what process_create, schedule_process and scheduler_preempt do to *)
(* them; and what the run list and the TSS promise together: scheduler.c   *)
(* implements the round-robin queue, and a user process is interrupted on  *)
(* its own stack.                                                          *)
(***************************************************************************)
EXTENDS Scheduler, FiniteSetTheorems, FunctionTheorems, SequenceTheorems,
        WellFoundedInduction, TLAPS

-----------------------------------------------------------------------------
(* The inductive invariant.                                                *)

\* process_create has named its process and not yet returned.
Creating(c) == \/ c.pc \in {"fill", "number", "sched_lock", "begin", "link",
                            "tail", "end"}
               \/ c.pc \in {"lock", "heap"} /\ c.ret = "fill"

\* kinit has taken the decision to create the head of its plan.
Asking(c) == \/ c.pc = "regs"
             \/ c.pc \in {"lock", "heap"} /\ c.ret = "regs"

\* Interrupts are off in every critical section, in the second kmalloc of
\* process_create and in the one inside idt_addIRQ_ISR - because the byte that
\* remembers IF is always zero.
Locks ==
    /\ were_intrs_enabled = 0
    /\ exec.pc \in Critical => ~ interrupts
    /\ exec.pc = "lock" /\ exec.ret \in {"irq_link", "fill"} => ~ interrupts

\* The locals of the executing context.
Locals ==
    /\ Creating(exec) <=> exec.new # POISON
    /\ exec.new # POISON => exec.new \in allocated
    /\ exec.pc = "idle" => exec.owner = Boot
    /\ exec.owner = Boot /\ Asking(exec) => plan # <<>>

\* The places a process can have been preempted at.
Preemptible(c) == /\ c.pc \in {"run", "lock", "irq_lock", "wait"}
                  /\ c.pc = "lock" => c.ret \in {"run", "regs"}
                  /\ c.new = POISON

\* Whose context is where.
Ownership ==
    /\ NoForeignContext
    /\ \A p \in Procs : Preemptible(regs[p])
    /\ exec.owner = Boot =>
          \A p \in Procs : current_state[p] = "INITIALIZED"

IInv == TypeOK /\ Locks /\ Locals /\ Ownership

-----------------------------------------------------------------------------
(* Facts used by every step.                                               *)

\* hal_disableInterrupts remembers nothing: bit 9 does not fit in the byte.
LEMMA SavedFlagIsZero == \A on \in BOOLEAN : SavedFlag(on) = 0
  BY DEF SavedFlag, IntrFlag, ByteSize

\* The entry context of a process is a context it may be dispatched to.
LEMMA EntryOK == \A p \in Owners : /\ Entry(p) \in Contexts
                                   /\ Entry(p).owner = p
                                   /\ Preemptible(Entry(p))
  BY BoundsAssumption DEF Entry, Contexts, Owners, Stacks, Labels, Returns,
     Preemptible, Addresses

\* Init establishes the inductive invariant.
LEMMA InitIInv == Init => IInv
<1> SUFFICES ASSUME Init PROVE IInv
  OBVIOUS
<1> USE DEF Init, HalInit
<1>1. exec \in Contexts /\ regs \in [Procs -> Contexts]
  BY EntryOK DEF Owners
<1>2. TypeOK
  <2>a. were_intrs_enabled \in 0 .. ByteSize - 1
    BY DEF ByteSize
  <2>b. interrupts \in BOOLEAN
    OBVIOUS
  <2>1. HalTypeOK
    BY <2>a, <2>b DEF HalTypeOK
  <2>2. /\ next \in [Procs -> Procs \cup {POISON}]
        /\ current_state \in [Procs -> {"INITIALIZED", "RUNNING"}]
        /\ pid \in [Procs -> Nat]
    OBVIOUS
  <2>3. esp0 \in Stacks
    BY DEF Stacks, Owners
  <2>4. plan \in Seq(Procs) /\ calls \in 0 .. BootCalls
    BY PlanAssumption, BoundsAssumption
  <2> QED
    BY <1>1, <2>1, <2>2, <2>3, <2>4 DEF TypeOK
<1>3. Locks
  BY DEF Locks, Entry, Critical
<1>4. Locals
  BY DEF Locals, Entry, Creating, Asking
<1>5. Ownership
  BY EntryOK DEF Ownership, NoForeignContext, Owners, Entry
<1> QED
  BY <1>2, <1>3, <1>4, <1>5 DEF IInv

\* What a step may use of the types of the executing context.
LEMMA ContextFacts ==
  ASSUME TypeOK
  PROVE  /\ exec.owner \in Owners /\ exec.pc \in Labels
         /\ exec.ret \in Returns /\ exec.new \in Procs \cup {POISON}
         /\ exec.tmp \in Nat /\ exec.work \in 0 .. WorkModulus - 1
         /\ exec.esp \in Addresses(Stacks) /\ interrupts \in BOOLEAN
         /\ is_schedueling_proc \in BOOLEAN
         /\ SavedFlag(interrupts) = 0
  BY SavedFlagIsZero DEF TypeOK, HalTypeOK, Contexts

\* hal_disableInterrupts and hal_enableInterrupts keep the types of what they
\* write, the byte they spill into included.
LEMMA DisableTypes ==
  ASSUME TypeOK, Disable
  PROVE  HalTypeOK' /\ is_schedueling_proc' \in BOOLEAN
<1>1. were_intrs_enabled' = 0
  BY ContextFacts DEF Disable, SaveFlag
<1>2. interrupts' \in BOOLEAN
  BY DEF TypeOK, HalTypeOK, Disable
<1>3. is_schedueling_proc' \in BOOLEAN
  <2>1. CASE SpillHitsFlag
    BY <2>1 DEF TypeOK, HalTypeOK, Disable
  <2>2. CASE ~ SpillHitsFlag
    BY <2>2 DEF TypeOK, HalTypeOK, Disable
  <2> QED
    BY <2>1, <2>2
<1>4. 0 \in 0 .. ByteSize - 1
  BY DEF ByteSize
<1> QED
  BY <1>1, <1>2, <1>3, <1>4 DEF HalTypeOK

LEMMA EnableTypes ==
  ASSUME TypeOK, Enable
  PROVE  HalTypeOK' /\ is_schedueling_proc' \in BOOLEAN
<1>1. were_intrs_enabled' = 0
  BY ContextFacts DEF Enable, EnableInterrupts, SaveFlag
<1>2. interrupts' \in BOOLEAN
  BY DEF Enable, EnableInterrupts
<1>3. is_schedueling_proc' \in BOOLEAN
  <2>1. CASE SpillHitsFlag
    BY <2>1 DEF TypeOK, HalTypeOK, Enable
  <2>2. CASE ~ SpillHitsFlag
    BY <2>2 DEF TypeOK, HalTypeOK, Enable
  <2> QED
    BY <2>1, <2>2
<1>4. 0 \in 0 .. ByteSize - 1
  BY DEF ByteSize
<1> QED
  BY <1>1, <1>2, <1>3, <1>4 DEF HalTypeOK

-----------------------------------------------------------------------------
(* The steps of the kernel's code.                                         *)

\* A process that computes is left with a context, its ESP by as many words lower
\* as it has pushed.
LEMMA WorkContext ==
  ASSUME TypeOK, Work
  PROVE  /\ exec' \in Contexts
         /\ exec'.owner = exec.owner /\ exec'.pc = exec.pc
         /\ exec'.esp.stack = exec.esp.stack
         /\ exec'.esp.depth - Depth(exec.owner, exec'.work)
              = exec.esp.depth - Depth(exec.owner, exec.work)
<1> DEFINE more == (exec.work + 1) % WorkModulus
           pushed == Depth(exec.owner, more) - Depth(exec.owner, exec.work)
<1>1. exec \in Contexts /\ exec.work \in Int /\ exec.esp \in Addresses(Stacks)
  BY BoundsAssumption DEF TypeOK, Contexts
<1>2. more \in 0 .. WorkModulus - 1
  BY <1>1, ContextFacts, BoundsAssumption
<1>3. /\ Depth(exec.owner, more) \in Int
      /\ Depth(exec.owner, exec.work) \in Int
  BY <1>1, <1>2, BoundsAssumption DEF Depth
<1>4. exec' = [exec EXCEPT !.work = more, !.esp = Below(@, pushed)]
  BY DEF Work
<1> HIDE DEF more
<1>5. pushed \in Int
  BY <1>3
<1>6. /\ Below(exec.esp, pushed) \in Addresses(Stacks)
      /\ Below(exec.esp, pushed).stack = exec.esp.stack
      /\ Below(exec.esp, pushed).depth = exec.esp.depth + pushed
      /\ exec.esp.depth \in Int
  BY <1>1, <1>5 DEF Below, Addresses
<1> DEFINE b == Below(exec.esp, pushed)
<1>7. exec' = [exec EXCEPT !.work = more, !.esp = b]
  BY <1>4
<1> HIDE DEF b
<1>8. /\ exec' \in Contexts /\ exec'.owner = exec.owner /\ exec'.pc = exec.pc
      /\ exec'.work = more /\ exec'.esp = b
  BY <1>1, <1>2, <1>6, <1>7 DEF Contexts, b
<1> QED
  BY <1>3, <1>6, <1>8 DEF b

LEMMA WorkOnly ==
  ASSUME Work
  PROVE  /\ exec.owner \in Procs /\ exec.pc = "run"
         /\ UNCHANGED <<listVars, next, p_current, regs, allocated, plan, esp0>>
BY DEF Work, At, listVars, procVars, bootVars

\* Every step of the executing context preserves the inductive invariant.
LEMMA StepIInv ==
  ASSUME IInv, Step
  PROVE  IInv'
<1> USE ContextFacts, ProcsAssumption, BoundsAssumption
    DEF IInv, At, Goto, listVars, procVars, bootVars, halVars
<1>1. ASSUME CreateCall PROVE IInv'
  <2> USE <1>1 DEF CreateCall, CallHeap, Disable, SaveFlag
  <2>1. TypeOK'
    <3>1. exec' \in Contexts
      BY DEF Contexts, Labels, Returns, Critical, Locals, Creating, TypeOK
    <3>2. HalTypeOK' /\ is_schedueling_proc' \in BOOLEAN
      BY DisableTypes, EnableTypes DEF HalTypeOK, ByteSize, TypeOK, Locks
    <3> QED
      BY <3>1, <3>2 DEF TypeOK
  <2>2. Locks'
    BY DEF Locks, Critical, Labels, Returns, TypeOK, Contexts
  <2>3. Locals'
    BY DEF Locals, Creating, Asking, Contexts, Labels, Returns, Critical, TypeOK,
       Ownership, NoForeignContext, Owners
  <2>4. Ownership'
    BY DEF Ownership, NoForeignContext, Preemptible, Owners, Contexts, TypeOK
  <2> QED
    BY <2>1, <2>2, <2>3, <2>4
<1>2. ASSUME CreateNoProc PROVE IInv'
  <2> USE <1>2 DEF CreateNoProc
  <2>1. TypeOK'
    <3>1. exec' \in Contexts
      BY DEF Contexts, Labels, Returns, Critical, Locals, Creating, TypeOK
    <3>2. plan' \in Seq(Procs)
      BY DEF TypeOK, Locals, Asking
    <3>3. HalTypeOK' /\ is_schedueling_proc' \in BOOLEAN
      BY DisableTypes, EnableTypes DEF HalTypeOK, TypeOK
    <3> QED
      BY <3>1, <3>2, <3>3 DEF TypeOK
  <2>2. Locks'
    BY DEF Locks, Critical, Labels, Returns, TypeOK, Contexts
  <2>3. Locals'
    BY DEF Locals, Creating, Asking, Contexts, Labels, Returns, Critical, TypeOK,
       Ownership, NoForeignContext, Owners
  <2>4. Ownership'
    BY DEF Ownership, NoForeignContext, Preemptible, Owners, Contexts, TypeOK
  <2> QED
    BY <2>1, <2>2, <2>3, <2>4
<1>3. ASSUME CreateFill PROVE IInv'
  <2> USE <1>3 DEF CreateFill
  <2>1. TypeOK'
    <3>1. exec' \in Contexts
      BY DEF Contexts, Labels, Returns, Critical, Locals, Creating, TypeOK
    <3>2. HalTypeOK' /\ is_schedueling_proc' \in BOOLEAN
      BY DisableTypes, EnableTypes DEF HalTypeOK, ByteSize, TypeOK, Locks
    <3> QED
      BY <3>1, <3>2 DEF TypeOK
  <2>2. Locks'
    BY DEF Locks, Critical, Labels, Returns, TypeOK, Contexts
  <2>3. Locals'
    BY DEF Locals, Creating, Asking, Contexts, Labels, Returns, Critical, TypeOK,
       Ownership, NoForeignContext, Owners
  <2>4. Ownership'
    BY DEF Ownership, NoForeignContext, Preemptible, Owners, Contexts, TypeOK
  <2> QED
    BY <2>1, <2>2, <2>3, <2>4
<1>4. ASSUME CreateNoRegs PROVE IInv'
  <2> USE <1>4 DEF CreateNoRegs, Disable, SaveFlag
  <2>1. TypeOK'
    <3>1. exec' \in Contexts
      BY DEF Contexts, Labels, Returns, Critical, Locals, Creating, TypeOK
    <3>2. HalTypeOK' /\ is_schedueling_proc' \in BOOLEAN
      BY DisableTypes, EnableTypes DEF HalTypeOK, ByteSize, TypeOK, Locks
    <3> QED
      BY <3>1, <3>2 DEF TypeOK
  <2>2. Locks'
    BY DEF Locks, Critical, Labels, Returns, TypeOK, Contexts
  <2>3. Locals'
    BY DEF Locals, Creating, Asking, Contexts, Labels, Returns, Critical, TypeOK,
       Ownership, NoForeignContext, Owners
  <2>4. Ownership'
    BY DEF Ownership, NoForeignContext, Preemptible, Owners, Contexts, TypeOK
  <2> QED
    BY <2>1, <2>2, <2>3, <2>4
<1>5. ASSUME CreateNumber PROVE IInv'
  <2> USE <1>5 DEF CreateNumber, Disable, SaveFlag
  <2>1. TypeOK'
    <3>1. exec' \in Contexts
      BY DEF Contexts, Labels, Returns, Critical, Locals, Creating, TypeOK
    <3>2. exec.new \in Procs
      BY DEF Locals, Creating
    <3>3. next' \in [Procs -> Procs \cup {POISON}]
      BY <3>2 DEF TypeOK
    <3>4. regs' \in [Procs -> Contexts]
      BY <3>2, EntryOK DEF TypeOK, Owners
    <3>5. /\ current_state' \in [Procs -> {"INITIALIZED", "RUNNING"}]
           /\ pid' \in [Procs -> Nat] /\ pid_counter' \in Nat
      BY <3>2 DEF TypeOK
    <3>6. HalTypeOK' /\ is_schedueling_proc' \in BOOLEAN
      BY DisableTypes, EnableTypes DEF HalTypeOK, TypeOK
    <3> QED
      BY <3>1, <3>2, <3>3, <3>4, <3>5, <3>6 DEF TypeOK
  <2>2. Locks'
    BY DEF Locks, Critical, Labels, Returns, TypeOK, Contexts
  <2>3. Locals'
    BY DEF Locals, Creating, Asking, Contexts, Labels, Returns, Critical, TypeOK,
       Ownership, NoForeignContext, Owners
  <2>4. Ownership'
    <3>1. exec.new \in Procs
      BY DEF Locals, Creating
    <3>2. regs'[exec.new] = Entry(exec.new)
      BY <3>1 DEF TypeOK
    <3>3. \A p \in Procs : p # exec.new => regs'[p] = regs[p]
      BY <3>1 DEF TypeOK
    <3>4. \A p \in Procs : regs'[p].owner = p /\ Preemptible(regs'[p])
      BY <3>2, <3>3, EntryOK DEF Ownership, NoForeignContext, Owners
    <3> QED
      BY <3>4 DEF Ownership, NoForeignContext, TypeOK
  <2> QED
    BY <2>1, <2>2, <2>3, <2>4
<1>6. ASSUME NEW p \in Procs, CreateRegs(p) PROVE IInv'
  <2> USE <1>6 DEF CreateRegs, Disable, SaveFlag
  <2>1. TypeOK'
    <3>1. exec' \in Contexts
      BY DEF Contexts, Labels, Returns, Critical, Locals, Creating, TypeOK
    <3>2. plan' \in Seq(Procs)
      BY DEF TypeOK, Locals, Asking
    <3>3. HalTypeOK' /\ is_schedueling_proc' \in BOOLEAN
      BY DisableTypes, EnableTypes DEF HalTypeOK, TypeOK
    <3> QED
      BY <3>1, <3>2, <3>3 DEF TypeOK
  <2>2. Locks'
    BY DEF Locks, Critical, Labels, Returns, TypeOK, Contexts
  <2>3. Locals'
    BY DEF Locals, Creating, Asking, Contexts, Labels, Returns, Critical, TypeOK,
       Ownership, NoForeignContext, Owners
  <2>4. Ownership'
    BY DEF Ownership, NoForeignContext, Preemptible, Owners, Contexts, TypeOK
  <2> QED
    BY <2>1, <2>2, <2>3, <2>4
<1>7. ASSUME ScheduleBegin PROVE IInv'
  <2> USE <1>7 DEF ScheduleBegin
  <2>1. TypeOK'
    <3>1. exec' \in Contexts
      BY DEF Contexts, Labels, Returns, Critical, Locals, Creating, TypeOK
    <3>2. HalTypeOK' /\ is_schedueling_proc' \in BOOLEAN
      BY DisableTypes, EnableTypes DEF HalTypeOK, ByteSize, TypeOK, Locks
    <3> QED
      BY <3>1, <3>2 DEF TypeOK
  <2>2. Locks'
    BY DEF Locks, Critical, Labels, Returns, TypeOK, Contexts
  <2>3. Locals'
    BY DEF Locals, Creating, Asking, Contexts, Labels, Returns, Critical, TypeOK,
       Ownership, NoForeignContext, Owners
  <2>4. Ownership'
    BY DEF Ownership, NoForeignContext, Preemptible, Owners, Contexts, TypeOK
  <2> QED
    BY <2>1, <2>2, <2>3, <2>4
<1>8. ASSUME ScheduleLink PROVE IInv'
  <2> USE <1>8 DEF ScheduleLink
  <2>1. TypeOK'
    <3>1. exec' \in Contexts
      BY DEF Contexts, Labels, Returns, Critical, Locals, Creating, TypeOK
    <3>2. exec.new \in Procs
      BY DEF Locals, Creating
    <3>3. next' \in [Procs -> Procs \cup {POISON}]
      BY <3>2 DEF TypeOK
    <3>4. p_current' \in Procs \cup {POISON}
      BY <3>2 DEF TypeOK
    <3>5. HalTypeOK' /\ is_schedueling_proc' \in BOOLEAN
      BY DisableTypes, EnableTypes DEF HalTypeOK, TypeOK
    <3> QED
      BY <3>1, <3>2, <3>3, <3>4, <3>5 DEF TypeOK
  <2>2. Locks'
    BY DEF Locks, Critical, Labels, Returns, TypeOK, Contexts
  <2>3. Locals'
    <3>1. exec' = [exec EXCEPT !.pc = exec'.pc] /\ exec'.pc \in {"end", "tail"}
      BY DEF TypeOK, Contexts
    <3> QED
      BY <3>1 DEF Locals, Creating, Asking, Contexts, TypeOK
  <2>4. Ownership'
    <3>1. exec'.owner = exec.owner
      BY DEF TypeOK, Contexts
    <3>2. CASE p_current = POISON
      BY <3>1, <3>2 DEF Ownership, NoForeignContext, Owners
    <3>3. CASE p_current # POISON
      BY <3>1, <3>3 DEF Ownership, NoForeignContext, Owners
    <3> QED
      BY <3>2, <3>3
  <2> QED
    BY <2>1, <2>2, <2>3, <2>4
<1>9. ASSUME ScheduleTail PROVE IInv'
  <2> USE <1>9 DEF ScheduleTail
  <2>1. TypeOK'
    <3>1. exec' \in Contexts
      BY DEF Contexts, Labels, Returns, Critical, Locals, Creating, TypeOK
    <3>2. HalTypeOK' /\ is_schedueling_proc' \in BOOLEAN
      BY DisableTypes, EnableTypes DEF HalTypeOK, ByteSize, TypeOK, Locks
    <3> QED
      BY <3>1, <3>2 DEF TypeOK
  <2>2. Locks'
    BY DEF Locks, Critical, Labels, Returns, TypeOK, Contexts
  <2>3. Locals'
    BY DEF Locals, Creating, Asking, Contexts, Labels, Returns, Critical, TypeOK,
       Ownership, NoForeignContext, Owners
  <2>4. Ownership'
    BY DEF Ownership, NoForeignContext, Preemptible, Owners, Contexts, TypeOK
  <2> QED
    BY <2>1, <2>2, <2>3, <2>4
<1>10. ASSUME ScheduleEnd PROVE IInv'
  <2> USE <1>10 DEF ScheduleEnd, RestoreInterrupts
  <2>1. TypeOK'
    <3>1. exec' \in Contexts
      BY DEF Contexts, Labels, Returns, Critical, Locals, Creating, TypeOK
    <3>2. HalTypeOK' /\ is_schedueling_proc' \in BOOLEAN
      BY DisableTypes, EnableTypes DEF HalTypeOK, ByteSize, TypeOK, Locks
    <3> QED
      BY <3>1, <3>2 DEF TypeOK
  <2>2. Locks'
    BY DEF Locks, Critical, Labels, Returns, TypeOK, Contexts
  <2>3. Locals'
    BY DEF Locals, Creating, Asking, Contexts, Labels, Returns, Critical, TypeOK,
       Ownership, NoForeignContext, Owners
  <2>4. Ownership'
    BY DEF Ownership, NoForeignContext, Preemptible, Owners, Contexts, TypeOK
  <2> QED
    BY <2>1, <2>2, <2>3, <2>4
<1>11. ASSUME Kmalloc PROVE IInv'
  <2> USE <1>11 DEF Kmalloc, MayCall, CallHeap, Disable, SaveFlag
  <2>1. TypeOK'
    <3>1. exec' \in Contexts
      BY DEF Contexts, Labels, Returns, Critical, Locals, Creating, TypeOK
    <3>2. calls' \in 0 .. BootCalls
      BY DEF TypeOK
    <3>3. HalTypeOK' /\ is_schedueling_proc' \in BOOLEAN
      BY DisableTypes, EnableTypes DEF HalTypeOK, TypeOK
    <3> QED
      BY <3>1, <3>2, <3>3 DEF TypeOK
  <2>2. Locks'
    BY DEF Locks, Critical, Labels, Returns, TypeOK, Contexts
  <2>3. Locals'
    BY DEF Locals, Creating, Asking, Contexts, Labels, Returns, Critical, TypeOK,
       Ownership, NoForeignContext, Owners
  <2>4. Ownership'
    BY DEF Ownership, NoForeignContext, Preemptible, Owners, Contexts, TypeOK
  <2> QED
    BY <2>1, <2>2, <2>3, <2>4
<1>12. ASSUME IrqAdd PROVE IInv'
  <2> USE <1>12 DEF IrqAdd, MayCall, Disable, SaveFlag
  <2>1. TypeOK'
    <3>1. exec' \in Contexts
      BY DEF Contexts, Labels, Returns, Critical, Locals, Creating, TypeOK
    <3>2. calls' \in 0 .. BootCalls
      BY DEF TypeOK
    <3>3. HalTypeOK' /\ is_schedueling_proc' \in BOOLEAN
      BY DisableTypes, EnableTypes DEF HalTypeOK, TypeOK
    <3> QED
      BY <3>1, <3>2, <3>3 DEF TypeOK
  <2>2. Locks'
    BY DEF Locks, Critical, Labels, Returns, TypeOK, Contexts
  <2>3. Locals'
    BY DEF Locals, Creating, Asking, Contexts, Labels, Returns, Critical, TypeOK,
       Ownership, NoForeignContext, Owners
  <2>4. Ownership'
    BY DEF Ownership, NoForeignContext, Preemptible, Owners, Contexts, TypeOK
  <2> QED
    BY <2>1, <2>2, <2>3, <2>4
<1>13. ASSUME WaitBegin PROVE IInv'
  <2> USE <1>13 DEF WaitBegin, MayCall, Enable, EnableInterrupts, SaveFlag
  <2>1. TypeOK'
    <3>1. exec' \in Contexts
      BY DEF Contexts, Labels, Returns, Critical, Locals, Creating, TypeOK
    <3>2. calls' \in 0 .. BootCalls
      BY DEF TypeOK
    <3>3. HalTypeOK' /\ is_schedueling_proc' \in BOOLEAN
      BY DisableTypes, EnableTypes DEF HalTypeOK, TypeOK
    <3> QED
      BY <3>1, <3>2, <3>3 DEF TypeOK
  <2>2. Locks'
    BY DEF Locks, Critical, Labels, Returns, TypeOK, Contexts
  <2>3. Locals'
    BY DEF Locals, Creating, Asking, Contexts, Labels, Returns, Critical, TypeOK,
       Ownership, NoForeignContext, Owners
  <2>4. Ownership'
    BY DEF Ownership, NoForeignContext, Preemptible, Owners, Contexts, TypeOK
  <2> QED
    BY <2>1, <2>2, <2>3, <2>4
<1>14. ASSUME BootDone PROVE IInv'
  <2> USE <1>14 DEF BootDone, Enable, EnableInterrupts, SaveFlag
  <2>1. TypeOK'
    <3>1. exec' \in Contexts
      BY DEF Contexts, Labels, Returns, Critical, Locals, Creating, TypeOK
    <3>2. HalTypeOK' /\ is_schedueling_proc' \in BOOLEAN
      BY DisableTypes, EnableTypes DEF HalTypeOK, ByteSize, TypeOK, Locks
    <3> QED
      BY <3>1, <3>2 DEF TypeOK
  <2>2. Locks'
    BY DEF Locks, Critical, Labels, Returns, TypeOK, Contexts
  <2>3. Locals'
    BY DEF Locals, Creating, Asking, Contexts, Labels, Returns, Critical, TypeOK,
       Ownership, NoForeignContext, Owners
  <2>4. Ownership'
    BY DEF Ownership, NoForeignContext, Preemptible, Owners, Contexts, TypeOK
  <2> QED
    BY <2>1, <2>2, <2>3, <2>4
<1>15. ASSUME TakeLock PROVE IInv'
  <2> USE <1>15 DEF TakeLock, Cli, AfterCli
  <2>1. TypeOK'
    <3>1. AfterCli(exec.pc) \in Critical
      BY DEF Critical
    <3>2. exec' \in Contexts
      BY <3>1 DEF Contexts, Labels, TypeOK
    <3>3. HalTypeOK' /\ is_schedueling_proc' \in BOOLEAN
      BY DisableTypes, EnableTypes DEF HalTypeOK, TypeOK
    <3> QED
      BY <3>1, <3>2, <3>3 DEF TypeOK
  <2>2. Locks'
    BY DEF Locks, Critical, Labels, Returns, TypeOK, Contexts
  <2>3. Locals'
    BY DEF Locals, Creating, Asking, Contexts, Labels, Returns, Critical, TypeOK,
       Ownership, NoForeignContext, Owners
  <2>4. Ownership'
    BY DEF Ownership, NoForeignContext, Preemptible, Owners, Contexts, TypeOK
  <2> QED
    BY <2>1, <2>2, <2>3, <2>4
<1>16. ASSUME Heap PROVE IInv'
  <2> USE <1>16 DEF Heap, Restore, RestoreInterrupts
  <2>1. TypeOK'
    <3>1. exec' \in Contexts
      BY DEF Contexts, Labels, Returns, Critical, Locals, Creating, TypeOK
    <3>2. HalTypeOK' /\ is_schedueling_proc' \in BOOLEAN
      BY DisableTypes, EnableTypes DEF HalTypeOK, ByteSize, TypeOK, Locks
    <3> QED
      BY <3>1, <3>2 DEF TypeOK
  <2>2. Locks'
    BY DEF Locks, Critical, Labels, Returns, TypeOK, Contexts
  <2>3. Locals'
    BY DEF Locals, Creating, Asking, Contexts, Labels, Returns, Critical, TypeOK,
       Ownership, NoForeignContext, Owners
  <2>4. Ownership'
    BY DEF Ownership, NoForeignContext, Preemptible, Owners, Contexts, TypeOK
  <2> QED
    BY <2>1, <2>2, <2>3, <2>4
<1>17. ASSUME IrqAlloc PROVE IInv'
  <2> USE <1>17 DEF IrqAlloc, CallHeap, Disable, SaveFlag
  <2>1. TypeOK'
    <3>1. exec' \in Contexts
      BY DEF Contexts, Labels, Returns, Critical, Locals, Creating, TypeOK
    <3>2. HalTypeOK' /\ is_schedueling_proc' \in BOOLEAN
      BY DisableTypes, EnableTypes DEF HalTypeOK, ByteSize, TypeOK, Locks
    <3> QED
      BY <3>1, <3>2 DEF TypeOK
  <2>2. Locks'
    BY DEF Locks, Critical, Labels, Returns, TypeOK, Contexts
  <2>3. Locals'
    BY DEF Locals, Creating, Asking, Contexts, Labels, Returns, Critical, TypeOK,
       Ownership, NoForeignContext, Owners
  <2>4. Ownership'
    BY DEF Ownership, NoForeignContext, Preemptible, Owners, Contexts, TypeOK
  <2> QED
    BY <2>1, <2>2, <2>3, <2>4
<1>18. ASSUME IrqLink PROVE IInv'
  <2> USE <1>18 DEF IrqLink, Restore, RestoreInterrupts
  <2>1. TypeOK'
    <3>1. exec' \in Contexts
      BY DEF Contexts, Labels, Returns, Critical, Locals, Creating, TypeOK
    <3>2. HalTypeOK' /\ is_schedueling_proc' \in BOOLEAN
      BY DisableTypes, EnableTypes DEF HalTypeOK, ByteSize, TypeOK, Locks
    <3> QED
      BY <3>1, <3>2 DEF TypeOK
  <2>2. Locks'
    BY DEF Locks, Critical, Labels, Returns, TypeOK, Contexts
  <2>3. Locals'
    BY DEF Locals, Creating, Asking, Contexts, Labels, Returns, Critical, TypeOK,
       Ownership, NoForeignContext, Owners
  <2>4. Ownership'
    BY DEF Ownership, NoForeignContext, Preemptible, Owners, Contexts, TypeOK
  <2> QED
    BY <2>1, <2>2, <2>3, <2>4
<1>19. ASSUME WaitEnd PROVE IInv'
  <2> USE <1>19 DEF WaitEnd, Restore, RestoreInterrupts
  <2>1. TypeOK'
    <3>1. exec' \in Contexts
      BY DEF Contexts, Labels, Returns, Critical, Locals, Creating, TypeOK
    <3>2. HalTypeOK' /\ is_schedueling_proc' \in BOOLEAN
      BY DisableTypes, EnableTypes DEF HalTypeOK, ByteSize, TypeOK, Locks
    <3> QED
      BY <3>1, <3>2 DEF TypeOK
  <2>2. Locks'
    BY DEF Locks, Critical, Labels, Returns, TypeOK, Contexts
  <2>3. Locals'
    BY DEF Locals, Creating, Asking, Contexts, Labels, Returns, Critical, TypeOK,
       Ownership, NoForeignContext, Owners
  <2>4. Ownership'
    BY DEF Ownership, NoForeignContext, Preemptible, Owners, Contexts, TypeOK
  <2> QED
    BY <2>1, <2>2, <2>3, <2>4
<1>20. ASSUME Work PROVE IInv'
  <2> USE <1>20 DEF Work
  <2>1. TypeOK'
    <3>1. (exec.work + 1) % WorkModulus \in 0 .. WorkModulus - 1
      OBVIOUS
    <3>2. exec' \in Contexts
      BY <3>1, WorkContext DEF Contexts, TypeOK
    <3>3. HalTypeOK' /\ is_schedueling_proc' \in BOOLEAN
      BY DisableTypes, EnableTypes DEF HalTypeOK, TypeOK
    <3> QED
      BY <3>1, <3>2, <3>3 DEF TypeOK
  <2>2. Locks'
    BY DEF Locks, Critical, Labels, Returns, TypeOK, Contexts
  <2>3. Locals'
    BY DEF Locals, Creating, Asking, Contexts, Labels, Returns, Critical, TypeOK,
       Ownership, NoForeignContext, Owners
  <2>4. Ownership'
    BY DEF Ownership, NoForeignContext, Preemptible, Owners, Contexts, TypeOK
  <2> QED
    BY <2>1, <2>2, <2>3, <2>4
<1> QED
  BY <1>1, <1>2, <1>3, <1>4, <1>5, <1>6, <1>7, <1>8, <1>9, <1>10, <1>11, <1>12, <1>13, <1>14, <1>15, <1>16, <1>17, <1>18, <1>19, <1>20
     DEF Step, Create, Schedule, Call, Advance

-----------------------------------------------------------------------------
(* The interrupt stubs.                                                    *)

\* The n-th word pushed from an ESP of `at'.
Word(at, n) == [stack |-> at.stack, depth |-> at.depth + n]

\* change_stack leaves a frame of the processor's form, wherever ESP was.
LEMMA FrameMade ==
  ASSUME NEW stacks, NEW at \in Addresses(stacks)
  PROVE  IsFrame(ChangeStack(at), FrameAt(at)) /\ EspPut(at) = at
<1> DEFINE D == Addresses({at.stack})
           w1 == Word(at, 1) w2 == Word(at, 2) w3 == Word(at, 3)
           w4 == Word(at, 4) w5 == Word(at, 5) w6 == Word(at, 6)
           w7 == Word(at, 7) w8 == Word(at, 8)
           m0 == [PushedInRing0(at) EXCEPT ![w8] = "eax"]
           m1 == Mov(m0, w5, w7)
           m2 == Mov(m1, w4, w6)
           m3 == Mov(m2, w3, w5)
           m4 == Mov(m3, w2, w4)
           m5 == Mov(m4, w1, w3)
           m6 == [m5 EXCEPT ![w2] = "esp", ![w1] = "ss"]
<1> HIDE DEF D, m0, m1, m2, m3, m4, m5, m6
<1>1. /\ w1 \in D /\ w2 \in D /\ w3 \in D /\ w4 \in D
      /\ w5 \in D /\ w6 \in D /\ w7 \in D /\ w8 \in D
  BY DEF D, Addresses, Word
<1>2. /\ w1 \notin {w2, w3, w4, w5, w6, w7, w8}
      /\ w2 \notin {w3, w4, w5, w6, w7, w8}
      /\ w3 \notin {w4, w5, w6, w7, w8}
      /\ w4 \notin {w5, w6, w7, w8}
      /\ w5 \notin {w6, w7, w8}
      /\ w6 \notin {w7, w8} /\ w7 # w8
  BY DEF Addresses, Word
<1>3. /\ FrameAt(at) = w5 /\ EspPut(at) = at
      /\ Below(at, 1) = w1 /\ Below(at, 2) = w2 /\ Below(at, 3) = w3
      /\ Below(at, 4) = w4 /\ Below(at, 5) = w5
      /\ Above(w5, 1) = w4 /\ Above(w5, 2) = w3 /\ Above(w5, 3) = w2
      /\ Above(w5, 4) = w1
      /\ Below(w5, 1) = w6 /\ Below(w5, 2) = w7 /\ Below(w5, 3) = w8
  BY DEF Addresses, Word, Above, Below, FrameAt, EspPut
<1> HIDE DEF w1, w2, w3, w4, w5, w6, w7, w8
<1>4. /\ m0 \in [D -> Words] /\ m0[w1] = "eflags" /\ m0[w2] = "cs"
      /\ m0[w3] = "eip" /\ m0[w8] = "eax"
  BY <1>1, <1>2, <1>3 DEF PushedInRing0, Blank, m0, D, Words
<1>5. ChangeStack(at) = m6
  BY <1>3 DEF ChangeStack, m0, m1, m2, m3, m4, m5, m6
<1>6. /\ m5 \in [D -> Words] /\ m5[w5] = "eip"
      /\ m5[w4] = "cs" /\ m5[w3] = "eflags" /\ m5[w8] = "eax"
  <2>1. /\ m1 \in [D -> Words] /\ m1[w3] = "eip" /\ m1[w2] = "cs"
        /\ m1[w1] = "eflags" /\ m1[w8] = "eax"
    BY <1>1, <1>2, <1>4 DEF m1, Mov
  <2>2. /\ m2 \in [D -> Words] /\ m2[w3] = "eip" /\ m2[w2] = "cs"
        /\ m2[w1] = "eflags" /\ m2[w8] = "eax"
    BY <1>1, <1>2, <2>1 DEF m2, Mov
  <2>3. /\ m3 \in [D -> Words] /\ m3[w5] = "eip" /\ m3[w2] = "cs"
        /\ m3[w1] = "eflags" /\ m3[w8] = "eax"
    BY <1>1, <1>2, <2>2 DEF m3, Mov
  <2>4. /\ m4 \in [D -> Words] /\ m4[w5] = "eip" /\ m4[w4] = "cs"
        /\ m4[w1] = "eflags" /\ m4[w8] = "eax"
    BY <1>1, <1>2, <2>3 DEF m4, Mov
  <2> QED
    BY <1>1, <1>2, <2>4 DEF m5, Mov
<1>7. /\ m6[w5] = "eip" /\ m6[w4] = "cs" /\ m6[w3] = "eflags"
      /\ m6[w2] = "esp" /\ m6[w1] = "ss" /\ m6[w8] = "eax"
  BY <1>1, <1>2, <1>6 DEF m6
<1> QED
  BY <1>3, <1>5, <1>7 DEF IsFrame

\* revert_change_stack to another stack, or to the ESP that was interrupted: the
\* frame is where iret looks for it, and no word was overwritten before its turn.
LEMMA FrameMoved ==
  ASSUME NEW stacks, NEW top \in Addresses(stacks), NEW e \in Addresses(stacks),
         top.stack # e.stack \/ top = e
  PROVE  /\ IsMoved(RevertChangeStack(FrameAt(top), e), NewEsp(e))
         /\ Above(NewEsp(e), 3) = e
<1> DEFINE D == Addresses({top.stack, e.stack})
           s1 == Word(top, 6) s2 == Word(top, 7) s3 == Word(top, 8)
           s4 == Word(top, 3) s5 == Word(top, 4) s6 == Word(top, 5)
           t1 == Word(top, 1) t2 == Word(top, 2)
           d1 == Word(e, 6) d2 == Word(e, 7) d3 == Word(e, 8)
           d4 == Word(e, 1) d5 == Word(e, 2) d6 == Word(e, 3)
           m0 == Saved(s6, e)
           m1 == Mov(m0, s1, d1)
           m2 == Mov(m1, s2, d2)
           m3 == Mov(m2, s3, d3)
           m4 == Mov(m3, s4, d4)
           m5 == Mov(m4, s5, d5)
           m6 == Mov(m5, s6, d6)
<1> HIDE DEF D, m0, m1, m2, m3, m4, m5, m6
<1>1. /\ s1 \in D /\ s2 \in D /\ s3 \in D /\ s4 \in D /\ s5 \in D /\ s6 \in D
      /\ t1 \in D /\ t2 \in D
      /\ d1 \in D /\ d2 \in D /\ d3 \in D /\ d4 \in D /\ d5 \in D /\ d6 \in D
  BY DEF D, Addresses, Word
<1>2. /\ s1 \notin {s2, s3, s4, s5, s6, t1, t2}
      /\ s2 \notin {s3, s4, s5, s6, t1, t2}
      /\ s3 \notin {s4, s5, s6, t1, t2}
      /\ s4 \notin {s5, s6, t1, t2} /\ s5 \notin {s6, t1, t2} /\ s6 \notin {t1, t2}
      /\ t1 # t2
  BY DEF Addresses, Word
<1>3. /\ d1 \notin {s2, s3, s4, s5, s6} /\ d2 \notin {s3, s4, s5, s6}
      /\ d3 \notin {s4, s5, s6} /\ d4 \notin {s5, s6} /\ d5 # s6
  BY DEF Addresses, Word
<1>4. /\ d1 \notin {d2, d3, d4, d5, d6} /\ d2 \notin {d3, d4, d5, d6}
      /\ d3 \notin {d4, d5, d6} /\ d4 \notin {d5, d6} /\ d5 # d6
  BY DEF Addresses, Word
<1>5. /\ FrameAt(top) = s6 /\ NewEsp(e) = d6 /\ Above(d6, 3) = e
      /\ Above(s6, 1) = s5 /\ Above(s6, 2) = s4 /\ Above(s6, 3) = t2
      /\ Above(s6, 4) = t1
      /\ Below(s6, 1) = s1 /\ Below(s6, 2) = s2 /\ Below(s6, 3) = s3
      /\ Above(d6, 1) = d5 /\ Above(d6, 2) = d4
      /\ Below(d6, 3) = d1 /\ Below(d6, 4) = d2 /\ Below(d6, 5) = d3
      /\ s6.stack = top.stack
  BY DEF Addresses, Word, Above, Below, FrameAt, NewEsp
<1> HIDE DEF s1, s2, s3, s4, s5, s6, t1, t2, d1, d2, d3, d4, d5, d6
<1>6. /\ m0 \in [D -> Words] /\ m0[s1] = "eax" /\ m0[s2] = "ebx" /\ m0[s3] = "ecx"
      /\ m0[s4] = "eflags" /\ m0[s5] = "cs" /\ m0[s6] = "eip"
  BY <1>1, <1>2, <1>5 DEF m0, Saved, Blank, D, Words
<1>7. RevertChangeStack(s6, e) = m6
  BY <1>5 DEF RevertChangeStack, m0, m1, m2, m3, m4, m5, m6
<1>8. /\ m6[d1] = "eax" /\ m6[d2] = "ebx" /\ m6[d3] = "ecx"
      /\ m6[d4] = "eflags" /\ m6[d5] = "cs" /\ m6[d6] = "eip"
  <2>1. /\ m1 \in [D -> Words] /\ m1[d1] = "eax" /\ m1[s2] = "ebx"
        /\ m1[s3] = "ecx" /\ m1[s4] = "eflags" /\ m1[s5] = "cs" /\ m1[s6] = "eip"
    BY <1>1, <1>3, <1>6 DEF m1, Mov
  <2>2. /\ m2 \in [D -> Words] /\ m2[d1] = "eax" /\ m2[d2] = "ebx"
        /\ m2[s3] = "ecx" /\ m2[s4] = "eflags" /\ m2[s5] = "cs" /\ m2[s6] = "eip"
    BY <1>1, <1>3, <1>4, <2>1 DEF m2, Mov
  <2>3. /\ m3 \in [D -> Words] /\ m3[d1] = "eax" /\ m3[d2] = "ebx"
        /\ m3[d3] = "ecx" /\ m3[s4] = "eflags" /\ m3[s5] = "cs" /\ m3[s6] = "eip"
    BY <1>1, <1>3, <1>4, <2>2 DEF m3, Mov
  <2>4. /\ m4 \in [D -> Words] /\ m4[d1] = "eax" /\ m4[d2] = "ebx"
        /\ m4[d3] = "ecx" /\ m4[d4] = "eflags" /\ m4[s5] = "cs" /\ m4[s6] = "eip"
    BY <1>1, <1>3, <1>4, <2>3 DEF m4, Mov
  <2>5. /\ m5 \in [D -> Words] /\ m5[d1] = "eax" /\ m5[d2] = "ebx"
        /\ m5[d3] = "ecx" /\ m5[d4] = "eflags" /\ m5[d5] = "cs" /\ m5[s6] = "eip"
    BY <1>1, <1>3, <1>4, <2>4 DEF m5, Mov
  <2> QED
    BY <1>1, <1>4, <2>5 DEF m6, Mov
<1> QED
  BY <1>5, <1>7, <1>8 DEF IsMoved

\* The frame of an interrupt holds the context that was interrupted.
LEMMA FrameIsContext ==
  ASSUME TypeOK
  PROVE  Frame = exec
<1>1. exec \in Contexts /\ exec.esp \in Addresses(Stacks)
  BY DEF TypeOK, Contexts
<1>2. IsFrame(ChangeStack(exec.esp), FrameAt(exec.esp)) /\ EspPut(exec.esp) = exec.esp
  BY <1>1, FrameMade
<1>3. [exec EXCEPT !.esp = exec.esp] = exec
  BY <1>1 DEF Contexts
<1> QED
  BY <1>2, <1>3 DEF Frame, Whole

\* A return to ring 3, to another stack or to the ESP that was interrupted goes on
\* with the context in the frame, exactly.
LEMMA ResumeExact ==
  ASSUME NEW c \in Contexts, FrameTop \in Addresses(Stacks),
         c.owner \in UserProcs \/ FrameTop.stack # c.esp.stack \/ FrameTop = c.esp
  PROVE  Resume(c) = c
<1>1. c.esp \in Addresses(Stacks) /\ [c EXCEPT !.esp = c.esp] = c
  BY DEF Contexts
<1>2. CASE c.owner \in UserProcs
  BY <1>2 DEF Resume
<1>3. CASE c.owner \notin UserProcs
  <2>1. /\ IsMoved(RevertChangeStack(FrameAt(FrameTop), c.esp), NewEsp(c.esp))
        /\ Above(NewEsp(c.esp), 3) = c.esp
    BY <1>1, <1>3, FrameMoved
  <2> QED
    BY <1>1, <1>3, <2>1 DEF Resume, Whole
<1> QED
  BY <1>2, <1>3

\* Any other return either does, or loses EIP, CS or EFLAGS; ESP is right.
LEMMA ResumeOrLost ==
  ASSUME NEW c \in Contexts
  PROVE  Resume(c) \in {c, [c EXCEPT !.pc = "lost"]}
<1>1. c.esp \in Addresses(Stacks) /\ [c EXCEPT !.esp = c.esp] = c
  BY DEF Contexts
<1>2. Above(NewEsp(c.esp), 3) = c.esp
  BY <1>1 DEF Addresses, Above, NewEsp, Below
<1> QED
  BY <1>1, <1>2 DEF Resume, Whole

\* An interrupt that finds nothing to do leaves no trace in the context.
LEMMA IsrStutters ==
  ASSUME IInv, Isr
  PROVE  UNCHANGED vars
<1>1. /\ TypeOK /\ exec \in Contexts /\ exec.esp \in Addresses(Stacks)
      /\ esp0 \in Stacks
  BY DEF IInv, TypeOK, Contexts
<1>2. FrameTop \in Addresses(Stacks)
  BY <1>1 DEF FrameTop, Addresses
<1>3. exec.owner \in UserProcs \/ FrameTop = exec.esp
  BY DEF FrameTop
<1>4. Resume(exec) = exec
  BY <1>1, <1>2, <1>3, ResumeExact
<1> QED
  BY <1>1, <1>4, FrameIsContext DEF Isr, vars

LEMMA NextCases ==
  ASSUME IInv, [Next]_vars
  PROVE  Step \/ Tick \/ UNCHANGED vars
BY IsrStutters DEF Next

-----------------------------------------------------------------------------
(* The timer interrupt.                                                    *)

\* A context that an interrupt may put on the processor.
Dispatched(c) == Preemptible(c) \/ (c.pc = "lost" /\ c.new = POISON)

\* What the timer puts on the processor is a context of the process that is
\* dispatched, at a place it may have been preempted at, or lost.
LEMMA LoadOK ==
  ASSUME IInv, NEW p \in Procs
  PROVE  /\ Load(p) \in Contexts /\ Load(p).owner = p
         /\ Dispatched(Load(p))
         /\ p \in UserProcs => Load(p) = regs[p]
<1>1. regs[p] \in Contexts /\ regs[p].owner = p /\ Preemptible(regs[p])
  BY DEF IInv, TypeOK, Ownership, NoForeignContext
<1>2. Load(p) \in {regs[p], [regs[p] EXCEPT !.pc = "lost"]}
  BY <1>1, ResumeOrLost DEF Load
<1>3. p \in UserProcs => Load(p) = regs[p]
  BY <1>1 DEF Load, Resume
<1>4. [regs[p] EXCEPT !.pc = "lost"] \in Contexts
  BY <1>1 DEF Contexts, Labels
<1>5. CASE Load(p) = regs[p]
  BY <1>1, <1>3, <1>5 DEF Dispatched
<1>6. CASE Load(p) = [regs[p] EXCEPT !.pc = "lost"]
  <2>1. /\ Load(p).owner = regs[p].owner /\ Load(p).pc = "lost"
        /\ Load(p).new = regs[p].new
    BY <1>1, <1>6 DEF Contexts
  <2> QED
    BY <1>1, <1>3, <1>4, <1>6, <2>1 DEF Dispatched, Preemptible
<1> QED
  BY <1>2, <1>5, <1>6

\* A context that takes an interrupt is at a place where nothing is half done.
LEMMA InterruptedOK ==
  ASSUME IInv, interrupts, exec.owner \in Procs, exec.pc # "lost"
  PROVE  Preemptible(exec)
BY ContextFacts, ProcsAssumption
   DEF IInv, Locks, Locals, Creating, Preemptible, Labels, Returns, Critical

\* The locals of a context that was just dispatched are in order.
LEMMA DispatchedLocals ==
  ASSUME IInv, exec' \in Contexts, exec'.owner \in Procs, Dispatched(exec'),
         interrupts, UNCHANGED <<halVars, plan>>
  PROVE  Locals' /\ Locks'
BY ProcsAssumption DEF IInv, Locks, Locals, Dispatched, Preemptible, Creating,
   Asking, Critical, halVars

\* The timer interrupt preserves the inductive invariant.
LEMMA TickIInv ==
  ASSUME IInv, Tick
  PROVE  IInv'
<1>1. p_current \in Procs
  BY DEF IInv, TypeOK, Tick, TickAlone, TickSwitch, Preempts
<1>2. CASE TickAlone
  <2> USE <1>2 DEF TickAlone, Preempts, listVars, procVars, bootVars
  <2>1. exec' \in Contexts /\ exec'.owner = p_current /\ Dispatched(exec')
    BY <1>1, LoadOK
  <2>2. TypeOK'
    BY <2>1 DEF IInv, TypeOK, HalTypeOK, halVars
  <2>3. Locals' /\ Locks'
    BY <1>1, <2>1, DispatchedLocals
  <2>4. Ownership'
    BY <1>1, <2>1, ProcsAssumption DEF IInv, Ownership, NoForeignContext
  <2> QED
    BY <2>2, <2>3, <2>4 DEF IInv
<1>3. CASE TickSwitch
  <2> USE <1>3, FrameIsContext DEF TickSwitch, Preempts, bootVars
  <2>1. PICK new \in Procs : RotateList(new) /\ SetEsp0(new)
                                /\ exec' = Load(new)
    OBVIOUS
  <2>2. exec' \in Contexts /\ exec'.owner = new /\ Dispatched(exec')
    BY <2>1, LoadOK
  <2>3. /\ p_current' = new /\ p_last' = p_current
        /\ next' \in [Procs -> Procs \cup {POISON}]
    BY <1>1, <2>1 DEF RotateList, IInv, TypeOK
  <2>4. /\ current_state' \in [Procs -> {"INITIALIZED", "RUNNING"}]
        /\ regs' \in [Procs -> Contexts]
    <3>1. Frame = exec
      BY FrameIsContext DEF IInv
    <3> QED
      BY <1>1, <3>1 DEF SaveRegisters, IInv, TypeOK
  <2>5. \A p \in Procs : regs'[p].owner = p /\ Preemptible(regs'[p])
    <3>1. CASE current_state[p_current] # "INITIALIZED"
      <4>1. exec.owner = p_current
        BY <1>1, <3>1 DEF IInv, Ownership, NoForeignContext
      <4>2. Preemptible(exec)
        BY <1>1, <4>1, InterruptedOK
      <4>3. regs' = [regs EXCEPT ![p_current] = exec]
        BY <3>1, FrameIsContext DEF SaveRegisters, IInv
      <4> QED
        BY <1>1, <4>1, <4>2, <4>3 DEF IInv, TypeOK, Ownership, NoForeignContext
    <3>2. CASE current_state[p_current] = "INITIALIZED"
      BY <3>2 DEF SaveRegisters, IInv, Ownership, NoForeignContext
    <3> QED
      BY <3>1, <3>2
  <2>6. esp0' \in Stacks
    BY <2>1 DEF SetEsp0, KernelStack, Stacks, Owners
  <2>7. TypeOK'
    BY <1>1, <2>2, <2>3, <2>4, <2>6 DEF IInv, TypeOK, HalTypeOK, halVars
  <2>8. Locals' /\ Locks'
    BY <2>2, DispatchedLocals
  <2>9. Ownership'
    BY <2>2, <2>3, <2>5, ProcsAssumption DEF Ownership, NoForeignContext
  <2> QED
    BY <2>7, <2>8, <2>9 DEF IInv
<1> QED
  BY <1>2, <1>3 DEF Tick

\* A step that changes nothing.
LEMMA StutterIInv ==
  ASSUME IInv, UNCHANGED vars
  PROVE  IInv'
BY DEF vars, listVars, procVars, bootVars, halVars, IInv, TypeOK, HalTypeOK,
   Locks, Locals, Creating, Asking, Ownership, NoForeignContext, Preemptible

-----------------------------------------------------------------------------
(* The theorems.                                                           *)

\* The inductive invariant holds in every reachable state.
THEOREM Invariance == Spec => []IInv
<1>1. Init => IInv
  BY InitIInv
<1>2. IInv /\ [Next]_vars => IInv'
  BY StepIInv, TickIInv, StutterIInv, NextCases
<1> QED
  BY <1>1, <1>2, PTL DEF Spec

\* Type correctness of the scheduler: every C object keeps a value of its type.
THEOREM TypeCorrect == Spec => []TypeOK
<1>1. IInv => TypeOK
  BY DEF IInv
<1> QED
  BY <1>1, Invariance, PTL

\* kinit's context is never saved over that of a process, no process's registers
\* are saved for another one, and what executes is p_current.
THEOREM ContextsAreOwned == Spec => []NoForeignContext
<1>1. IInv => NoForeignContext
  BY DEF IInv, Ownership
<1> QED
  BY <1>1, Invariance, PTL

\* A step of the kernel's code that computes nothing is at some other place of the
\* same context.
LEMMA StepKeepsWork ==
  ASSUME IInv, Step, ~ Work
  PROVE  /\ exec'.owner = exec.owner /\ exec'.work = exec.work
         /\ exec'.esp = exec.esp /\ exec'.pc # "lost"
<1>1. exec = [owner |-> exec.owner, pc |-> exec.pc, ret |-> exec.ret,
              new |-> exec.new, tmp |-> exec.tmp, work |-> exec.work,
              esp |-> exec.esp]
      /\ exec.ret # "lost"
  BY DEF IInv, TypeOK, Contexts, Returns
<1>2. CASE Create
  <2>1. CASE CreateCall \/ CreateNoProc \/ CreateFill \/ CreateNoRegs
    BY <1>1, <2>1 DEF CreateCall, CreateNoProc, CreateFill, CreateNoRegs,
       CallHeap, Goto
  <2>2. CASE CreateNumber
    BY <1>1, <2>2 DEF CreateNumber
  <2>3. CASE \E p \in Procs : CreateRegs(p)
    BY <1>1, <2>3 DEF CreateRegs
  <2> QED
    BY <1>2, <2>1, <2>2, <2>3 DEF Create
<1>3. CASE Schedule
  BY <1>1, <1>3 DEF Schedule, ScheduleBegin, ScheduleLink, ScheduleTail,
     ScheduleEnd, Goto
<1>4. CASE Call
  BY <1>1, <1>4 DEF Call, Kmalloc, IrqAdd, WaitBegin, BootDone, CallHeap, Goto
<1>5. CASE TakeLock
  <2>1. AfterCli(exec.pc) # "lost"
    BY <1>5 DEF TakeLock, AfterCli
  <2> QED
    BY <1>1, <1>5, <2>1 DEF TakeLock, Goto
<1>6. CASE Heap \/ IrqAlloc \/ IrqLink \/ WaitEnd
  BY <1>1, <1>6 DEF Heap, IrqAlloc, IrqLink, WaitEnd, CallHeap, Goto
<1> QED
  BY <1>2, <1>3, <1>4, <1>5, <1>6 DEF Step, Advance

\* A step of the kernel's code stays in its context.
LEMMA StepKeepsOwner ==
  ASSUME IInv, Step
  PROVE  exec'.owner = exec.owner
<1>1. CASE Work
  BY <1>1, WorkContext DEF IInv
<1>2. CASE ~ Work
  BY <1>2, StepKeepsWork
<1> QED
  BY <1>1, <1>2

\* The timer cannot take the processor inside a critical section, however the
\* sections of run list, heap and IRQ chains nest.
THEOREM CriticalSections == Spec => CriticalSectionsAtomic
<1>1. IInv /\ [Next]_vars => (exec.pc \in Critical => exec'.owner = exec.owner)
  <2> SUFFICES ASSUME IInv, [Next]_vars, exec.pc \in Critical
               PROVE  exec'.owner = exec.owner
    OBVIOUS
  <2>1. ~ interrupts
    BY DEF IInv, Locks
  <2>2. CASE Step
    BY <2>2, StepKeepsOwner
  <2>3. CASE Tick
    BY <2>1, <2>3 DEF Tick, TickAlone, TickSwitch, Preempts
  <2>4. CASE UNCHANGED vars
    BY <2>4 DEF vars
  <2> QED
    BY <2>2, <2>3, <2>4, NextCases
<1> QED
  BY <1>1, Invariance, PTL DEF CriticalSectionsAtomic, Spec

\* A step of the kernel's code leaves ESP where its pushes put it, and loses
\* nothing; the registers it writes are those of a new process.
LEMMA StepKeepsStack ==
  ASSUME IInv, Step
  PROVE  /\ Balanced(exec) => Balanced(exec')
         /\ exec'.pc # "lost"
         /\ regs' = regs \/ \E p \in Procs : regs' = [regs EXCEPT ![p] = Entry(p)]
<1>1. TypeOK /\ exec \in Contexts
  BY DEF IInv, TypeOK
<1>2. CASE Work
  <2>1. regs' = regs
    BY <1>2 DEF Work, procVars
  <2>2. exec'.pc # "lost"
    BY <1>1, <1>2, WorkContext DEF Work, At
  <2>3. ASSUME Balanced(exec) PROVE Balanced(exec')
    <3>1. /\ exec'.owner = exec.owner /\ exec'.esp.stack = <<exec.owner, "stack">>
          /\ exec'.esp.depth - Depth(exec.owner, exec'.work) = 0
      <4>1. exec.esp = [stack |-> <<exec.owner, "stack">>,
                        depth |-> Depth(exec.owner, exec.work)]
        BY <2>3 DEF Balanced
      <4>2. exec.esp.stack = <<exec.owner, "stack">>
        BY <4>1
      <4>3. exec.esp.depth = Depth(exec.owner, exec.work) /\ exec.esp.depth \in Int
        BY <1>1, <4>1 DEF Contexts, Addresses
      <4> QED
        BY <1>1, <1>2, <4>2, <4>3, WorkContext
    <3>2. /\ exec'.esp \in Addresses(Stacks)
          /\ Depth(exec.owner, exec'.work) \in Int
      BY <1>1, <1>2, WorkContext, BoundsAssumption DEF Contexts, Depth
    <3>3. exec'.esp.depth = Depth(exec.owner, exec'.work)
      BY <3>1, <3>2 DEF Addresses
    <3> QED
      BY <3>1, <3>2, <3>3 DEF Balanced, Addresses
  <2> QED
    BY <2>1, <2>2, <2>3
<1>3. CASE ~ Work
  <2>1. exec'.owner = exec.owner /\ exec'.work = exec.work /\ exec'.esp = exec.esp
    BY <1>3, StepKeepsWork
  <2>2. exec'.pc # "lost"
    BY <1>3, StepKeepsWork
  <2>3. regs' = regs \/ \E p \in Procs : regs' = [regs EXCEPT ![p] = Entry(p)]
    <3>1. CASE CreateNumber
      <4>1. exec.new \in Procs
        BY <3>1 DEF CreateNumber, At, IInv, TypeOK, Contexts, Locals, Creating
      <4> QED
        BY <3>1, <4>1 DEF CreateNumber
    <3>2. CASE ~ CreateNumber
      <4>1. CASE Create
        <5>1. CASE CreateCall \/ CreateNoProc \/ CreateFill \/ CreateNoRegs
          BY <5>1 DEF CreateCall, CreateNoProc, CreateFill, CreateNoRegs, procVars
        <5>2. CASE \E p \in Procs : CreateRegs(p)
          BY <5>2 DEF CreateRegs
        <5> QED
          BY <3>2, <4>1, <5>1, <5>2 DEF Create
      <4>2. CASE Schedule
        BY <4>2 DEF Schedule, ScheduleBegin, ScheduleLink, ScheduleTail,
           ScheduleEnd, procVars
      <4>3. CASE Call
        BY <4>3 DEF Call, Kmalloc, IrqAdd, WaitBegin, BootDone, procVars
      <4>4. CASE Advance
        BY <1>3, <4>4 DEF Advance, TakeLock, Heap, IrqAlloc, IrqLink, WaitEnd,
           procVars
      <4> QED
        BY <4>1, <4>2, <4>3, <4>4 DEF Step
    <3> QED
      BY <3>1, <3>2
  <2> QED
    BY <2>1, <2>2, <2>3 DEF Balanced
<1> QED
  BY <1>2, <1>3

-----------------------------------------------------------------------------
(* The inductive invariants, on top of IInv.                               *)

\* The processes process_create has numbered.
Numbered == allocated \
    (IF exec.pc \in {"sched_lock", "begin", "link", "tail", "end"} THEN {}
     ELSE {exec.new})

\* PIDs handed out are below the counter and differ; between the read and the
\* write of pid_counter nobody else has written it.
PidInv ==
    /\ \A p \in Numbered : pid[p] < pid_counter
    /\ \A p, q \in Numbered : p # q => pid[p] # pid[q]
    /\ At("number") => exec.tmp = pid_counter

\* The list, and the process that is about to be linked.
ListInv ==
    /\ RunList
    /\ exec.pc \in {"sched_lock", "begin", "link"} => next[exec.new] = POISON

-----------------------------------------------------------------------------
(* What can be interrupted.                                                *)

\* With interrupts on, no process is being created and no section is open.
LEMMA InterruptibleOK ==
  ASSUME IInv, interrupts
  PROVE  exec.new = POISON /\ exec.pc \notin Critical
BY ContextFacts DEF IInv, Locks, Locals, Creating, Labels, Returns, Critical

\* The timer interrupt changes neither what is listed nor what is numbered.
LEMMA TickKeepsListed ==
  ASSUME IInv, Tick
  PROVE  /\ Listed = allocated /\ Listed' = allocated
         /\ Numbered = allocated /\ Numbered' = allocated
         /\ exec.pc \notin Critical /\ exec'.pc \notin Critical
<1>1. p_current \in Procs /\ interrupts
  BY DEF IInv, TypeOK, Tick, TickAlone, TickSwitch, Preempts
<1>2. PICK p \in Procs : exec' = Load(p)
  BY <1>1 DEF Tick, TickAlone, TickSwitch, Preempts
<1>3. exec'.new = POISON /\ exec'.pc \notin Critical
  BY <1>2, LoadOK DEF Dispatched, Preemptible, Critical
<1>4. exec.new = POISON /\ exec.pc \notin Critical
  BY <1>1, InterruptibleOK
<1>5. allocated' = allocated /\ POISON \notin allocated
  BY ProcsAssumption
     DEF Tick, TickAlone, TickSwitch, Preempts, procVars, IInv, TypeOK
<1> QED
  BY <1>3, <1>4, <1>5 DEF Listed, Numbered, Critical

-----------------------------------------------------------------------------
(* PIDs.                                                                   *)

\* The steps of process_create and schedule_process that touch numbers; the
\* others leave Numbered, pid and pid_counter as they are.
LEMMA StepPids ==
  ASSUME IInv, PidInv, Step
  PROVE  PidInv'
<1> USE ContextFacts, ProcsAssumption DEF At, Goto, listVars, procVars, bootVars
<1>1. POISON \notin allocated /\ allocated \subseteq Procs
  BY DEF IInv, TypeOK
<1>2. ASSUME NEW p \in Procs, CreateRegs(p) PROVE PidInv'
  <2>1. exec.new = POISON
    BY <1>2 DEF CreateRegs, IInv, Locals, Creating
  <2>2. exec'.new = p /\ exec'.pc = "lock"
    BY <1>2 DEF CreateRegs, IInv, TypeOK, Contexts
  <2>3. Numbered' = Numbered
    BY <1>1, <1>2, <2>1, <2>2 DEF CreateRegs, Numbered
  <2> QED
    BY <1>2, <2>2, <2>3 DEF CreateRegs, PidInv
<1>3. CASE CreateNoRegs
  <2>1. exec'.new = POISON /\ exec'.pc = "lock"
    BY <1>3 DEF CreateNoRegs, IInv, TypeOK, Contexts
  <2>2. Numbered' = Numbered
    BY <1>1, <1>3, <2>1 DEF CreateNoRegs, Numbered
  <2> QED
    BY <1>3, <2>1, <2>2 DEF CreateNoRegs, PidInv
<1>4. CASE CreateFill
  <2>1. Numbered' = Numbered /\ exec'.tmp = pid_counter
    BY <1>4 DEF CreateFill, Numbered, IInv, TypeOK, Contexts
  <2> QED
    BY <1>4, <2>1 DEF CreateFill, PidInv
<1>5. CASE CreateNumber
  <2>1. exec.new \in allocated /\ exec.tmp = pid_counter
    BY <1>5 DEF CreateNumber, IInv, Locals, Creating, PidInv
  <2>2. exec'.pc = "sched_lock" /\ exec'.new = exec.new
    BY <1>5 DEF CreateNumber, IInv, TypeOK, Contexts
  <2>3. Numbered = allocated \ {exec.new} /\ Numbered' = allocated
    BY <1>5, <2>2 DEF CreateNumber, Numbered
  <2>4. /\ pid'[exec.new] = pid_counter /\ pid_counter' = pid_counter + 1
        /\ \A p \in Numbered : pid'[p] = pid[p]
    BY <1>1, <1>5, <2>1, <2>3 DEF CreateNumber, IInv, TypeOK
  <2>5. /\ pid_counter \in Nat
        /\ \A p \in Numbered : pid[p] \in Nat /\ pid[p] < pid_counter
    BY <1>1, <2>3 DEF IInv, TypeOK, PidInv
  <2>6. \A p \in Numbered : /\ pid'[p] < pid_counter'
                            /\ pid'[p] # pid'[exec.new]
    BY <2>4, <2>5
  <2>7. pid'[exec.new] < pid_counter'
    BY <2>4, <2>5
  <2>8. \A p, q \in Numbered : p # q => pid'[p] # pid'[q]
    BY <2>4 DEF PidInv
  <2> QED
    BY <2>1, <2>2, <2>3, <2>6, <2>7, <2>8 DEF PidInv
<1>6. CASE ScheduleEnd
  <2>1. Numbered' = Numbered /\ exec'.pc = "run"
    BY <1>1, <1>6 DEF ScheduleEnd, Numbered, IInv, TypeOK, Contexts
  <2> QED
    BY <1>6, <2>1 DEF ScheduleEnd, PidInv
<1>7. CASE ScheduleBegin \/ ScheduleLink \/ ScheduleTail
  <2>1. exec'.new = exec.new /\ exec'.pc \in {"link", "tail", "end"}
    BY <1>7 DEF ScheduleBegin, ScheduleLink, ScheduleTail, IInv, TypeOK,
       Contexts
  <2>2. Numbered' = Numbered
    BY <1>7, <2>1 DEF ScheduleBegin, ScheduleLink, ScheduleTail, Numbered
  <2> QED
    BY <1>7, <2>1, <2>2 DEF ScheduleBegin, ScheduleLink, ScheduleTail, PidInv
<1>8. CASE TakeLock
  <2>1. /\ exec'.new = exec.new /\ exec'.pc = AfterCli(exec.pc)
    BY <1>8 DEF TakeLock, IInv, TypeOK, Contexts
  <2>2. Numbered' = Numbered /\ exec'.pc # "number"
    BY <1>8, <2>1 DEF TakeLock, Numbered, AfterCli
  <2> QED
    BY <1>8, <2>2 DEF TakeLock, PidInv
<1>9. CASE CreateCall \/ CreateNoProc \/ Call \/ Heap \/ IrqAlloc \/ IrqLink
             \/ WaitEnd \/ Work
  <2>1. /\ exec'.new = exec.new
        /\ exec'.pc \in {"lock", "irq_lock", "wait", "idle"} \cup Returns
        /\ exec.pc \in {"run", "regs", "heap", "irq_alloc", "irq_link", "wait"}
        /\ UNCHANGED <<allocated, pid, pid_counter>>
    BY <1>9 DEF CreateCall, CreateNoProc, Call, Kmalloc, IrqAdd, WaitBegin,
       BootDone, Heap, IrqAlloc, IrqLink, WaitEnd, Work, CallHeap, MayCall,
       IInv, TypeOK, Contexts, Returns
  <2>2. Numbered' = Numbered
    BY <2>1 DEF Numbered, Returns
  <2> QED
    BY <2>1, <2>2 DEF PidInv, Returns
<1> QED
  BY <1>2, <1>3, <1>4, <1>5, <1>6, <1>7, <1>8, <1>9
     DEF Step, Create, Schedule, Advance

\* No two processes ever get one PID.
THEOREM UniquePids == Spec => []PidsUnique
<1>1. Init => PidInv
  BY DEF Init, PidInv, Numbered, At, Entry
<1>2. IInv /\ PidInv /\ [Next]_vars => PidInv'
  <2> SUFFICES ASSUME IInv, PidInv, [Next]_vars PROVE PidInv'
    OBVIOUS
  <2>1. CASE Step
    BY <2>1, StepPids
  <2>2. CASE Tick
    BY <2>2, TickKeepsListed
       DEF Tick, TickAlone, TickSwitch, Preempts, procVars, PidInv, At, Critical
  <2>3. CASE UNCHANGED vars
    BY <2>3 DEF vars, procVars, PidInv, Numbered, At
  <2> QED
    BY <2>1, <2>2, <2>3, NextCases
<1>3. PidInv => PidsUnique
  BY DEF PidInv, PidsUnique, Numbered, Listed
<1> QED
  BY <1>1, <1>2, <1>3, Invariance, PTL DEF Spec

-----------------------------------------------------------------------------
(* The run list.                                                           *)

\* n and q spell the list and name exactly the listed processes.
Spells(n, q) ==
    /\ Chain(n, q) /\ LastOf(n, q)
    /\ \A p \in Procs : p \in Listed <=> \E i \in 1 .. n : q[i] = p

\* q with p behind it, and q with its head moved to the end.
Appended(n, q, p) == [i \in 1 .. n + 1 |-> IF i = n + 1 THEN p ELSE q[i]]
Rotated(n, q) == [i \in 1 .. n |-> IF i = n THEN q[1] ELSE q[i + 1]]

\* A list without repetition is no longer than there are processes.
LEMMA NoLongerThanProcs ==
  ASSUME NEW n \in Nat, NEW q \in [1 .. n -> Procs],
         \A i, j \in 1 .. n : q[i] = q[j] => i = j
  PROVE  n \in 0 .. Cardinality(Procs)
<1>1. q \in Injection(1 .. n, Procs)
  BY Fun_IsInj
<1>2. Cardinality(1 .. n) <= Cardinality(Procs)
  BY <1>1, FS_Injection, ProcsAssumption
<1>3. Cardinality(1 .. n) = n
  BY FS_Interval
<1>4. Cardinality(Procs) \in Nat
  BY FS_CardinalityType, ProcsAssumption
<1> QED
  BY <1>2, <1>3, <1>4

\* So any such spelling shows RunList.
LEMMA SpellsRunList ==
  ASSUME NEW n \in Nat, NEW q \in [1 .. n -> Procs], Spells(n, q)'
  PROVE  RunList'
<1>1. n \in 0 .. Cardinality(Procs)
  BY NoLongerThanProcs DEF Spells, Chain
<1> QED
  BY <1>1 DEF Spells, RunList

LEMMA RunListSpells ==
  ASSUME RunList
  PROVE  \E n \in Nat : \E q \in [1 .. n -> Procs] : Spells(n, q)
<1>1. Cardinality(Procs) \in Nat
  BY FS_CardinalityType, ProcsAssumption
<1>2. 0 .. Cardinality(Procs) \subseteq Nat
  BY <1>1
<1> QED
  BY <1>2 DEF RunList, Spells

\* Pointers, listed processes and the step of schedule_process unchanged: the
\* same list.
LEMMA SameList ==
  ASSUME RunList, UNCHANGED listVars, Listed' = Listed, ~ At("tail"),
         ~ At("tail")'
  PROVE  RunList'
BY DEF RunList, Chain, LastOf, listVars

\* The steps that leave the list alone.
LEMMA QuietSteps ==
  ASSUME IInv, ListInv, Step,
         ~ CreateNumber, ~ ScheduleLink, ~ ScheduleTail, ~ ScheduleEnd
  PROVE  ListInv'
<1> USE ContextFacts, ProcsAssumption DEF At, Goto, bootVars
<1>1. POISON \notin allocated /\ allocated \subseteq Procs
  BY DEF IInv, TypeOK
<1>q. UNCHANGED listVars /\ exec.pc \notin {"tail", "end"}
  <2>1. CASE CreateCall \/ CreateNoProc \/ CreateFill \/ CreateNoRegs
    BY <2>1 DEF CreateCall, CreateNoProc, CreateFill, CreateNoRegs
  <2>2. CASE \E p \in Procs : CreateRegs(p)
    BY <2>2 DEF CreateRegs
  <2>3. CASE ScheduleBegin \/ Call
    BY <2>3 DEF ScheduleBegin, Call, Kmalloc, IrqAdd, WaitBegin, BootDone, MayCall
  <2>4. CASE Advance
    BY <2>4, WorkOnly DEF Advance, TakeLock, Heap, IrqAlloc, IrqLink, WaitEnd
  <2> QED
    BY <2>1, <2>2, <2>3, <2>4 DEF Step, Create, Schedule
<1>2. UNCHANGED listVars
  BY <1>q
<1>3. exec.pc \notin {"tail", "end"}
  BY <1>q
<1>4. Listed = allocated \ {exec.new}
  BY <1>3 DEF Listed
<1>5. ASSUME NEW p \in Procs, CreateRegs(p) PROVE ListInv'
  <2>1. exec.new = POISON
    BY <1>5 DEF CreateRegs, IInv, Locals, Creating
  <2>2. exec'.new = p /\ exec'.pc = "lock"
    BY <1>5 DEF CreateRegs, IInv, TypeOK, Contexts
  <2>3. Listed' = Listed
    BY <1>1, <1>4, <1>5, <2>1, <2>2 DEF CreateRegs, Listed
  <2> QED
    BY <1>2, <1>3, <2>2, <2>3, SameList DEF ListInv
<1>6. CASE CreateNoRegs
  <2>1. exec'.new = POISON /\ exec'.pc = "lock"
    BY <1>6 DEF CreateNoRegs, IInv, TypeOK, Contexts
  <2>2. Listed' = Listed
    BY <1>1, <1>4, <1>6, <2>1 DEF CreateNoRegs, Listed
  <2> QED
    BY <1>2, <1>3, <2>1, <2>2, SameList DEF ListInv
<1>7. CASE ScheduleBegin \/ TakeLock
  <2>1. /\ exec'.new = exec.new /\ allocated' = allocated
        /\ exec'.pc \in {"heap", "irq_alloc", "begin", "link"}
        /\ exec'.pc \in {"begin", "link"} => exec.pc \in {"sched_lock", "begin"}
    BY <1>7 DEF ScheduleBegin, TakeLock, AfterCli, IInv, TypeOK, Contexts,
       procVars
  <2>2. Listed' = Listed
    BY <1>4, <2>1 DEF Listed
  <2> QED
    BY <1>2, <1>3, <2>1, <2>2, SameList DEF ListInv, listVars
<1>8. CASE CreateCall \/ CreateNoProc \/ CreateFill \/ Call \/ Heap
             \/ IrqAlloc \/ IrqLink \/ WaitEnd \/ Work
  <2>1. /\ exec'.new = exec.new /\ allocated' = allocated
        /\ exec'.pc \in {"lock", "irq_lock", "wait", "idle", "number"}
                           \cup Returns
    BY <1>8 DEF CreateCall, CreateNoProc, CreateFill, Call, Kmalloc, IrqAdd,
       WaitBegin, BootDone, Heap, IrqAlloc, IrqLink, WaitEnd, Work, CallHeap,
       IInv, TypeOK, Contexts, Returns, procVars
  <2>2. Listed' = Listed
    BY <1>4, <2>1 DEF Listed, Returns
  <2> QED
    BY <1>2, <1>3, <2>1, <2>2, SameList DEF ListInv, Returns
<1> QED
  BY <1>5, <1>6, <1>7, <1>8 DEF Step, Create, Schedule, Advance

\* process_create clears the next pointer of a process not yet in the list.
LEMMA NumberSpells ==
  ASSUME IInv, CreateNumber,
         NEW n \in Nat, NEW q \in [1 .. n -> Procs], Spells(n, q)
  PROVE  Spells(n, q)'
<1> USE ContextFacts DEF At
<1>1. /\ exec.pc = "number" /\ exec.new \in Procs
      /\ p_current' = p_current /\ p_last' = p_last
  BY DEF CreateNumber, IInv, Locals, Creating, TypeOK
<1>2. exec'.pc = "sched_lock" /\ exec'.new = exec.new
  BY DEF CreateNumber, IInv, TypeOK, Contexts
<1>3. /\ Listed' = Listed /\ exec.new \notin Listed
  BY <1>1, <1>2 DEF CreateNumber, Listed
<1>4. /\ next'[exec.new] = POISON
      /\ \A p \in Procs \ {exec.new} : next'[p] = next[p]
  BY <1>1 DEF CreateNumber, IInv, TypeOK
<1>5. Spells(n, q)
  OBVIOUS
<1>6. \A i \in 1 .. n : next'[q[i]] = next[q[i]]
  BY <1>1, <1>3, <1>4, <1>5 DEF Spells
<1>7. Chain(n, q)'
  BY <1>1, <1>5, <1>6 DEF Spells, Chain
<1>8. LastOf(n, q)'
  BY <1>1, <1>2, <1>5 DEF Spells, LastOf
<1> QED
  BY <1>3, <1>5, <1>7, <1>8 DEF Spells

LEMMA NumberList ==
  ASSUME IInv, ListInv, CreateNumber
  PROVE  ListInv'
<1>1. PICK n \in Nat : \E q \in [1 .. n -> Procs] : Spells(n, q)
  BY RunListSpells DEF ListInv
<1>2. \E q \in [1 .. n -> Procs] : Spells(n, q)'
  BY <1>1, NumberSpells
<1>3. RunList'
  BY <1>2, SpellsRunList
<1>4. exec.new \in Procs /\ exec'.new = exec.new
  BY ContextFacts
     DEF At, CreateNumber, IInv, Locals, Creating, TypeOK, Contexts
<1>5. next'[exec.new] = POISON
  BY <1>4 DEF CreateNumber, IInv, TypeOK
<1> QED
  BY <1>3, <1>4, <1>5 DEF ListInv

\* schedule_process links the new process behind the last one.
LEMMA LinkSpells ==
  ASSUME IInv, ListInv, ScheduleLink,
         NEW n \in Nat, NEW q \in [1 .. n -> Procs], Spells(n, q)
  PROVE  \E r \in [1 .. n + 1 -> Procs] :
            r = Appended(n, q, exec.new) /\ Spells(n + 1, r)'
<1> USE ContextFacts, ProcsAssumption DEF At, Goto
<1>1. /\ exec.pc = "link" /\ exec.new \in Procs /\ exec.new \in allocated
      /\ next[exec.new] = POISON /\ allocated' = allocated
      /\ p_last' = p_last /\ allocated \subseteq Procs
  BY DEF ScheduleLink, IInv, Locals, Creating, TypeOK, ListInv, procVars
<1>2. exec'.new = exec.new /\ exec'.pc \in {"tail", "end"}
  BY DEF ScheduleLink, IInv, TypeOK, Contexts
<1>3. Listed = allocated \ {exec.new} /\ Listed' = allocated
  BY <1>1, <1>2 DEF Listed
<1>4. Spells(n, q)
  OBVIOUS
<1>5. \A i \in 1 .. n : q[i] # exec.new
  BY <1>1, <1>3, <1>4 DEF Spells
<1>6. PICK r \in [1 .. n + 1 -> Procs] :
          r = Appended(n, q, exec.new)
  <2>1. Appended(n, q, exec.new) \in [1 .. n + 1 -> Procs]
    <3>1. \A i \in 1 .. n + 1 : i # n + 1 => i \in 1 .. n
      OBVIOUS
    <3> QED
      BY <1>1, <3>1 DEF Appended
  <2> QED
    BY <2>1
<1>7. /\ r[n + 1] = exec.new /\ n + 1 \in Nat
      /\ \A i \in 1 .. n : r[i] = q[i] /\ i \in 1 .. n + 1
      /\ \A i \in 1 .. n + 1 : i = n + 1 \/ i \in 1 .. n
  BY <1>6 DEF Appended
<1>8. \A i, j \in 1 .. n + 1 : r[i] = r[j] => i = j
  BY <1>4, <1>5, <1>7 DEF Spells, Chain
<1>9. \A p \in Procs : p \in Listed' <=> \E i \in 1 .. n + 1 : r[i] = p
  BY <1>1, <1>3, <1>4, <1>7 DEF Spells
<1>10. CASE p_current = POISON
  <2>1. n = 0
    <3>1. n # 0 => q[1] \in Procs
      OBVIOUS
    <3> QED
      BY <1>4, <1>10, <3>1 DEF Spells, Chain
  <2>2. p_current' = exec.new /\ next' = next /\ exec'.pc = "end"
    BY <1>10 DEF ScheduleLink, IInv, TypeOK, Contexts
  <2>3. Chain(n + 1, r)'
    BY <1>1, <1>7, <1>8, <2>1, <2>2 DEF Chain
  <2>4. LastOf(n + 1, r)'
    BY <1>1, <1>4, <2>1, <2>2 DEF Spells, LastOf
  <2> QED
    BY <1>6, <1>9, <2>3, <2>4 DEF Spells
<1>11. CASE p_current # POISON
  <2>1. n >= 1
    BY <1>4, <1>11 DEF Spells, Chain
  <2>2. q[n] = IF p_last = POISON THEN p_current ELSE p_last
    <3>1. q[1] \in Procs /\ q[n] \in Procs
      BY <2>1
    <3> QED
      BY <1>1, <1>4, <2>1, <3>1 DEF Spells, Chain, LastOf
  <2>3. /\ p_current' = p_current /\ exec'.pc = "tail"
        /\ next' = [next EXCEPT ![q[n]] = exec.new]
    BY <1>11, <2>2 DEF ScheduleLink, IInv, TypeOK, Contexts
  <2>4. /\ next'[q[n]] = exec.new /\ q[n] \in Procs /\ n \in 1 .. n
        /\ \A p \in Procs : p # q[n] => next'[p] = next[p]
    BY <1>1, <2>1, <2>3 DEF IInv, TypeOK
  <2>5. \A i \in 1 .. n : i # n => next'[r[i]] = r[i + 1]
    <3> SUFFICES ASSUME NEW i \in 1 .. n, i # n
                 PROVE  next'[r[i]] = r[i + 1]
      OBVIOUS
    <3>1. i + 1 \in 1 .. n /\ q[i] # q[n] /\ q[i] \in Procs
      BY <1>4, <2>4 DEF Spells, Chain
    <3>2. next[q[i]] = q[i + 1]
      BY <1>4 DEF Spells, Chain
    <3> QED
      BY <1>7, <2>4, <3>1, <3>2
  <2>6. next'[r[n]] = r[n + 1]
    BY <1>7, <2>4
  <2>7. next'[r[n + 1]] = POISON
    BY <1>1, <1>5, <1>7, <2>4
  <2>8. \A i \in 1 .. n + 1 :
           next'[r[i]] = IF i = n + 1 THEN POISON ELSE r[i + 1]
    BY <1>7, <2>5, <2>6, <2>7
  <2>9. r[1] = q[1] /\ p_current' = r[1]
    BY <1>4, <1>7, <2>1, <2>3 DEF Spells, Chain
  <2>10. Chain(n + 1, r)'
    BY <1>8, <2>8, <2>9, <2>1 DEF Chain
  <2>11. LastOf(n + 1, r)'
    <3>1. p_last = IF n <= 1 THEN POISON ELSE r[n]
      BY <1>1, <1>4, <1>7, <2>4 DEF Spells, LastOf
    <3> QED
      BY <1>1, <1>2, <1>7, <2>1, <2>3, <3>1 DEF LastOf
  <2> QED
    BY <1>6, <1>9, <2>10, <2>11 DEF Spells
<1> QED
  BY <1>10, <1>11

LEMMA LinkList ==
  ASSUME IInv, ListInv, ScheduleLink
  PROVE  ListInv'
<1>1. PICK n \in Nat : \E q \in [1 .. n -> Procs] : Spells(n, q)
  BY RunListSpells DEF ListInv
<1>2. \E r \in [1 .. n + 1 -> Procs] : Spells(n + 1, r)'
  BY <1>1, LinkSpells
<1>3. n + 1 \in Nat
  OBVIOUS
<1>4. RunList'
  BY <1>2, <1>3, SpellsRunList
<1>5. exec'.pc \in {"tail", "end"}
  BY DEF ScheduleLink, Goto, IInv, TypeOK, Contexts
<1> QED
  BY <1>4, <1>5 DEF ListInv

\* The second pointer write: p_last catches up.
LEMMA TailList ==
  ASSUME IInv, ListInv, ScheduleTail
  PROVE  ListInv'
<1> USE ContextFacts DEF At, Goto
<1>1. exec.pc = "tail" /\ exec'.pc = "end"
  BY DEF ScheduleTail, IInv, TypeOK, Contexts
<1>2. Listed' = Listed
  BY <1>1 DEF ScheduleTail, Listed, procVars
<1>3. RunList'
  BY <1>1, <1>2 DEF ScheduleTail, ListInv, RunList, Chain, LastOf
<1> QED
  BY <1>1, <1>3 DEF ListInv

\* The end of schedule_process.
LEMMA EndList ==
  ASSUME IInv, ListInv, ScheduleEnd
  PROVE  ListInv'
<1> USE ContextFacts, ProcsAssumption DEF At
<1>1. exec.pc = "end" /\ exec'.pc = "run" /\ exec'.new = POISON
  BY DEF ScheduleEnd, IInv, TypeOK, Contexts
<1>2. Listed' = Listed
  BY <1>1 DEF ScheduleEnd, Listed, procVars, IInv, TypeOK
<1>3. UNCHANGED listVars
  BY DEF ScheduleEnd
<1> QED
  BY <1>1, <1>2, <1>3, SameList DEF ListInv

\* scheduler_preempt moves the head to the tail.
LEMMA SwitchSpells ==
  ASSUME IInv, ListInv, TickSwitch,
         NEW n \in Nat, NEW q \in [1 .. n -> Procs], Spells(n, q)
  PROVE  /\ n >= 2 /\ p_current' = q[2]
         /\ \E r \in [1 .. n -> Procs] : r = Rotated(n, q) /\ Spells(n, r)'
<1> USE ProcsAssumption DEF At
<1>1. /\ p_current \in Procs /\ next[p_current] # POISON
      /\ next \in [Procs -> Procs \cup {POISON}]
  BY DEF TickSwitch, Preempts, IInv, TypeOK
<1>2. Tick
  BY DEF Tick
<1>3. /\ exec.pc \notin Critical /\ exec'.pc \notin Critical
      /\ Listed' = Listed
  BY <1>2, TickKeepsListed
<1>5. Spells(n, q)
  OBVIOUS
<1>6. n >= 2 /\ q[1] = p_current /\ p_last = q[n]
  BY <1>1, <1>3, <1>5 DEF Spells, Chain, LastOf, Critical
<1>7. /\ \A i \in 1 .. n : q[i] \in Procs
      /\ \A i \in 1 .. n : i # n => next[q[i]] = q[i + 1]
      /\ \A i, j \in 1 .. n : q[i] = q[j] => i = j
      /\ 1 \in 1 .. n /\ 2 \in 1 .. n /\ n \in 1 .. n /\ 1 # n
  BY <1>5, <1>6 DEF Spells, Chain
<1>8. p_last \in Procs /\ p_last # POISON /\ p_last # p_current
  BY <1>6, <1>7
<1>9. /\ next'[q[n]] = q[1] /\ next'[q[1]] = POISON
      /\ \A p \in Procs : p # q[n] /\ p # q[1] => next'[p] = next[p]
      /\ p_last' = q[1] /\ p_current' = q[2]
  <2>1. next[q[1]] = q[2]
    BY <1>7
  <2>2. PICK new \in Procs : RotateList(new)
    BY DEF TickSwitch
  <2> QED
    BY <1>1, <1>6, <1>8, <2>1, <2>2 DEF RotateList
<1>10. PICK r \in [1 .. n -> Procs] : r = Rotated(n, q)
  <2>1. Rotated(n, q) \in [1 .. n -> Procs]
    <3>1. \A i \in 1 .. n : i # n => i + 1 \in 1 .. n
      OBVIOUS
    <3> QED
      BY <1>7, <3>1 DEF Rotated
  <2> QED
    BY <2>1
<1>11. /\ r[n] = q[1]
       /\ \A i \in 1 .. n : i # n => r[i] = q[i + 1] /\ i + 1 \in 1 .. n
  BY <1>7, <1>10 DEF Rotated
<1>12. \A i, j \in 1 .. n : r[i] = r[j] => i = j
  <2> SUFFICES ASSUME NEW i \in 1 .. n, NEW j \in 1 .. n, r[i] = r[j], i # j
               PROVE  FALSE
    OBVIOUS
  <2>1. CASE i # n /\ j # n
    BY <1>7, <1>11, <2>1
  <2>2. CASE i = n \/ j = n
    BY <1>7, <1>11, <2>2
  <2> QED
    BY <2>1, <2>2
<1>13. \A p \in Procs : (\E i \in 1 .. n : r[i] = p) <=> \E i \in 1 .. n : q[i] = p
  <2>1. \A i \in 1 .. n : \E j \in 1 .. n : r[i] = q[j]
    BY <1>7, <1>11
  <2>2. \A j \in 1 .. n : j # 1 => j - 1 \in 1 .. n /\ r[j - 1] = q[j]
    BY <1>11
  <2>3. \A j \in 1 .. n : \E i \in 1 .. n : r[i] = q[j]
    BY <1>7, <1>11, <2>2
  <2> QED
    BY <2>1, <2>3
<1>14. \A i \in 1 .. n : next'[r[i]] = IF i = n THEN POISON ELSE r[i + 1]
  <2> SUFFICES ASSUME NEW i \in 1 .. n
               PROVE  next'[r[i]] = IF i = n THEN POISON ELSE r[i + 1]
    OBVIOUS
  <2>1. CASE i = n
    BY <1>9, <1>11, <2>1
  <2>2. CASE i # n /\ i + 1 = n
    BY <1>9, <1>11, <2>2
  <2>3. CASE i # n /\ i + 1 # n
    <3>1. r[i] = q[i + 1] /\ i + 1 \in 1 .. n /\ i + 2 \in 1 .. n
      BY <1>11, <2>3
    <3>2. r[i + 1] = q[i + 2]
      BY <1>11, <2>3, <3>1
    <3>3. next[q[i + 1]] = q[i + 2]
      BY <1>7, <2>3, <3>1
    <3>4. q[i + 1] # q[n] /\ q[i + 1] # q[1] /\ q[i + 1] \in Procs
      BY <1>7, <2>3, <3>1
    <3> QED
      BY <1>9, <2>3, <3>1, <3>2, <3>3, <3>4
  <2> QED
    BY <2>1, <2>2, <2>3
<1>15. r[1] = q[2]
  BY <1>7, <1>11
<1>16. Chain(n, r)'
  <2>1. p_current' = IF n = 0 THEN POISON ELSE r[1]
    BY <1>6, <1>9, <1>15
  <2> QED
    BY <1>12, <1>14, <2>1 DEF Chain
<1>17. LastOf(n, r)'
  BY <1>3, <1>6, <1>9, <1>11 DEF LastOf, Critical
<1>18. \A p \in Procs : p \in Listed' <=> \E i \in 1 .. n : r[i] = p
  BY <1>3, <1>5, <1>13 DEF Spells
<1> QED
  BY <1>6, <1>9, <1>10, <1>16, <1>17, <1>18 DEF Spells

LEMMA SwitchList ==
  ASSUME IInv, ListInv, TickSwitch
  PROVE  ListInv'
<1>1. PICK n \in Nat : \E q \in [1 .. n -> Procs] : Spells(n, q)
  BY RunListSpells DEF ListInv
<1>2. \E r \in [1 .. n -> Procs] : Spells(n, r)'
  BY <1>1, SwitchSpells
<1>3. RunList'
  BY <1>2, SpellsRunList
<1>4. exec'.pc \notin Critical
  BY TickKeepsListed DEF Tick
<1> QED
  BY <1>3, <1>4 DEF ListInv, At, Critical

\* The kernel starts with the empty list.
LEMMA InitList == Init => ListInv
<1> SUFFICES ASSUME Init PROVE ListInv
  OBVIOUS
<1>1. exec.pc = "run" /\ Listed = {} /\ p_current = POISON /\ p_last = POISON
  BY DEF Init, Entry, Listed
<1>2. 0 \in 0 .. Cardinality(Procs)
  BY FS_CardinalityType, ProcsAssumption
<1>3. PICK q \in [1 .. 0 -> Procs] : TRUE
  <2>1. [i \in 1 .. 0 |-> POISON] \in [1 .. 0 -> Procs]
    OBVIOUS
  <2> QED
    BY <2>1
<1>4. Chain(0, q) /\ LastOf(0, q)
  BY <1>1 DEF Chain, LastOf, At
<1>5. \A p \in Procs : p \in Listed <=> \E i \in 1 .. 0 : q[i] = p
  BY <1>1
<1> QED
  BY <1>1, <1>2, <1>4, <1>5 DEF ListInv, RunList

\* The list and the process about to be linked stay as ListInv says.
LEMMA ListInvariance == Spec => []ListInv
<1>1. IInv /\ ListInv /\ [Next]_vars => ListInv'
  <2> SUFFICES ASSUME IInv, ListInv, [Next]_vars PROVE ListInv'
    OBVIOUS
  <2>1. CASE Step
    BY <2>1, QuietSteps, NumberList, LinkList, TailList, EndList
  <2>2. CASE TickAlone
    <3>1. /\ UNCHANGED listVars /\ Listed' = Listed
          /\ exec.pc \notin Critical /\ exec'.pc \notin Critical
      BY <2>2, TickKeepsListed DEF Tick, TickAlone
    <3>2. ~ At("tail") /\ ~ At("tail")'
      BY <3>1 DEF At, Critical
    <3>3. RunList'
      BY <3>1, <3>2, SameList DEF ListInv
    <3> QED
      BY <3>1, <3>3 DEF ListInv, Critical
  <2>3. CASE TickSwitch
    BY <2>3, SwitchList
  <2>4. CASE UNCHANGED vars
    <3>1. UNCHANGED <<exec, next>> /\ Listed' = Listed /\ UNCHANGED listVars
      BY <2>4 DEF vars, listVars, procVars, Listed
    <3>a. ASSUME NEW n, NEW q, Chain(n, q), LastOf(n, q)
          PROVE  Chain(n, q)' /\ LastOf(n, q)'
      <4>1. Chain(n, q)'
        BY <3>1, <3>a DEF Chain, listVars
      <4>2. LastOf(n, q)'
        BY <3>1, <3>a DEF LastOf, At, listVars
      <4> QED
        BY <4>1, <4>2
    <3>2. RunList'
      BY <3>1, <3>a DEF ListInv, RunList
    <3> QED
      BY <3>1, <3>2 DEF ListInv
  <2> QED
    BY <2>1, <2>2, <2>3, <2>4, NextCases DEF Tick
<1> QED
  BY <1>1, InitList, Invariance, PTL DEF Spec

\* For any number of processes, created and failed in any order, between any
\* preemptions: scheduler.c's pointers spell one list, without a cycle, of
\* exactly the scheduled processes, and p_last is its tail.
THEOREM RunListIntegrity == Spec => []RunList
<1>1. ListInv => RunList
  BY DEF ListInv
<1> QED
  BY <1>1, ListInvariance, PTL

-----------------------------------------------------------------------------
(* The pointers determine the list.                                        *)

\* Every nonempty set of naturals has a least element.
LEMMA LeastElement ==
  ASSUME NEW T, T \subseteq Nat, T # {}
  PROVE  \E m \in T : \A n \in T : m <= n
<1> DEFINE R == {pair \in Nat \X Nat : pair[1] < pair[2]}
<1>1. IsWellFoundedOn(R, Nat)
  BY NatLessThanWellFounded, Zenon DEF OpToRel
<1>2. \A m, n \in Nat : n < m => <<n, m>> \in R
  OBVIOUS
<1> HIDE DEF R
<1>3. PICK m \in T : \A n \in T : ~ (<<n, m>> \in R)
  BY <1>1, WFMin
<1>4. \A n \in T : m \in Nat /\ n \in Nat /\ ~ (n < m)
  BY <1>2, <1>3
<1> QED
  BY <1>4

\* Chain, of any head and links.
Linked(head, links, n, q) ==
    /\ head = IF n = 0 THEN POISON ELSE q[1]
    /\ \A i \in 1 .. n : links[q[i]] = IF i = n THEN POISON ELSE q[i + 1]
    /\ \A i, j \in 1 .. n : q[i] = q[j] => i = j

\* Of two lists with one head and the same links, each begins with the other:
\* at the least place where they differ they would have the same predecessor.
LEMMA SamePrefix ==
  ASSUME NEW head, NEW links,
         NEW n \in Nat, NEW q \in [1 .. n -> Procs], Linked(head, links, n, q),
         NEW m \in Nat, NEW r \in [1 .. m -> Procs], Linked(head, links, m, r)
  PROVE  \A i \in 1 .. n : i \in 1 .. m /\ r[i] = q[i]
<1> USE ProcsAssumption
<1> DEFINE T == {i \in 1 .. n : ~ (i \in 1 .. m /\ r[i] = q[i])}
<1> SUFFICES ASSUME T # {} PROVE FALSE
  OBVIOUS
<1>1. PICK t \in T : \A i \in T : t <= i
  <2>1. T \subseteq Nat
    OBVIOUS
  <2> HIDE DEF T
  <2> QED
    BY <2>1, LeastElement
<1>2. t \in 1 .. n /\ ~ (t \in 1 .. m /\ r[t] = q[t])
  OBVIOUS
<1>3. q[t] \in Procs /\ q[t] # POISON
  BY <1>2
<1>4. CASE t = 1
  <2>1. head = q[1] /\ head # POISON
    BY <1>2, <1>3, <1>4 DEF Linked
  <2>2. m # 0 /\ r[1] = q[1]
    BY <2>1 DEF Linked
  <2> QED
    BY <1>2, <1>4, <2>2
<1>5. CASE t # 1
  <2>1. t - 1 \in 1 .. n /\ t - 1 \notin T /\ t - 1 # n
    BY <1>1, <1>2, <1>5
  <2>2. t - 1 \in 1 .. m /\ r[t - 1] = q[t - 1]
    BY <2>1
  <2>3. links[q[t - 1]] = q[t]
    BY <1>2, <2>1 DEF Linked
  <2>4. links[r[t - 1]] = IF t - 1 = m THEN POISON ELSE r[t]
    BY <1>2, <2>2 DEF Linked
  <2>5. t - 1 # m /\ r[t] = q[t]
    BY <1>3, <2>2, <2>3, <2>4
  <2> QED
    BY <1>2, <2>2, <2>5
<1> QED
  BY <1>4, <1>5

\* The queue those pointers mean.
QueueOf(head, links) == CHOOSE q \in Sequences : Linked(head, links, Len(q), q)

\* It is the one list they spell.
LEMMA QueueIs ==
  ASSUME NEW head, NEW links,
         NEW n \in Nat, NEW q \in [1 .. n -> Procs], Linked(head, links, n, q)
  PROVE  /\ QueueOf(head, links) = q
         /\ q \in Seq(Procs) /\ Len(q) = n
<1>1. q \in Seq(Procs)
  BY SeqDef
<1>2. Len(q) = n
  BY <1>1, LenProperties
<1>3. n \in 0 .. Cardinality(Procs)
  BY NoLongerThanProcs DEF Linked
<1>4. q \in Sequences
  BY <1>3 DEF Sequences
<1> DEFINE r == QueueOf(head, links)
<1>5. r \in Sequences /\ Linked(head, links, Len(r), r)
  BY <1>2, <1>4 DEF QueueOf
<1>6. PICK m \in 0 .. Cardinality(Procs) : r \in [1 .. m -> Procs]
  BY <1>5 DEF Sequences
<1>7. Cardinality(Procs) \in Nat
  BY FS_CardinalityType, ProcsAssumption
<1>8. m \in Nat /\ r \in Seq(Procs)
  BY <1>6, <1>7, SeqDef
<1>9. Len(r) = m
  BY <1>6, <1>8, LenProperties
<1>10. Linked(head, links, m, r)
  BY <1>5, <1>9
<1> HIDE DEF r
<1>11. \A i \in 1 .. n : i \in 1 .. m /\ r[i] = q[i]
  BY <1>6, <1>8, <1>10, SamePrefix
<1>12. \A i \in 1 .. m : i \in 1 .. n /\ q[i] = r[i]
  BY <1>6, <1>8, <1>10, SamePrefix
<1>13. n = m
  <2>1. n # 0 => n \in 1 .. n
    OBVIOUS
  <2>2. m # 0 => m \in 1 .. m
    BY <1>8
  <2> QED
    BY <1>8, <1>11, <1>12, <2>1, <2>2
<1>14. r = q
  BY <1>6, <1>11, <1>13
<1> QED
  BY <1>1, <1>2, <1>14 DEF r

\* The refinement mapping of Scheduler, before and after a step.
LEMMA QueueNow ==
  /\ Queue = QueueOf(p_current, next)
  /\ Queue' = QueueOf(p_current', next')
  /\ \A n, q : Chain(n, q) <=> Linked(p_current, next, n, q)
  /\ \A n, q : Chain(n, q)' <=> Linked(p_current', next', n, q)
BY DEF Queue, QueueOf, Chain, Linked

LEMMA QueueSpelled ==
  ASSUME NEW n \in Nat, NEW q \in [1 .. n -> Procs], Chain(n, q)
  PROVE  Queue = q /\ q \in Seq(Procs) /\ Len(q) = n
<1>1. Linked(p_current, next, n, q)
  BY QueueNow
<1> QED
  BY <1>1, QueueIs, QueueNow

LEMMA QueueSpelledNext ==
  ASSUME NEW n \in Nat, NEW q \in [1 .. n -> Procs], Chain(n, q)'
  PROVE  Queue' = q /\ q \in Seq(Procs) /\ Len(q) = n
<1>1. Linked(p_current', next', n, q)
  BY QueueNow
<1> QED
  BY <1>1, QueueIs, QueueNow

-----------------------------------------------------------------------------
(* What a step of the kernel is to the queue.                              *)

\* The list as a sequence of processes: behind it, and its head moved to its
\* end.
LEMMA AppendedIs ==
  ASSUME NEW n \in Nat, NEW q \in Seq(Procs), Len(q) = n, NEW p \in Procs
  PROVE  Append(q, p) = Appended(n, q, p)
<1>1. /\ Append(q, p) \in Seq(Procs) /\ Len(Append(q, p)) = n + 1
      /\ \A i \in 1 .. n : Append(q, p)[i] = q[i]
      /\ Append(q, p)[n + 1] = p
  BY AppendProperties
<1>2. Append(q, p) \in [1 .. n + 1 -> Procs]
  BY <1>1, LenProperties
<1>3. \A i \in 1 .. n + 1 : Append(q, p)[i] = IF i = n + 1 THEN p ELSE q[i]
  BY <1>1
<1> QED
  BY <1>2, <1>3 DEF Appended

LEMMA RotatedIs ==
  ASSUME NEW n \in Nat, n >= 1, NEW q \in Seq(Procs), Len(q) = n
  PROVE  q # <<>> /\ Append(Tail(q), Head(q)) = Rotated(n, q)
<1>1. q # <<>> /\ Head(q) = q[1] /\ q[1] \in Procs
  <2>1. q \in [1 .. n -> Procs] /\ 1 \in 1 .. n
    BY LenProperties
  <2> QED
    BY <2>1, EmptySeq
<1>2. /\ Tail(q) \in Seq(Procs) /\ Len(Tail(q)) = n - 1
      /\ \A i \in 1 .. n - 1 : Tail(q)[i] = q[i + 1]
  BY <1>1, HeadTailProperties
<1>3. n - 1 \in Nat
  OBVIOUS
<1>4. Append(Tail(q), Head(q)) = Appended(n - 1, Tail(q), q[1])
  BY <1>1, <1>2, <1>3, AppendedIs
<1>5. Appended(n - 1, Tail(q), q[1]) = Rotated(n, q)
  <2>1. (n - 1) + 1 = n
    OBVIOUS
  <2>2. \A i \in 1 .. n : (IF i = n THEN q[1] ELSE Tail(q)[i])
                             = (IF i = n THEN q[1] ELSE q[i + 1])
    BY <1>2
  <2> QED
    BY <2>1, <2>2 DEF Appended, Rotated
<1> QED
  BY <1>1, <1>4, <1>5

\* schedule_process puts the new process at the tail.
LEMMA LinkAdmits ==
  ASSUME IInv, ListInv, ScheduleLink
  PROVE  \E p \in Procs : RR!Admit(p)
<1>1. PICK n \in Nat : \E q \in [1 .. n -> Procs] : Spells(n, q)
  BY RunListSpells DEF ListInv
<1>2. PICK q \in [1 .. n -> Procs] : Spells(n, q)
  BY <1>1
<1>3. PICK r \in [1 .. n + 1 -> Procs] :
         r = Appended(n, q, exec.new) /\ Spells(n + 1, r)'
  BY <1>2, LinkSpells
<1>4. exec.new \in Procs /\ exec.new \notin Listed
  BY ContextFacts DEF ScheduleLink, At, IInv, Locals, Creating, Listed
<1>5. Queue = q /\ q \in Seq(Procs) /\ Len(q) = n
  BY <1>2, QueueSpelled DEF Spells
<1>6. Queue' = r
  BY <1>3, QueueSpelledNext DEF Spells
<1>7. r = Append(q, exec.new)
  BY <1>3, <1>4, <1>5, AppendedIs
<1>8. ~ RR!InQueue(exec.new)
  BY <1>2, <1>4, <1>5 DEF RR!InQueue, Spells
<1>9. exec'.owner = exec.owner
  BY StepKeepsOwner DEF Step, Schedule
<1> QED
  BY <1>4, <1>5, <1>6, <1>7, <1>8, <1>9 DEF RR!Admit

\* A preemption that switches is a dispatch.
LEMMA SwitchDispatches ==
  ASSUME IInv, ListInv, TickSwitch
  PROVE  RR!Dispatch
<1>1. PICK n \in Nat : \E q \in [1 .. n -> Procs] : Spells(n, q)
  BY RunListSpells DEF ListInv
<1>2. PICK q \in [1 .. n -> Procs] : Spells(n, q)
  BY <1>1
<1>3. n >= 2 /\ p_current' = q[2]
  BY <1>2, SwitchSpells
<1>4. PICK r \in [1 .. n -> Procs] : r = Rotated(n, q) /\ Spells(n, r)'
  BY <1>2, SwitchSpells
<1>5. Queue = q /\ q \in Seq(Procs) /\ Len(q) = n
  BY <1>2, QueueSpelled DEF Spells
<1>6. Queue' = r /\ r \in Seq(Procs) /\ Len(r) = n
  BY <1>4, QueueSpelledNext DEF Spells
<1>7. q # <<>> /\ Queue' = Append(Tail(q), Head(q))
  BY <1>3, <1>4, <1>5, <1>6, RotatedIs
<1>8. Head(r) = q[2]
  BY <1>3, <1>4, <1>6 DEF Rotated
<1>9. exec'.owner = p_current'
  <2>1. PICK new \in Procs : RotateList(new) /\ exec' = Load(new)
    BY DEF TickSwitch
  <2>2. p_current' = new
    BY <2>1 DEF RotateList
  <2> QED
    BY <2>1, <2>2, LoadOK
<1> QED
  BY <1>3, <1>5, <1>6, <1>7, <1>8, <1>9 DEF RR!Dispatch

\* One that finds a single process is a dispatch in a queue of one.
LEMMA AloneDispatches ==
  ASSUME IInv, ListInv, TickAlone
  PROVE  RR!Dispatch
<1>1. PICK n \in Nat : \E q \in [1 .. n -> Procs] : Spells(n, q)
  BY RunListSpells DEF ListInv
<1>2. PICK q \in [1 .. n -> Procs] : Spells(n, q)
  BY <1>1
<1>3. /\ p_current \in Procs /\ next[p_current] = POISON
      /\ p_current' = p_current /\ next' = next
      /\ exec' = Load(p_current)
  BY DEF TickAlone, Preempts, IInv, TypeOK, listVars
<1>4. n = 1 /\ q[1] = p_current
  <2>1. n # 0 /\ q[1] = p_current
    BY <1>2, <1>3, ProcsAssumption DEF Spells, Chain
  <2>2. n # 1 => 2 \in 1 .. n /\ next[q[1]] = q[2] /\ q[2] \in Procs
    BY <1>2, <2>1 DEF Spells, Chain
  <2> QED
    BY <1>3, <2>1, <2>2, ProcsAssumption
<1>5. Queue = q /\ q \in Seq(Procs) /\ Len(q) = n
  BY <1>2, QueueSpelled DEF Spells
<1>6. Queue' = Queue
  BY <1>3, QueueNow
<1>7. Rotated(n, q) = q
  BY <1>4 DEF Rotated
<1>8. q # <<>> /\ Append(Tail(q), Head(q)) = q
  <2>1. n >= 1
    BY <1>4
  <2>2. q # <<>> /\ Append(Tail(q), Head(q)) = Rotated(n, q)
    BY <1>5, <2>1, RotatedIs
  <2> QED
    BY <1>7, <2>2
<1>9. exec'.owner = p_current
  BY <1>3, LoadOK
<1>10. Head(q) = p_current
  BY <1>4, <1>5
<1> QED
  BY <1>5, <1>6, <1>8, <1>9, <1>10 DEF RR!Dispatch

\* Every other step leaves the queue and the runner alone.
LEMMA OthersStutter ==
  ASSUME IInv, ListInv, Step, ~ ScheduleLink
  PROVE  UNCHANGED RR!vars
<1>1. exec'.owner = exec.owner
  BY StepKeepsOwner
<1>2. CASE CreateNumber
  <2>1. PICK n \in Nat : \E q \in [1 .. n -> Procs] : Spells(n, q)
    BY RunListSpells DEF ListInv
  <2>2. PICK q \in [1 .. n -> Procs] : Spells(n, q)
    BY <2>1
  <2>3. Spells(n, q)'
    BY <1>2, <2>2, NumberSpells
  <2>4. Queue = q /\ Queue' = q
    BY <2>2, <2>3, QueueSpelled, QueueSpelledNext DEF Spells
  <2> QED
    BY <1>1, <2>4 DEF RR!vars
<1>3. CASE ~ CreateNumber
  <2>1. UNCHANGED <<p_current, next>>
    <3> USE DEF listVars
    <3>1. CASE CreateCall \/ CreateNoProc \/ CreateFill \/ CreateNoRegs
      BY <3>1 DEF CreateCall, CreateNoProc, CreateFill, CreateNoRegs
    <3>2. CASE \E p \in Procs : CreateRegs(p)
      BY <3>2 DEF CreateRegs
    <3>3. CASE ScheduleBegin \/ ScheduleTail \/ ScheduleEnd \/ Call
      BY <3>3 DEF ScheduleBegin, ScheduleTail, ScheduleEnd, Call, Kmalloc, IrqAdd,
         WaitBegin, BootDone
    <3>4. CASE Advance
      BY <3>4, WorkOnly DEF Advance, TakeLock, Heap, IrqAlloc, IrqLink, WaitEnd
    <3> QED
      BY <1>3, <3>1, <3>2, <3>3, <3>4 DEF Step, Create, Schedule
  <2> QED
    BY <1>1, <2>1, QueueNow DEF RR!vars
<1> QED
  BY <1>2, <1>3

\* The kernel starts with the empty queue and kinit.
LEMMA InitIsEmpty == Init => RR!Init
<1> SUFFICES ASSUME Init PROVE RR!Init
  OBVIOUS
<1>1. exec.owner = Boot /\ p_current = POISON
  BY DEF Init, Entry
<1>2. <<>> \in [1 .. 0 -> Procs] /\ 0 \in Nat
  OBVIOUS
<1>3. Chain(0, <<>>)
  BY <1>1 DEF Chain
<1>4. Queue = <<>>
  BY <1>2, <1>3, QueueSpelled
<1> QED
  BY <1>1, <1>4 DEF RR!Init

\* What a reader of scheduler.c is promised: whatever is created, fails or is
\* preempted, processes are served round robin - a new one joins at the tail,
\* a preemption sends the head to the tail and runs the new head, and nothing
\* else moves anybody.
THEOREM RoundRobinImplemented == Spec => ImplementsRoundRobin
<1>1. IInv /\ ListInv /\ [Next]_vars => [RR!Next]_(RR!vars)
  <2> SUFFICES ASSUME IInv, ListInv, [Next]_vars
               PROVE  RR!Next \/ UNCHANGED RR!vars
    OBVIOUS
  <2>1. CASE ScheduleLink
    BY <2>1, LinkAdmits DEF RR!Next
  <2>2. CASE Step /\ ~ ScheduleLink
    BY <2>2, OthersStutter
  <2>3. CASE TickAlone
    BY <2>3, AloneDispatches DEF RR!Next
  <2>4. CASE TickSwitch
    BY <2>4, SwitchDispatches DEF RR!Next
  <2>5. CASE UNCHANGED vars
    BY <2>5, QueueNow DEF vars, listVars, RR!vars
  <2> QED
    BY <2>1, <2>2, <2>3, <2>4, <2>5, NextCases DEF Tick
<1> QED
  BY <1>1, InitIsEmpty, Invariance, ListInvariance, PTL
     DEF Spec, ImplementsRoundRobin, RR!Spec

-----------------------------------------------------------------------------
(* The stack of the next interrupt.                                        *)

\* kinit asks for the first process of its plan once: before that no process
\* exists, after that the first process is not among those it still asks for.
FirstAskedOnce ==
    \/ plan = BootPlan /\ exec.new = POISON /\ p_current = POISON
    \/ \A i \in 1 .. Len(plan) : plan[i] # BootPlan[1]

\* A user process at the head of the list has its stack in the TSS, unless the
\* list began with it.
HeadStack ==
    p_current \in UserProcs =>
        esp0 = KernelStack(p_current) \/ BootPlan[1] \notin allocated

\* A user process calls nothing.
UserComputes ==
    /\ exec.owner \in UserProcs => exec.pc = "run"
    /\ \A p \in UserProcs : regs[p].pc = "run"

StackInv == FirstAskedOnce /\ HeadStack /\ UserComputes

\* Only kinit and kernel processes reach the kernel's code.
LEMMA UserComputesKept ==
  ASSUME IInv, UserComputes, [Next]_vars
  PROVE  UserComputes'
<1> USE ContextFacts, ProcsAssumption DEF At
<1>1. TypeOK /\ Boot \notin UserProcs
  BY DEF IInv
<1>2. CASE Step
  <2>1. exec'.owner = exec.owner
    BY <1>2, StepKeepsOwner
  <2>2. \A p \in UserProcs : regs'[p].pc = "run"
    <3>1. regs' = regs \/ \E p \in Procs : regs' = [regs EXCEPT ![p] = Entry(p)]
      BY <1>2, StepKeepsStack
    <3>2. \A p \in Procs : Entry(p).pc = "run"
      BY DEF Entry
    <3>3. regs \in [Procs -> Contexts]
      BY <1>1 DEF TypeOK
    <3> QED
      BY <3>1, <3>2, <3>3 DEF UserComputes
  <2>3. ASSUME exec.owner \in UserProcs PROVE exec'.pc = "run"
    <3>1. exec.pc = "run"
      BY <2>3 DEF UserComputes
    <3>2. Work
      BY <1>1, <1>2, <2>3, <3>1 DEF Step, Create, Schedule, Call, Advance,
         CreateCall, CreateNoProc, CreateFill, CreateNoRegs, CreateNumber,
         CreateRegs, ScheduleBegin, ScheduleLink, ScheduleTail, ScheduleEnd,
         Kmalloc, IrqAdd, WaitBegin, BootDone, TakeLock, Heap, IrqAlloc,
         IrqLink, WaitEnd, MayCall
    <3> QED
      BY <1>1, <3>1, <3>2 DEF Work, TypeOK, Contexts
  <2> QED
    BY <2>1, <2>2, <2>3 DEF UserComputes
<1>3. CASE Tick
  <2>1. PICK p \in Procs : exec' = Load(p)
    BY <1>1, <1>3 DEF Tick, TickAlone, TickSwitch, Preempts, TypeOK
  <2>2. exec'.owner = p /\ (p \in UserProcs => exec' = regs[p])
    BY <2>1, LoadOK
  <2>3. \A r \in UserProcs : regs'[r].pc = "run"
    <3>1. CASE UNCHANGED regs
      BY <3>1 DEF UserComputes
    <3>2. CASE ~ UNCHANGED regs
      <4>1. /\ p_current \in Procs /\ current_state[p_current] # "INITIALIZED"
            /\ regs' = [regs EXCEPT ![p_current] = exec]
        BY <1>1, <1>3, <3>2, FrameIsContext
           DEF Tick, TickAlone, TickSwitch, Preempts, SaveRegisters, procVars,
               TypeOK
      <4>2. exec.owner = p_current
        BY <4>1 DEF IInv, Ownership, NoForeignContext
      <4> QED
        BY <1>1, <4>1, <4>2 DEF UserComputes, TypeOK
    <3> QED
      BY <3>1, <3>2
  <2> QED
    BY <2>1, <2>2, <2>3 DEF UserComputes
<1>4. CASE UNCHANGED vars
  BY <1>4 DEF vars, procVars, UserComputes
<1> QED
  BY <1>2, <1>3, <1>4, NextCases

\* The rest of the plan after its head does not hold the first process.
LEMMA RestOfPlan ==
  ASSUME TypeOK, FirstAskedOnce, plan # <<>>
  PROVE  \A i \in 1 .. Len(Tail(plan)) : Tail(plan)[i] # BootPlan[1]
<1>1. /\ plan \in Seq(Procs) /\ Len(plan) \in Nat /\ Len(plan) >= 1
      /\ Len(Tail(plan)) = Len(plan) - 1
      /\ \A i \in 1 .. Len(Tail(plan)) : Tail(plan)[i] = plan[i + 1]
  BY HeadTailProperties, EmptySeq, LenProperties DEF TypeOK
<1>2. ASSUME NEW i \in 1 .. Len(plan) - 1 PROVE plan[i + 1] # BootPlan[1]
  <2>1. i + 1 \in 1 .. Len(plan) /\ 1 \in 1 .. Len(plan) /\ i + 1 # 1
    BY <1>1
  <2>2. CASE plan = BootPlan
    BY <2>1, <2>2, PlanAssumption
  <2>3. CASE plan # BootPlan
    BY <2>1, <2>3 DEF FirstAskedOnce
  <2> QED
    BY <2>2, <2>3
<1> QED
  BY <1>1, <1>2

\* Every step keeps the order in which kinit asks.
LEMMA AskedKept ==
  ASSUME IInv, FirstAskedOnce, [Next]_vars
  PROVE  FirstAskedOnce'
<1> USE ContextFacts, ProcsAssumption DEF At
<1>1. TypeOK
  BY DEF IInv
<1>2. exec.owner # Boot => p_current # POISON
  BY <1>1 DEF IInv, Ownership, NoForeignContext, Owners
<1>3. ASSUME NEW p \in Procs, CreateRegs(p) PROVE FirstAskedOnce'
  <2>1. CASE exec.owner = Boot
    <3>1. plan # <<>> /\ plan' = Tail(plan)
      BY <1>3, <2>1 DEF CreateRegs, IInv, Locals, Asking
    <3> QED
      BY <1>1, <3>1, RestOfPlan DEF FirstAskedOnce
  <2>2. CASE exec.owner # Boot
    BY <1>2, <1>3, <2>2 DEF CreateRegs, FirstAskedOnce
  <2> QED
    BY <2>1, <2>2
<1>4. CASE CreateNoProc
  <2>1. CASE exec.owner = Boot
    <3>1. plan # <<>> /\ plan' = Tail(plan)
      BY <1>4, <2>1 DEF CreateNoProc, IInv, Locals, Asking
    <3> QED
      BY <1>1, <3>1, RestOfPlan DEF FirstAskedOnce
  <2>2. CASE exec.owner # Boot
    BY <1>2, <1>4, <2>2 DEF CreateNoProc, FirstAskedOnce
  <2> QED
    BY <2>1, <2>2
<1>5. CASE ScheduleLink
  BY <1>5 DEF ScheduleLink, bootVars, FirstAskedOnce, IInv, Locals, Creating
<1>6. CASE Tick
  BY <1>6 DEF Tick, TickAlone, TickSwitch, Preempts, bootVars, FirstAskedOnce
<1>7. CASE CreateNoRegs \/ ScheduleEnd
  <2>1. exec'.new = POISON /\ UNCHANGED <<plan, p_current>>
    BY <1>1, <1>7 DEF CreateNoRegs, ScheduleEnd, bootVars, listVars, TypeOK,
       Contexts
  <2> QED
    BY <2>1 DEF FirstAskedOnce
<1>8. CASE CreateCall \/ CreateFill \/ CreateNumber \/ ScheduleBegin
             \/ ScheduleTail \/ Call \/ Advance
  <2>1. exec'.new = exec.new /\ UNCHANGED <<plan, p_current>>
    BY <1>1, <1>8 DEF CreateCall, CreateFill, CreateNumber, ScheduleBegin,
       ScheduleTail, Call, Kmalloc, IrqAdd, WaitBegin, BootDone, Advance,
       TakeLock, Heap, IrqAlloc, IrqLink, WaitEnd, Work, CallHeap, Goto,
       bootVars, listVars, TypeOK, Contexts
  <2> QED
    BY <2>1 DEF FirstAskedOnce
<1>9. CASE UNCHANGED vars
  BY <1>9 DEF vars, bootVars, listVars, FirstAskedOnce
<1> QED
  BY <1>3, <1>4, <1>5, <1>6, <1>7, <1>8, <1>9, NextCases
     DEF Step, Create, Schedule

\* And the TSS follows the head of the list.
LEMMA HeadStackKept ==
  ASSUME IInv, ListInv, StackInv, [Next]_vars
  PROVE  HeadStack'
<1> USE ContextFacts, ProcsAssumption DEF At, StackInv
<1>1. TypeOK /\ BootPlan[1] \notin UserProcs
  BY PlanAssumption DEF IInv
<1>2. ASSUME NEW p \in Procs, CreateRegs(p) PROVE HeadStack'
  <2>1. UNCHANGED <<p_current, esp0>> /\ allocated' = allocated \cup {p}
    BY <1>2 DEF CreateRegs, listVars
  <2>2. p_current \in UserProcs => p # BootPlan[1]
    <3> SUFFICES ASSUME p_current \in UserProcs PROVE p # BootPlan[1]
      OBVIOUS
    <3>1. exec.owner = Boot
      BY <1>1, <1>2 DEF CreateRegs, IInv, Locals, Ownership, NoForeignContext,
         Owners, UserComputes
    <3>2. plan # <<>> /\ p = Head(plan)
      BY <1>2, <3>1 DEF CreateRegs, ChosenByCreator, IInv, Locals, Asking
    <3>3. \A i \in 1 .. Len(plan) : plan[i] # BootPlan[1]
      BY DEF FirstAskedOnce
    <3>4. p = plan[1] /\ 1 \in 1 .. Len(plan)
      BY <1>1, <3>2, EmptySeq, LenProperties DEF TypeOK
    <3> QED
      BY <3>3, <3>4
  <2> QED
    BY <2>1, <2>2 DEF HeadStack, KernelStack
<1>3. CASE ScheduleLink
  <2>1. esp0' = esp0 /\ allocated' = allocated /\ exec.pc = "link"
    BY <1>3 DEF ScheduleLink, procVars
  <2>2. CASE p_current # POISON
    BY <1>3, <2>1, <2>2 DEF ScheduleLink, HeadStack, KernelStack
  <2>3. CASE p_current = POISON
    <3>1. PICK n \in Nat : \E q \in [1 .. n -> Procs] : Spells(n, q)
      BY RunListSpells DEF ListInv
    <3>2. PICK q \in [1 .. n -> Procs] : Spells(n, q)
      BY <3>1
    <3>3. n = 0
      <4>1. n # 0 => q[1] \in Procs
        OBVIOUS
      <4> QED
        BY <2>3, <3>2, <4>1 DEF Spells, Chain
    <3>4. Listed = {}
      BY <1>1, <3>2, <3>3 DEF Spells, Listed, TypeOK
    <3>5. allocated \subseteq {exec.new}
      BY <2>1, <3>4 DEF Listed
    <3>6. p_current' = exec.new
      BY <1>3, <2>3 DEF ScheduleLink
    <3> QED
      BY <1>1, <2>1, <3>5, <3>6 DEF HeadStack
  <2> QED
    BY <2>2, <2>3
<1>4. CASE TickSwitch
  <2>1. PICK new \in Procs : RotateList(new) /\ SetEsp0(new)
    BY <1>4 DEF TickSwitch
  <2>2. p_current' = new /\ esp0' = KernelStack(new)
    BY <2>1 DEF RotateList, SetEsp0
  <2> QED
    BY <2>2 DEF HeadStack, KernelStack
<1>5. CASE TickAlone \/ UNCHANGED vars
  BY <1>5 DEF TickAlone, vars, listVars, procVars, HeadStack, KernelStack
<1>6. CASE CreateNoRegs
  BY <1>6 DEF CreateNoRegs, listVars, HeadStack, KernelStack
<1>7. CASE CreateCall \/ CreateNoProc \/ CreateFill \/ CreateNumber
             \/ ScheduleBegin \/ ScheduleTail \/ ScheduleEnd \/ Call \/ Advance
  <2>1. UNCHANGED <<p_current, esp0, allocated>>
    BY <1>7 DEF CreateCall, CreateNoProc, CreateFill, CreateNumber,
       ScheduleBegin, ScheduleTail, ScheduleEnd, Call, Kmalloc, IrqAdd,
       WaitBegin, BootDone, Advance, TakeLock, Heap, IrqAlloc, IrqLink,
       WaitEnd, Work, listVars, procVars
  <2> QED
    BY <2>1 DEF HeadStack, KernelStack
<1> QED
  BY <1>2, <1>3, <1>4, <1>5, <1>6, <1>7, NextCases
     DEF Step, Create, Schedule, Tick

\* Whatever is created, refused by the heap or preempted in whatever order, a
\* user process that runs has its own kernel stack in the TSS - provided the
\* first process of the boot, a kernel one, is in the list.
THEOREM UserStacksInTss == Spec => []UserStacks
<1>1. Init => StackInv
  BY ProcsAssumption
     DEF Init, Entry, StackInv, FirstAskedOnce, HeadStack, UserComputes
<1>2. IInv /\ ListInv /\ StackInv /\ [Next]_vars => StackInv'
  BY AskedKept, HeadStackKept, UserComputesKept DEF StackInv
<1>3. IInv /\ StackInv => UserStacks
  BY ProcsAssumption DEF IInv, Ownership, NoForeignContext, StackInv,
     HeadStack, UserStacks, Listed
<1> QED
  BY <1>1, <1>2, <1>3, Invariance, ListInvariance, PTL DEF Spec

-----------------------------------------------------------------------------
(* The stack that is returned to.                                          *)

\* Ring 3 is left for a stack on which no context executes.
TssInv == p_current \in UserProcs \cup {POISON} => esp0[2] = "kstack"

\* Only a switch writes to the TSS, and it has a process to write it for.
LEMMA TssKept ==
  ASSUME IInv, TssInv, [Next]_vars
  PROVE  TssInv'
<1> USE DEF TssInv
<1>1. CASE ScheduleLink
  <2>1. esp0' = esp0 /\ (p_current # POISON => p_current' = p_current)
    BY <1>1 DEF ScheduleLink
  <2> QED
    BY <2>1
<1>2. CASE Create
  <2>1. CASE CreateCall \/ CreateNoProc \/ CreateFill \/ CreateNoRegs
    BY <2>1 DEF CreateCall, CreateNoProc, CreateFill, CreateNoRegs, listVars
  <2>2. CASE CreateNumber
    BY <2>2 DEF CreateNumber
  <2>3. CASE \E p \in Procs : CreateRegs(p)
    BY <2>3 DEF CreateRegs, listVars
  <2> QED
    BY <1>2, <2>1, <2>2, <2>3 DEF Create
<1>3. CASE ScheduleBegin \/ ScheduleTail \/ ScheduleEnd
  BY <1>3 DEF ScheduleBegin, ScheduleTail, ScheduleEnd, listVars
<1>4. CASE Call
  BY <1>4 DEF Call, Kmalloc, IrqAdd, WaitBegin, BootDone, listVars
<1>5. CASE Advance
  BY <1>5, WorkOnly DEF Advance, TakeLock, Heap, IrqAlloc, IrqLink, WaitEnd,
     listVars
<1>6. CASE TickAlone \/ UNCHANGED vars
  BY <1>6 DEF TickAlone, vars, listVars
<1>7. CASE TickSwitch
  <2>1. PICK new \in Procs : RotateList(new) /\ SetEsp0(new)
    BY <1>7 DEF TickSwitch
  <2>2. p_current' = new /\ esp0' = KernelStack(new)
    BY <2>1 DEF RotateList, SetEsp0
  <2> QED
    BY <2>2, ProcsAssumption DEF KernelStack
<1> QED
  BY <1>1, <1>2, <1>3, <1>4, <1>5, <1>6, <1>7, NextCases
     DEF Step, Schedule, Tick

\* A switch leaves one stack for another.
LEMMA SwitchIsExact ==
  ASSUME IInv, ListInv, TssInv, StacksOwned, TickSwitch
  PROVE  exec' = regs[p_current'] /\ p_current' \in Procs
<1>1. PICK new \in Procs : RotateList(new) /\ exec' = Load(new)
  BY DEF TickSwitch
<1>2. p_current' = new
  BY <1>1 DEF RotateList
<1>3. new # p_current
  <2>1. PICK n \in Nat : \E q \in [1 .. n -> Procs] : Spells(n, q)
    BY RunListSpells DEF ListInv
  <2>2. PICK q \in [1 .. n -> Procs] : Spells(n, q)
    BY <2>1
  <2>3. n >= 2 /\ p_current' = q[2]
    BY <2>2, SwitchSpells
  <2>4. q[1] = p_current /\ q[1] # q[2]
    BY <2>2, <2>3 DEF Spells, Chain
  <2> QED
    BY <1>2, <2>3, <2>4
<1>4. /\ regs[new] \in Contexts /\ regs[new].esp.stack = <<new, "stack">>
      /\ exec.esp.stack = <<exec.owner, "stack">>
      /\ exec.owner \in {Boot, p_current} /\ p_current \in Procs
  <2>1. regs[new] \in Contexts /\ regs[new].owner = new
    BY DEF IInv, TypeOK, Ownership, NoForeignContext
  <2>2. exec.owner \in {Boot, p_current} /\ p_current \in Procs
    BY DEF IInv, TypeOK, Ownership, NoForeignContext, TickSwitch, Preempts
  <2>3. Balanced(regs[new]) /\ Balanced(exec)
    BY DEF StacksOwned
  <2>4. /\ regs[new].esp.stack = <<regs[new].owner, "stack">>
        /\ exec.esp.stack = <<exec.owner, "stack">>
    BY <2>3 DEF Balanced
  <2> QED
    BY <2>1, <2>2, <2>4
<1>5. FrameTop \in Addresses(Stacks)
  BY DEF FrameTop, Addresses, IInv, TypeOK, Contexts
<1>6. FrameTop.stack # regs[new].esp.stack
  <2>1. CASE exec.owner \in UserProcs
    <3>1. FrameTop.stack[2] = "kstack"
      BY <1>4, <2>1, ProcsAssumption DEF FrameTop, TssInv
    <3> QED
      BY <1>4, <3>1
  <2>2. CASE exec.owner \notin UserProcs
    BY <1>3, <1>4, <2>2, ProcsAssumption DEF FrameTop
  <2> QED
    BY <2>1, <2>2
<1>7. Load(new) = regs[new]
  BY <1>4, <1>5, <1>6, ResumeExact DEF Load
<1> QED
  BY <1>1, <1>2, <1>7

\* For any number of processes in either ring: an interrupt and the return from
\* it - to the same ring or the other, on the same stack or another - put a
\* context back with its EIP, CS and EFLAGS, at the word of its own stack it had
\* reached.  Only a process alone in the list may come back to lost ones.
THEOREM StacksAreOwn == Spec => []StacksOwned
<1>1. Init => StacksOwned /\ TssInv
  <2> SUFFICES ASSUME Init PROVE StacksOwned /\ TssInv
    OBVIOUS
  <2>1. \A p \in Owners : Balanced(Entry(p)) /\ Entry(p).pc = "run"
    BY DEF Balanced, Entry, Depth
  <2>2. exec = Entry(Boot) /\ regs = [p \in Procs |-> Entry(p)]
    BY DEF Init
  <2>3. StacksOwned
    BY <2>1, <2>2 DEF StacksOwned, Owners
  <2>4. TssInv
    BY DEF Init, TssInv
  <2> QED
    BY <2>3, <2>4
<1>2. IInv /\ ListInv /\ TssInv /\ StacksOwned /\ [Next]_vars => StacksOwned'
  <2> SUFFICES ASSUME IInv, ListInv, TssInv, StacksOwned, [Next]_vars
               PROVE  StacksOwned'
    OBVIOUS
  <2> USE DEF StacksOwned
  <2>1. CASE Step
    <3>1. Balanced(exec') /\ exec'.pc # "lost"
      BY <2>1, StepKeepsStack
    <3>2. regs' = regs \/ \E p \in Procs : regs' = [regs EXCEPT ![p] = Entry(p)]
      BY <2>1, StepKeepsStack
    <3>3. regs \in [Procs -> Contexts]
      BY DEF IInv, TypeOK
    <3>4. \A p \in Procs : Balanced(Entry(p))
      BY DEF Balanced, Entry, Depth
    <3>5. \A p \in Procs : Balanced(regs'[p])
      BY <3>2, <3>3, <3>4
    <3> QED
      BY <3>1, <3>5 DEF Balanced
  <2>2. CASE TickAlone
    <3>1. p_current \in Procs /\ exec' = Load(p_current)
      BY <2>2 DEF TickAlone, Preempts, IInv, TypeOK
    <3>2. regs[p_current] \in Contexts /\ Balanced(regs[p_current])
      BY <3>1 DEF IInv, TypeOK
    <3>3. exec' \in {regs[p_current], [regs[p_current] EXCEPT !.pc = "lost"]}
      BY <3>1, <3>2, ResumeOrLost DEF Load
    <3>4. Balanced(exec')
      BY <3>2, <3>3 DEF Balanced, Contexts
    <3>5. exec'.owner = p_current
      BY <3>1, LoadOK
    <3>6. /\ p_current' = p_current /\ next' = next /\ regs' = regs
          /\ next[p_current] = POISON
      BY <2>2 DEF TickAlone, listVars, procVars
    <3> QED
      BY <3>4, <3>5, <3>6 DEF Balanced
  <2>3. CASE TickSwitch
    <3>1. exec' = regs[p_current'] /\ p_current' \in Procs
      BY <2>3, SwitchIsExact
    <3>2. Balanced(exec') /\ exec'.pc # "lost"
      BY <3>1 DEF IInv, Ownership, Preemptible
    <3>3. regs' = regs \/ regs' = [regs EXCEPT ![p_current] = exec]
      BY <2>3, FrameIsContext DEF TickSwitch, SaveRegisters, IInv
    <3>4. regs \in [Procs -> Contexts]
      BY DEF IInv, TypeOK
    <3>5. \A p \in Procs : Balanced(regs'[p])
      BY <3>3, <3>4
    <3> QED
      BY <3>2, <3>5 DEF Balanced
  <2>4. CASE UNCHANGED vars
    BY <2>4 DEF vars, listVars, procVars, Balanced
  <2> QED
    BY <2>1, <2>2, <2>3, <2>4, NextCases DEF Tick
<1>3. IInv /\ TssInv /\ [Next]_vars => TssInv'
  BY TssKept
<1> QED
  BY <1>1, <1>2, <1>3, Invariance, ListInvariance, PTL DEF Spec
=============================================================================
