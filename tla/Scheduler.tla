----------------------------- MODULE Scheduler -----------------------------
(***************************************************************************)
(* Process creation, the run list and the timer preemption of the kernel   *)
(* (kernel/kernel/tasks.c, kernel/arch/i386/scheduler.c), together with    *)
(* the critical sections that keep the timer out: those of the run list,   *)
(* of the heap (mm/alloc_hooks.c) and of the IRQ chains (idt.c), and the   *)
(* window of ata.c that lets it in.                                        *)
(*                                                                         *)
(* One processor executes one context, `exec'.  A step of the model is a   *)
(* step of the code that context is in, or the whole timer interrupt.      *)
(***************************************************************************)
EXTENDS Hal, IdtStubs, Sequences, FiniteSets

CONSTANTS
    Procs,           \* the process_t objects the heap can provide
    UserProcs,       \* those created with is_usermode
    BootPlan,        \* the processes kinit creates, in order
    BootCalls,       \* bound: heap, IRQ and disk calls of kinit
    Calls,           \* kernel services the processes call while they run
    WorkModulus,     \* bound: progress of a process, counted modulo this
    SpillHitsFlag,   \* the linker put is_schedueling_proc behind
                     \* were_intrs_enabled
    Boot,            \* kinit, the context that is no process
    POISON           \* POISON_NULL

Services == {"kmalloc", "irq_add", "create", "wait"}

ASSUME ProcsAssumption ==
    /\ IsFiniteSet(Procs)
    /\ UserProcs \subseteq Procs
    /\ Boot \notin Procs /\ POISON \notin Procs /\ Boot # POISON
ASSUME PlanAssumption ==
    /\ BootPlan \in Seq(Procs)
    /\ \A i, j \in 1 .. Len(BootPlan) : BootPlan[i] = BootPlan[j] => i = j
    /\ Len(BootPlan) > 0
    /\ BootPlan[1] \notin UserProcs
ASSUME BoundsAssumption ==
    /\ BootCalls \in Nat
    /\ WorkModulus \in Nat \ {0}
    /\ Calls \subseteq Services
    /\ SpillHitsFlag \in BOOLEAN

VARIABLES
    \* scheduler.c
    p_current, p_last, is_schedueling_proc,
    \* process_t: next, current_state, pid and the saved registers
    next, current_state, pid, regs,
    \* tasks.c
    pid_counter,
    allocated,       \* process_t objects the heap has handed out
    \* the processor: the context it executes and the stack of TSS.esp0
    exec, esp0,
    \* kinit: processes left to create, calls left to make
    plan, calls

listVars == <<p_current, p_last, next>>
procVars == <<current_state, pid, regs, pid_counter, allocated>>
bootVars == <<plan, calls>>
vars == <<halVars, listVars, is_schedueling_proc, procVars, exec, esp0,
          bootVars>>

-----------------------------------------------------------------------------
(* Contexts.  `pc' is the place in the kernel's code, `ret' the caller of  *)
(* kmalloc, `new' and `tmp' the locals of process_create, `work' what the  *)
(* process itself has computed, in words of its stack, `esp' the address   *)
(* in ESP.  At "lost" a process has returned to a wrong EIP, CS or EFLAGS. *)

\* Interrupts off, shared structures half changed.
Critical == {"heap", "irq_alloc", "irq_link", "regs", "fill", "number",
             "sched_lock", "begin", "link", "tail", "end"}
Labels == {"run", "lock", "irq_lock", "wait", "idle", "lost"} \cup Critical
Returns == {"run", "irq_link", "regs", "fill"}

Owners == Procs \cup {Boot}
Stacks == Owners \X {"stack", "kstack"}

Contexts == [owner : Owners, pc : Labels, ret : Returns,
             new : Procs \cup {POISON}, tmp : Nat,
             work : 0 .. WorkModulus - 1, esp : Addresses(Stacks)]

Entry(p) == [owner |-> p, pc |-> "run", ret |-> "run", new |-> POISON,
             tmp |-> 0, work |-> 0,
             esp |-> [stack |-> <<p, "stack">>, depth |-> 0]]

\* The stack process_create stores in regs->kernel_esp.
KernelStack(p) == <<p, IF p \in UserProcs THEN "kstack" ELSE "stack">>

Init == /\ HalInit
        /\ p_current = POISON /\ p_last = POISON
        /\ is_schedueling_proc = FALSE
        /\ next = [p \in Procs |-> POISON]
        /\ current_state = [p \in Procs |-> "INITIALIZED"]
        /\ pid = [p \in Procs |-> 0]
        /\ regs = [p \in Procs |-> Entry(p)]
        /\ pid_counter = 0
        /\ allocated = {}
        /\ exec = Entry(Boot)
        /\ esp0 = <<Boot, "kstack">>
        /\ plan = BootPlan
        /\ calls = BootCalls

-----------------------------------------------------------------------------
(* The critical sections.                                                  *)

At(label) == exec.pc = label
Goto(label) == exec' = [exec EXCEPT !.pc = label]

\* hal_disableInterrupts up to its cli.  Byte 1 of the store is 2 when IF was
\* set, which reads as true in the bool that may lie there.
Disable == /\ SaveFlag
           /\ is_schedueling_proc' = IF SpillHitsFlag THEN interrupts
                                     ELSE is_schedueling_proc
           /\ UNCHANGED interrupts

Enable == /\ EnableInterrupts
          /\ is_schedueling_proc' = IF SpillHitsFlag THEN interrupts
                                    ELSE is_schedueling_proc

Restore == RestoreInterrupts /\ UNCHANGED is_schedueling_proc

\* liballoc_lock of a kmalloc or kfree whose caller continues at ret.
CallHeap(ret) == /\ exec' = [exec EXCEPT !.pc = "lock", !.ret = ret]
                 /\ Disable

\* Who may call a service: kinit within its bound, a kernel process if the
\* service is among Calls.  A user process cannot: cli traps in ring 3.
MayCall(service) ==
    /\ At("run")
    /\ \/ exec.owner = Boot /\ calls > 0 /\ calls' = calls - 1
       \/ /\ exec.owner \in Procs \ UserProcs
          /\ service \in Calls
          /\ UNCHANGED calls

-----------------------------------------------------------------------------
(* Services.                                                               *)

Kmalloc == /\ MayCall("kmalloc")
           /\ CallHeap("run")
           /\ UNCHANGED <<listVars, procVars, esp0, plan>>

\* The cli of hal_disableInterrupts, in its three callers.
AfterCli(label) == CASE label = "lock"       -> "heap"
                     [] label = "irq_lock"   -> "irq_alloc"
                     [] label = "sched_lock" -> "begin"

TakeLock == /\ exec.pc \in {"lock", "irq_lock", "sched_lock"}
            /\ Cli
            /\ Goto(AfterCli(exec.pc))
            /\ UNCHANGED <<were_intrs_enabled, is_schedueling_proc, listVars,
                           procVars, esp0, bootVars>>

\* The heap's work and liballoc_unlock.
Heap == /\ At("heap")
        /\ Restore
        /\ Goto(exec.ret)
        /\ UNCHANGED <<listVars, procVars, esp0, bootVars>>

\* idt_addIRQ_ISR: a critical section with a kmalloc nested in it.
IrqAdd == /\ MayCall("irq_add")
          /\ Disable
          /\ Goto("irq_lock")
          /\ UNCHANGED <<listVars, procVars, esp0, plan>>

IrqAlloc == /\ At("irq_alloc")
            /\ CallHeap("irq_link")
            /\ UNCHANGED <<listVars, procVars, esp0, bootVars>>

IrqLink == /\ At("irq_link")
           /\ Restore
           /\ Goto("run")
           /\ UNCHANGED <<listVars, procVars, esp0, bootVars>>

\* waitForIRQ: interrupts on, any number of hlt, interrupts restored.  kinit
\* reads its disks before it creates the first process.
WaitBegin == /\ MayCall("wait")
             /\ exec.owner = Boot => plan = BootPlan
             /\ Enable
             /\ Goto("wait")
             /\ UNCHANGED <<listVars, procVars, esp0, plan>>

WaitEnd == /\ At("wait")
           /\ Restore
           /\ Goto("run")
           /\ UNCHANGED <<listVars, procVars, esp0, bootVars>>

-----------------------------------------------------------------------------
(* process_create and schedule_process.                                    *)

CreateCall == /\ At("run")
              /\ \/ exec.owner = Boot /\ plan # <<>>
                 \/ /\ exec.owner \in Procs \ UserProcs
                    /\ "create" \in Calls
                    /\ allocated # Procs
              /\ CallHeap("regs")
              /\ UNCHANGED <<listVars, procVars, esp0, bootVars>>

\* kmalloc(sizeof(process_t)) returned p, or NULL.
ChosenByCreator(p) == IF exec.owner = Boot THEN p = Head(plan)
                      ELSE p \notin allocated

CreateRegs(p) == /\ At("regs")
                 /\ ChosenByCreator(p)
                 /\ p \notin allocated
                 /\ exec' = [exec EXCEPT !.pc = "lock", !.ret = "fill",
                                         !.new = p]
                 /\ Disable
                 /\ allocated' = allocated \cup {p}
                 /\ plan' = IF exec.owner = Boot THEN Tail(plan) ELSE plan
                 /\ UNCHANGED <<listVars, current_state, pid, regs,
                                pid_counter, esp0, calls>>

CreateNoProc == /\ At("regs")
                /\ Goto("run")
                /\ plan' = IF exec.owner = Boot THEN Tail(plan) ELSE plan
                /\ UNCHANGED <<halVars, is_schedueling_proc, listVars,
                               procVars, esp0, calls>>

\* kmalloc(sizeof(registers_t)) returned memory: pid_counter is read here and
\* written back in the next step.
CreateFill == /\ At("fill")
              /\ exec' = [exec EXCEPT !.pc = "number", !.tmp = pid_counter]
              /\ UNCHANGED <<halVars, is_schedueling_proc, listVars, procVars,
                             esp0, bootVars>>

\* It returned NULL: kfree(proc).
CreateNoRegs == /\ At("fill")
                /\ exec' = [exec EXCEPT !.pc = "lock", !.ret = "run",
                                        !.new = POISON]
                /\ Disable
                /\ allocated' = allocated \ {exec.new}
                /\ UNCHANGED <<listVars, current_state, pid, regs,
                               pid_counter, esp0, bootVars>>

\* The rest of process_create, and schedule_process up to its cli.
CreateNumber ==
    LET p == exec.new IN
    /\ At("number")
    /\ pid' = [pid EXCEPT ![p] = exec.tmp]
    /\ pid_counter' = exec.tmp + 1
    /\ next' = [next EXCEPT ![p] = POISON]
    /\ current_state' = [current_state EXCEPT ![p] = "INITIALIZED"]
    /\ regs' = [regs EXCEPT ![p] = Entry(p)]
    /\ Disable
    /\ exec' = [exec EXCEPT !.pc = "sched_lock", !.tmp = 0]
    /\ UNCHANGED <<p_current, p_last, allocated, esp0, bootVars>>

ScheduleBegin == /\ At("begin")
                 /\ is_schedueling_proc' = TRUE
                 /\ Goto("link")
                 /\ UNCHANGED <<halVars, listVars, procVars, esp0, bootVars>>

\* schedule_process: the first process becomes p_current, a later one is
\* linked behind the last.
ScheduleLink ==
    /\ At("link")
    /\ \/ /\ p_current = POISON
          /\ p_current' = exec.new
          /\ Goto("end")
          /\ UNCHANGED <<p_last, next>>
       \/ /\ p_current # POISON
          /\ next' = [next EXCEPT ![IF p_last = POISON THEN p_current
                                    ELSE p_last] = exec.new]
          /\ Goto("tail")
          /\ UNCHANGED <<p_current, p_last>>
    /\ UNCHANGED <<halVars, is_schedueling_proc, procVars, esp0, bootVars>>

ScheduleTail == /\ At("tail")
                /\ p_last' = exec.new
                /\ Goto("end")
                /\ UNCHANGED <<halVars, is_schedueling_proc, p_current, next,
                               procVars, esp0, bootVars>>

ScheduleEnd == /\ At("end")
               /\ is_schedueling_proc' = FALSE
               /\ RestoreInterrupts
               /\ exec' = [exec EXCEPT !.pc = "run", !.new = POISON]
               /\ UNCHANGED <<listVars, procVars, esp0, bootVars>>

\* kinit's last lines: interrupts on, then idle_process for ever.
BootDone == /\ exec.owner = Boot /\ At("run") /\ plan = <<>>
            /\ Enable
            /\ Goto("idle")
            /\ UNCHANGED <<listVars, procVars, esp0, bootVars>>

\* What a process has on its stack.  The one that kinit creates first is the
\* idle process, a hlt and a jmp.
Depth(p, work) == IF p = BootPlan[1] THEN 0 ELSE work

\* A process computes: it pushes a word, or returns from all its calls.
Work == LET more == (exec.work + 1) % WorkModulus
            pushed == Depth(exec.owner, more) - Depth(exec.owner, exec.work)
        IN  /\ exec.owner \in Procs /\ At("run")
            /\ exec' = [exec EXCEPT !.work = more, !.esp = Below(@, pushed)]
            /\ UNCHANGED <<halVars, is_schedueling_proc, listVars, procVars,
                           esp0, bootVars>>

-----------------------------------------------------------------------------
(* Interrupts.                                                             *)

Whole(ok, context) == IF ok THEN context ELSE [context EXCEPT !.pc = "lost"]

\* Where the frame begins: the processor switches stacks only when it leaves
\* ring 3.
FrameTop == IF exec.owner \in UserProcs THEN [stack |-> esp0, depth |-> 0]
            ELSE exec.esp

\* The frame prep_isr leaves for the handler.  The processor has pushed all of it
\* from ring 3, change_stack completes it from ring 0.
Frame ==
    IF exec.owner \in UserProcs THEN exec
    ELSE Whole(IsFrame(ChangeStack(exec.esp), FrameAt(exec.esp)),
               [exec EXCEPT !.esp = EspPut(exec.esp)])

\* The return, with a frame that holds the context c.  iret pops ESP on a return
\* to ring 3; for ring 0 revert_change_stack moves the frame first.
Resume(c) ==
    IF c.owner \in UserProcs THEN c
    ELSE Whole(IsMoved(RevertChangeStack(FrameAt(FrameTop), c.esp), NewEsp(c.esp)),
               [c EXCEPT !.esp = Above(NewEsp(c.esp), 3)])

\* An interrupt whose handler leaves the frame alone: every other line, and a tick
\* that finds no process or a list being changed.
Isr == /\ interrupts /\ exec.pc # "lost"
       /\ exec' = Resume(Frame)
       /\ UNCHANGED <<halVars, is_schedueling_proc, listVars, procVars, esp0,
                      bootVars>>

\* memcpy(state, p->regs) and the return.
Load(p) == Resume(regs[p])

\* scheduler_preempt goes on.
Preempts == /\ interrupts /\ ~ is_schedueling_proc
            /\ p_current # POISON /\ exec.pc # "lost"

\* It found one process, which is put back to its saved registers.
TickAlone == /\ Preempts
             /\ next[p_current] = POISON
             /\ exec' = Load(p_current)
             /\ UNCHANGED <<halVars, is_schedueling_proc, listVars, procVars,
                            esp0, bootVars>>

\* Mutated form: saved whatever the state.
SaveAlways(p) == /\ regs' = [regs EXCEPT ![p] = Frame]
                 /\ current_state' = [current_state EXCEPT ![p] = "RUNNING"]

\* The registers of a process that has just had its first slice are not saved.
SaveRegisters(p) ==
    IF current_state[p] # "INITIALIZED"
    THEN regs' = [regs EXCEPT ![p] = Frame] /\ UNCHANGED current_state
    ELSE /\ current_state' = [current_state EXCEPT ![p] = "RUNNING"]
         /\ UNCHANGED regs

\* Mutated form: p_last->next is not cleared.
RotateLeavesCycle(new) ==
    /\ next' = [next EXCEPT ![p_last] = p_current]
    /\ p_last' = p_current
    /\ p_current' = new

\* Mutated form: the process goes behind the next one, not behind the last.
RotateBehindNext(new) ==
    /\ new = next[p_current]
    /\ p_current' = new
    /\ next' = [next EXCEPT ![p_current] = next[new], ![new] = p_current]
    /\ p_last' = IF next[new] = POISON THEN p_current ELSE p_last

\* p_last->next = p_current; p_last = p_current; p_current = p_last->next;
\* p_last->next = POISON_NULL, in that order.
RotateList(new) ==
    LET linked == IF p_last = POISON THEN next
                  ELSE [next EXCEPT ![p_last] = p_current]
    IN  /\ p_last' = p_current
        /\ p_current' = linked[p_current]
        /\ next' = [linked EXCEPT ![p_current] = POISON]
        /\ new = linked[p_current]

\* Mutated form: the TSS keeps the stack of the process that is left.
SetEsp0Old(new) == esp0' = KernelStack(p_current)

SetEsp0(new) == esp0' = KernelStack(new)

\* scheduler_preempt switches.
TickSwitch == /\ Preempts
              /\ next[p_current] # POISON
              /\ SaveRegisters(p_current)
              /\ \E new \in Procs : /\ RotateList(new)
                                    /\ SetEsp0(new)
                                    /\ exec' = Load(new)
              /\ UNCHANGED <<halVars, is_schedueling_proc, pid, pid_counter,
                             allocated, bootVars>>

Tick == TickAlone \/ TickSwitch

-----------------------------------------------------------------------------
Create == \/ CreateCall \/ CreateNoProc \/ CreateFill \/ CreateNoRegs
          \/ CreateNumber
          \/ \E p \in Procs : CreateRegs(p)

Schedule == ScheduleBegin \/ ScheduleLink \/ ScheduleTail \/ ScheduleEnd

Call == Kmalloc \/ IrqAdd \/ WaitBegin \/ BootDone

Advance == TakeLock \/ Heap \/ IrqAlloc \/ IrqLink \/ WaitEnd \/ Work

Step == Create \/ Schedule \/ Call \/ Advance

Next == Step \/ Tick \/ Isr

Spec == Init /\ [][Next]_vars

\* The processor executes instructions, and the PIT raises IRQ 0 for ever: the
\* PIC keeps the request until interrupts are on, the handler acknowledges it.
FairSpec == Spec /\ WF_vars(Step) /\ WF_vars(Tick)

-----------------------------------------------------------------------------
(* Properties.                                                             *)

\* Every variable keeps its C type; contexts are well formed.
TypeOK ==
    /\ HalTypeOK
    /\ p_current \in Procs \cup {POISON} /\ p_last \in Procs \cup {POISON}
    /\ is_schedueling_proc \in BOOLEAN
    /\ next \in [Procs -> Procs \cup {POISON}]
    /\ current_state \in [Procs -> {"INITIALIZED", "RUNNING"}]
    /\ pid \in [Procs -> Nat]
    /\ regs \in [Procs -> Contexts]
    /\ pid_counter \in Nat
    /\ allocated \subseteq Procs
    /\ exec \in Contexts
    /\ esp0 \in Stacks
    /\ plan \in Seq(Procs)
    /\ calls \in 0 .. BootCalls

\* The processes schedule_process has linked: all that exist but the one that
\* is being created.
Listed == allocated \ (IF exec.pc \in {"tail", "end"} THEN {} ELSE {exec.new})

\* q is the run list: p_current first, then along next, ending at POISON_NULL.
Chain(n, q) ==
    /\ p_current = IF n = 0 THEN POISON ELSE q[1]
    /\ \A i \in 1 .. n : next[q[i]] = IF i = n THEN POISON ELSE q[i + 1]
    /\ \A i, j \in 1 .. n : q[i] = q[j] => i = j

\* p_last is the tail of a list of two or more.  Between the two pointer writes
\* of schedule_process it is one behind.
LastOf(n, q) ==
    IF At("tail")
    THEN /\ n >= 2 /\ q[n] = exec.new
         /\ p_last = IF n = 2 THEN POISON ELSE q[n - 1]
    ELSE p_last = IF n <= 1 THEN POISON ELSE q[n]

\* No sequence of creations, failed creations and preemptions loses a process,
\* links one twice or closes the list into a cycle: scheduler.c's pointers
\* always spell one list of exactly the scheduled processes.
RunList ==
    \E n \in 0 .. Cardinality(Procs) : \E q \in [1 .. n -> Procs] :
        /\ Chain(n, q) /\ LastOf(n, q)
        /\ \A p \in Procs : p \in Listed <=> \E i \in 1 .. n : q[i] = p

\* The registers saved for a process are a context of that process: kinit's
\* context, which scheduler_preempt abandons, is never saved over those of the
\* first process, and what executes is p_current.
NoForeignContext ==
    /\ \A p \in Procs : regs[p].owner = p
    /\ exec.owner \in {Boot, p_current}

\* pid_counter is read and written back without a lock of its own: no two
\* processes get one PID.
PidsUnique == \A p, q \in Listed : p # q => pid[p] # pid[q]

\* While a user process runs, the TSS holds its own kernel stack for the next
\* interrupt - provided kinit's first process, a kernel one, came to exist: a
\* user process alone in the list is started without tss_set_esp0.
UserStacks == exec.owner \in UserProcs /\ BootPlan[1] \in Listed =>
                 esp0 = KernelStack(exec.owner)

\* The ESP of a context is where its own pushes left it.
Balanced(c) == c.esp = [stack |-> <<c.owner, "stack">>,
                        depth |-> Depth(c.owner, c.work)]

\* Whatever ring is left, whatever ring is returned to and whatever stack the
\* frame is on, a context goes on with the EIP, CS and EFLAGS and at the very
\* word of its own stack it was interrupted with - but for the process that is
\* alone in the list (see NothingOverwritten).
StacksOwned ==
    /\ Balanced(exec) /\ \A p \in Procs : Balanced(regs[p])
    /\ exec.pc = "lost" => exec.owner = p_current /\ next[p_current] = POISON

\* idt_stubs.S on revert_change_stack: "we need to be careful on where we copy our
\* things as to not overwrite anything".
NothingOverwritten == exec.pc # "lost"

\* The timer never takes the processor from a context that is inside a critical
\* section of the heap, the IRQ chains or the run list, however they nest.
CriticalSectionsAtomic ==
    [][exec.pc \in Critical => exec'.owner = exec.owner]_vars

\* The run list and the executing context implement the round-robin queue.
Sequences == UNION {[1 .. n -> Procs] : n \in 0 .. Cardinality(Procs)}

Queue == CHOOSE q \in Sequences : Chain(Len(q), q)

RR == INSTANCE RoundRobin WITH Nobody <- Boot, queue <- Queue,
                               running <- exec.owner

ImplementsRoundRobin == RR!Spec

\* As long as no process calls a service, a scheduled process gets the
\* processor again and again.
EveryProcessRuns == \A p \in Procs : p \in Listed ~> exec.owner = p

\* liballoc.h on liballoc_unlock: "If it disabled interrupts, it enables
\* interrupts."  A process that has returned from kmalloc to its own code, which
\* started with interrupts on, should have them on.
InterruptsReenabled ==
    exec.owner \in Procs /\ At("run") => interrupts

\* scheduler.c, "Save Registers": the context of a process that is switched
\* away from is kept in its process_t.
RegistersSaved ==
    [][exec.owner \in Procs /\ exec'.owner # exec.owner
         => regs'[exec.owner] = exec]_vars
=============================================================================
