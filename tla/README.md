# Formal models of the Condor kernel

TLA+ models of the kernel in `src/kernel`, the TLC runs that check them and the
theorems TLAPS proves about them. Line numbers refer to the commit in `src/`.

## The system

Condor is a 32-bit x86 kernel for one processor. `kinit` sets up everything with
interrupts off, creates the first processes, turns interrupts on and halts; from
then on the timer interrupt moves the processor from process to process.

| component | state | operations | talks to |
|---|---|---|---|
| interrupt flag (`hal.c`) | EFLAGS.IF, one byte `were_intrs_enabled` | disable, enable, restore | everybody who has a critical section |
| scheduler (`scheduler.c`, `pit.c`) | `p_current`, `p_last`, `next` of each process, `is_schedueling_proc`, TSS.esp0 | `schedule_process`, `scheduler_preempt` | called by `process_create` and by IRQ 0 |
| tasks (`tasks.c`) | `process_t`, `pid_counter` | `process_create` | heap, VMM, PMM, scheduler |
| physical memory (`mm/pmm.c`) | block bitmap, superblock hints, free stack | `pmm_clear_region`, `pmm_set_region`, `kpmalloc`, `pfree` | VMM maps its stack pages; the page-fault handler calls it |
| virtual memory (`vmm.c`) | page tables; address bitmaps | map, unmap, page fault; `vmalloc`, `vfree` | PMM |
| heap (`liballoc.c`, `alloc_hooks.c`) | majors and minors, `brk_limit` | malloc, free, realloc, calloc | HAL (lock), VMM, PMM |
| interrupt dispatch (`idt.c`, `pic.c`) | handler chains, PIC masks | `idt_addIRQ_ISR`, `isr_handler`, acknowledge, mask | heap, all drivers |
| keyboard (`keyboard.c`) | scan-code state, key states, key buffer | `keyboard_isr`, `keyboard_readKey` | PS/2, kmain |
| PS/2 controller (`ps2.c`) | device types, channels, the configuration byte | init, detect, send, read, register | dispatch; two devices that answer when they like |
| ATA driver (`ata.c`) | controllers, `in_use`, `is_blocked` | init, read, write, packet command, IRQ | HAL, dispatch, heap |
| terminal (`tty.c`) | position, color, cursor registers, the VGA buffer | put, scroll, move, store and restore | called by everything that prints, kmain and the timer at once |
| logging, serial port, panic (`klogger.c`, `serial.c`, `condor.c`) | the transmit queue of the UART | `log`, `serial_writes`, `kspanic` | terminal; `kspanic` is called by exceptions |
| C library | none | formatted output, numbers, memory, strings | everybody |

What is hard here: the timer can interrupt a process anywhere interrupts are on;
the previous interrupt flag lives in one global byte though critical sections
nest; the scheduler's list is changed by two actors; allocation loops of the PMM
cache summaries of the bitmap; frames, page tables, the TLB and the break of the
heap must stay in step; drivers wait for answers that may be late or missing; kmain
and the timer print on one screen with one cursor. The list with lines is `hazards` in `PROJECT.json`.

Correctness, per component: critical sections are not left before their end; the
run list is one list of all processes and everyone runs; a context belongs to
its process; PIDs differ; a frame has one holder, is never lost and never
reserved memory; hints never hide a free frame; a page leads to a frame that is its
own and the TLB agrees; ring 3 reaches its own pages; blocks of the heap are
apart; the decoder of the keyboard keeps in step; every request is acknowledged;
the keyboard is found; the screen shows what was printed.

## Modules

| module | models |
|---|---|
| `Hal` | the three interrupt functions, the byte with its width |
| `IdtStubs` | what `change_stack` and `revert_change_stack` do to the words of the stacks |
| `RoundRobin` | abstract specification of the scheduler: one queue |
| `Scheduler` | `process_create`, `schedule_process`, `scheduler_preempt`, kinit's process part, the critical sections of the heap and of `idt_addIRQ_ISR`, the wait of `ata.c`; extends `Hal` and `IdtStubs` |
| `MCScheduler` | instances for TLC |
| `SchedulerProofs` | theorems about `Scheduler` and its refinement of `RoundRobin` |
| `FreeStack` | `stack_push`, `stack_pop32`, `stack_pop64` |
| `Pmm` | bitmaps, search, regions, `kpmalloc`, `pfree`; extends `FreeStack` |
| `MCPmm` | instances for TLC |
| `PmmProofs` | theorems about `Pmm` |
| `Allocator` | abstract specification of a heap: disjoint blocks |
| `Heap` | `kmalloc`, `kfree`, `krealloc`, `kcalloc` over the page hooks |
| `MCHeap` | instances for TLC |
| `HeapProofs` | theorems about `Heap` and its refinement of `Allocator` |
| `Vaddm` | the address bitmaps, `vmalloc`, `vfree` |
| `MCVaddm` | instances for TLC |
| `VaddmProofs` | theorems about `Vaddm` |
| `Keyboard` | the interrupt handler, key states, flags, the buffer between it and kmain |
| `MCKeyboard` | instances for TLC |
| `KeyboardProofs` | theorems about `Keyboard` |
| `Irq` | the interrupt controllers, spurious requests, the handler chains and their acknowledgement; extends `Hal`; a layer without a `Next` |
| `Ata` | detection of the disks, the five commands, `waitForIRQ`, `ata_irq`, and the drives; extends `Irq` |
| `MCAta` | instances for TLC |
| `AtaProofs` | theorems about `Ata` and the layer `Irq` below it |
| `Paging` | page directory and tables, the TLB, map, unmap, page faults, and everything of kinit that maps: `pmm_init`, `vaddm_init`, the break of the heap, modules, `process_create`, the PMM test |
| `MCPaging` | instances for TLC |
| `PagingProofs` | theorems about `Paging` |
| `Ps2` | `ps2_init`, `detectDevice`, the commands of `keyboard_init`, and the controller with its devices |
| `MCPs2` | instances for TLC |
| `Ps2Proofs` | theorems about `Ps2` |
| `Printf` | `vprintf`, `vsprintf`, `itoa`, `ultoa`, and what a format means |
| `Tty` | the terminal, one step at a time |
| `Serial` | the serial port and its UART |
| `Console` | `printf`, `log`, the status line, `kspanic`; extends the three above |
| `MCConsole` | instances for TLC |

### Scheduler

One record, `exec`, is the context the processor executes: its owner (a process
or kinit, `Boot`), the place `pc` in the kernel's code, the locals of
`process_create`, the work the process has done and ESP.
`regs[p]` is a saved context of the same shape, so "the registers of p are p's"
can be said. A step is the code between two points where an interrupt can be
taken or another processor state is visible; with interrupts on, a timer tick
(`TickAlone`, `TickSwitch`) can come between any two steps. Where the code
has several assignments that a tick must not see half done (`schedule_process`:
begin, link, tail, end) each is a step of its own, although interrupts are off
there: that the tick stays out is a property, not an assumption of the model.

`kmalloc` is lock, work, unlock; it may fail (`CreateNoProc`, `CreateNoRegs`).
`idt_addIRQ_ISR` is a section with a `kmalloc` nested in it. The wait of `ata.c`
turns interrupts on and restores them; kinit waits only before it creates
processes, as it initialises its disks there (`kernel.c:110-129`).

`hal_disableInterrupts` stores EFLAGS & 0x200 with `movl` into a one-byte
variable. The byte is 0 whatever the flag was, so "restore" always means "off",
and byte 1 of the store falls on whatever the linker put behind the byte.
`SpillHitsFlag` says whether that is `is_schedueling_proc` (it is written with
`true` or `false` then); both layouts are checked.

The processor stores SS and ESP only when an interrupt leaves ring 3. The stubs of
`idt_stubs.S` complete the frame for ring 0 (`change_stack` on the way in), and on the
way out move what iret pops to the stack of the ESP in the frame (`revert_change_stack`),
which may be the stack the frame is on. `IdtStubs` takes one `movl` after the other: an
address is a stack and a number of words pushed on it, memory gives each word the name
of the register it holds, and `IsFrame` and `IsMoved` say that every word is where the
handler, or iret, takes it from. `Frame` is what the handler is given and what
`SaveRegisters` keeps, `Resume` what is continued; both move ESP as the stubs do, and a
context of which a word was overwritten has the `pc` "lost" and goes no further. A
process pushes a word as it works (`Work`), so ESP is not where it was at the last
interrupt; the idle process, a `hlt` and a `jmp`, has pushed nothing. `Isr` is an interrupt
whose handler leaves the frame alone: any other line, or a tick that finds no process or
`is_schedueling_proc`. A process of ring 3 has all its interrupts on the stack of esp0,
from its top. Each process has a stack of its own here, from its top on;
`process_create` stores `kstack_base`, the lowest address of the page, so that the
kernel's frames really go to the page below, which is `TrapFramePrivate` of `Paging`.

`StacksOwned` says that a context goes on at the word of its own stack where it was, and
that only a process alone in the list is ever lost. That one is: line 64 of `scheduler.c`
puts it back to its first registers at every tick, and the ESP in them lies above the
frame on the same stack (`MCScheduler_alone` below). `EveryProcessRuns` counts a process
that is put on the processor; it says nothing of one that was lost.

Abstracted: the status line that `scheduler_preempt` prints (it is in `Console`), the
pages of the stacks (in `Paging`), the time slice fields nobody reads.

Two facts of the code the properties had to respect: kinit's context is dropped
by the first tick by design, and a process that is alone in the list is reloaded
at every tick (line 64 skips the save and `tss_set_esp0`), so a user process
alone in the list would run with kinit's TSS. `UserStacks` therefore speaks of
machines where the kernel's own idle process, the first of kinit, was created.

### Pmm

`block_bitmap` and `superblock_bitmap` are sets of frames and of groups of
16 frames. The loops of `pmm_clear_region`, `pmm_set_region`, `kpmalloc` and
`pfree` advance one frame per step (`op`), so invariants hold between two frames
of a loop too. The search is described by what it returns: `Visible` frames are
those it looks at, `RunAt(e)` the run it has counted when it is at frame e; a
frame that is skipped does not end a run, exactly as in the code. Clients hold
one block each. The address computation of a region keeps its 32-bit wrap
(`AddrSpace`). `FreeStack` keeps the words of the stack pages, so what a pop at
either end of a page returns is the code's answer. The 64-bit stack never
receives more than its first page (`__64_BIT_ADDRESSES__` is off).

`check_super_region` reads 16 words from the word of the frame, past the end of
`block_bitmap` into `superblock_bitmap`; the model reads the same words.

### Heap

The majors and minors of `liballoc.c` are records keyed by their address, with
the links, sizes and sums the code keeps in their headers; `l_memRoot` and
`l_bestBet` are pointers. One call runs at a time (the lock; that it is one is
`Scheduler`'s business), but each turn of its loops is a step, so a walk that
does not end would be a cycle and the order in which majors are tried is the
code's. Addresses and sizes are in units of 8 bytes, so that alignment and
header sizes keep their ratios. `Hooks` chooses what is below: "contract" gives
pages anywhere that is free, or none, as `liballoc.h` promises; "psbrk" is
`alloc_hooks.c`. The contract shows what the lists do by themselves, `psbrk` what
is left of it in this kernel.

Abstracted: the counters of warnings and errors, the memset of `kcalloc`, frees
with a bad magic number (nothing happens), `krealloc` of NULL or to 0 (they are
`kmalloc` and `kfree`). `Allocator` sees the blocks the clients hold, as a bag:
two clients with one block would be two members.

### Vaddm

`page_bitmap` and `superpage_bitmap` are the sets of bits that are set. The
search is described by the places it looks at (`Visited`), their order (`Leq`) and
what it has counted at each (`RunAt`): it takes the number of a super page for the
number of a word, visits the last words once for each super page, and a word it
skips does not end a run. Only kinit calls it, with interrupts off: a call is one
step. The word has 3 bits instead of 32, which
keeps all three levels (3 * 3 * 3 words) in 81 pages. `unwritten` remembers what
`superpage_bitmap` held before anything was written to it: `vaddm_init` clears 0x21000 bytes
and the bitmap begins behind them.

A run of free pages is counted across words that are skipped, so a range of several pages
can overlap one that is held. `Fits` says which calls it does not go wrong for: a single
page, a range behind all that is taken, a range the first gap holds. All that kinit makes
are such (`kernel.c:203-217`: 8, 16 and 4096 pages one behind the other, then 16 and 8 in
the gap of the first 24), and `FittingSpec` makes such calls in any order; `Spec` makes any.

### Keyboard

The keyboard is external: the user presses, repeats and releases keys, and each
sends its bytes one by one; every byte is one interrupt. `keyboard_isr` is the
decoder with its four states, the key states, the flags and the push. kmain is
reset, then for ever `keyboard_readKey` and `keyboard_getKeyState`; as
`buffer_index` is loaded, compared and stored with interrupts on, the pop is two
steps, between which bytes may come, and the key may be loaded before or after.
`unread` (a bag) remembers what has been pushed and not been returned.
`ResetAnytime` says whether `keyboard_resetState` of kmain may fall into a key.
`MaxPresses` bounds presses and repeats. The character map is left out.

`CapsOnPress` is an equivalence: CAPS flips when the code of caps lock comes while the
driver has the key as UP, and only then. That is not once per press: a release after a
repeat leaves the key DOWN (`keyboard.c:152`, `ReleasedIsUp` below), the press that follows
takes it from DOWN to HELD, and line 168 does not fire (`EveryPressFlips` below).

### Irq and Ata

`kinit` is the only caller of the disk driver, before any process exists, so the
actors are kinit, the interrupts and the drives. Interrupts are off except in
`waitForIRQ`, between `EnableInterrupts` and `RestoreInterrupts`; a handler runs
with interrupts off and is one step (`vector` says which line is being handled,
and kinit does nothing meanwhile). The test of `is_blocked`, the `hlt`, and what
follows the `hlt` are steps of their own: the answer may come between any two.

The 8259 pair and the drives are external. A line is `asserted` by its device; an
edge is latched in `irr` and taken by priority into `in_service`, where it holds
off everything below until it is acknowledged. When a device withdraws a request
(its status is read) that was latched and not yet taken, the controller may answer
with its lowest line without setting it in service, or with the line itself: both
happen in the model, so `pic_checkSpurious` is used. A drive takes a command when it
is ready and ignores it while it works on another; it may answer at any time, with
an error, or (a type it does not understand) only with an error. A missing master
never answers, which is where the timeout of `waitForIRQ` is needed.

All handlers of the kernel answer HANDLED, so the walk along a chain ends at its
head; a chain has a second member when both drivers of one line register, which no
machine of the scenarios needs. `Scenarios` are machines (what hangs at either bus)
with the calls kinit makes. The calls of the source are four reads, of
either bus and by either kind of command (`kernel.c:122-128`); two scenarios make the
driver's other calls in the same place.

Abstracted: sector numbers, LBA28 and LBA48, the fields of the identification,
the delays of 400 ns (four reads of the status). The polls of `initDevice` (`ata.c:398-403,
417-420`), which have no bound, are inside the one step `Identify`: that a drive answers its
identification is assumed, so `KinitFinishes` says nothing of a drive that stays busy there. `kmalloc` and `krealloc` do not fail
here. A read behind the array `controllers` gives any value and does not fault: the
page-fault handler maps the page. Exceptions and the reprogramming of the
controllers by `pic_init` are left out.

### Paging

A page is a number; the table a directory entry names is kept with the frame that
holds it, so two entries with one frame share a table, as they do in memory. Between
any two steps the processor may keep a translation in `tlb`, and it uses that one
until it is flushed. kinit runs with interrupts off: a step is one call of
`vmm_map_address` or `vmm_unmap_address` with the `pmalloc` that feeds it, and `step`
and `call` are the place in kinit and in a loop. `pmalloc` and `vmalloc` give the
lowest that is free; how they search is `Pmm`'s and `Vaddm`'s business. The heap is
seen from below: blocks of pages come from `psbrk` and go back to it, and a page of a
block is touched at any time, which is a page fault if nothing is mapped there. A
pointer of `psbrk` is a `linear_addr_t*`, so the break moves four times as far as the
pages asked for and one page in four is mapped (`PtrScale`, 2 in the run); the page
fault handler supplies the others.

`kfree` may give back any block (`liballoc.c:688-697` frees a major as soon as it is
empty), and the break goes down by the size of that block whatever its address. So
blocks above the break lose their pages (`BlockPagesStable` below); what the code does keep
is that a page mapped below the break keeps its frame (`BelowBreakStable`), since a mapped page
is never mapped again and only those above the new break are unmapped. Left out: the image of the kernel and the window on the tables, mapped by `boot.S`
and never changed; the hard limit of the break.

`LayoutAssumption` is the address map of the kernel: what `vmalloc` gives, the page of the
names, then the kernel's own pages in the order of their addresses (`VADDM_BASE` at
`vmm.c:27`, `PMM_BASE` at `pmm.c:30`, `HEAP_START` at `alloc_hooks.c:25`, and the page of the
test in `kernel.c`). That `vmalloc` stays in the first table and the heap below the page of the test are bounds. The frames of
the modules and of their names are outside the pool; that `pmm_init` does not see to
it is `ModuleReserved` below.

### Ps2

The driver is a sequence of labels (`pc`), each a command, a byte that is read or a
wait. The devices are external: a byte sent to one makes it append its answers to
what is `coming` from it, and each answer arrives through the one-byte output
buffer when it likes; reading an empty buffer gives the byte read last. A wait with a
watch dog may end without an answer, a wait without one cannot. `late` remembers that
a watch dog expired while an answer was on its way. The controller's answers to its own
commands are there at once, which the code assumes where it does not wait.
`hasDEV2` is the whole configuration byte with bit 5 turned over, as in the code, and
becomes the bit of a channel by `>> 4`. Scan codes are `Keyboard`'s business.

### Printf, Tty, Serial, Console

A call (`printf`, `terminal_puts`, `log`) is a sequence of steps on the terminal and
the serial port - write a cell, advance, scroll, write one of the cursor's ports, wait
for the UART, write a byte - and kmain takes them one by one. Between any two the
timer may print the status line as a whole (it runs with interrupts off), and an
exception may end the call for good: `kspanic` prints from whatever state the step
left. `Tty` says what a step does, and which steps it turns out to need: the
advance in the last column needs a scroll. The UART has a queue which the line
empties.

`Printf` models the loop of `vprintf` over formats, including what it does wrong: `%x`
without `l` takes no argument, so that the arguments behind it move up. The
properties compare with what the format means (`Meaning`) laid out on an endless
paper (`Lines`); the screen is its last rows. `vsprintf` writes a piece from its
character number `strlen(dest)` on, as in the code.

Characters are letters in strings, a level name stands for its four letters, and in the
dump one register stands for its line. A format that ends in `%` (the code reads
behind it) is not among the inputs. `scroll` copies one row more than the screen has:
the row behind it, `Below`, appears at the bottom of the screen, so the run assumes
that this memory is blank.

## Runs

| run | expects | shows |
|---|---|---|
| `boot` | pass | 3 processes (one in ring 3), 3 kernel calls before them, every creation may fail: a context goes on with its registers at its own word of its own stack, a process in ring 3 enters the kernel on its own stack, and every process runs again and again |
| `services` | pass | kernel processes allocate, register IRQ handlers, wait and create while they are preempted: list, PIDs, critical sections, refinement of `RoundRobin` |
| `frames_low` | pass | 16 frames below the boundary, 4 clients, single, low and aligned-pair requests: exclusive holding, only usable frames, no leak, null frames |
| `frames_high` | pass | 5 frames above the boundary too, all kinds of requests: types, hints, a free frame is found |
| `heap` | pass | three blocks of three sizes, one larger than the smallest major, in up to three majors: lists, bounds and sums are sound, pages are asked for only when no major has room, every call returns, refinement of `Allocator` |
| `vaddm` | pass | one, two and twelve pages, in every order that fits and with anything in `superpage_bitmap` at first, until the searched words are full: none handed out twice, none refused that is free and can be reached |
| `keys` | pass | Shift, Caps Lock, Print Screen (extended) and Pause (eight bytes), overlapping in every order, a buffer of two: decoder, flags, when caps lock flips, and the buffer is read to its end |
| `disks` | pass | eight machines (disks, CD-ROMs, missing masters, drives of no known type) with ticks, keys and spurious requests between any two steps: no handled line stays in service, `ata_irq` always finds its device, no answer outlives its wait, calls give their device back, kinit gets to its idle loop |
| `paging` | pass | kinit from `pmm_init` to `idle_process` on seven tables of eight pages: two modules, a user process, the PMM test, page faults, a heap that grows and shrinks in between, a processor that keeps any translation: frames and pages stay in step, the TLB agrees, ring 3 reaches its pages only, what is mapped below the break keeps its frame |
| `ports` | pass | seventeen controllers with keyboards, mice and empty ports whose answers come at any time: initialisation ends; a single keyboard is identified, scans and interrupts and leaves no byte behind, unless a watch dog gave an answer up |
| `console` | pass | two calls with wraps, scrolls, numbers, tabs and a log, the status line between any two steps of them, and an exception in the first: screen, cursor and serial line have what was said |
| `unlock` | violation | see Findings |

`HeapSound`, `UsableAccounted`, `DecoderSound`, `HandlerReady`, `FramesInStep`, `UserRuns`,
`KeyboardUsable` and `DisplayRight` are conjunctions of named parts, each defined with its
comment just before; a module's type invariant is the first part where it has one.

The configurations of `MCScheduler`, `MCPmm`, `MCPaging`, `MCPs2` and `MCConsole` say
`CHECK_DEADLOCK FALSE`: kinit halts for ever when all creations failed, a client
that holds its block has nothing to do when memory is exhausted or the machine has
crashed, and kinit, the initialisation of the ports and `kspanic` come to an end.
The others check for deadlock.

Bounds. `BootCalls` limits the calls of kinit, `WorkModulus` counts the progress
of a process modulo a small number (2 is enough to see a lost slice), three
processes give every branch of the list code (empty, one, two, more) and the
user/kernel pair. For the PMM 4 words of 4 bits, 2 frames to a hint and 2
superblock words keep every ratio above 1: words with several groups, superblock
words with several words, the overrun of `check_super_region`; stack pages have
2 slots, so that a page fills up, is chained and is popped back. `LowMemGroup`
is the last group but three. For the heap a major is two pages of 16 units, of
which a large request needs more; the limit of 120 units leaves room for three
majors, the fewest that have one in the middle. Three blocks of sizes 1, 5 and 30 give gaps in
front, between and behind. Three presses let a key be held while another goes
down and repeats, which the flags depend on.
For the addresses, requests of one and two pages leave gaps, and one of twelve is longer than
all that is searched and goes round it, as 4096 pages do in kinit; five ranges fill it.
For the disks `MaxTimeout` is 2 instead of 256 - a wait may end by the answer at
once, after another interrupt, or by the timeout - and a packet command sends at
most one block (`MaxBlocks`), so the second wait of the loop finds either more or
the end.
For the page tables, seven tables keep apart what the code keeps apart (program, names of
the modules, the kernel's own pages, three of the heap, the test page); the heap runs
through them in three moves of the break (`MaxBreaks`): grow, grow and shrink, or
shrink and grow again. It does so before the modules, between two processes and
after the test (`HeapSteps`), the places that differ in what has been mapped. A block
has three pages (`Requests`), of which some are mapped by `psbrk` and some by page
faults. The TLB keeps any of four pages (`TlbPages`): one of the program, the one
whose mapping is removed, one of the heap and the test page. `BigSize` is 26 frames,
more than lie below the gap, as 128 are in the machine; a run ends where frames would
(`HasFrames`).
For the ports the machines are enumerated (`MCPs2`): both ports with every pair that
matters, one port, a controller whose bit 5 is stuck or inverted, failed tests.
For the console, 6 columns and 4 rows make every call of the run wrap or scroll, an
int of 8 bits (`WordBits`) has numbers of three digits and both signs, `Byte` is 16,
above the positions of a row, and two calls show that what one leaves the next
starts from (`MaxCalls`); the exception comes in the first (`FaultCalls`), as later ones
only repeat it. The queue of the UART has 4 bytes, as many as the longest string of the
run.

Fairness. `FairSpec` assumes weak fairness of a processor step and of the timer
tick. The PIT runs as a rate generator, the PIC latches the request while
interrupts are off, `timer_isr` always returns HANDLED and so is always
acknowledged (`pit.c:12-16`, `idt.c:133`). `EveryProcessRuns` is checked where
processes call no service: one that does turns interrupts off for good
(finding `unlock`), and nobody else runs after it. `Heap!FairSpec` assumes that
the kernel goes on with a call it is in: it holds the lock, interrupts are off.
`Keyboard!FairSpec` assumes that a byte raises its interrupt (the controller holds
it until it is read) and that kmain gets its turns.
`Ata!FairSpec` assumes that the timer ticks, that a drive which works on a command
it understands or not answers some time, that requests are taken and handled, and
(strongly, as every interrupt disables it for a while) that kinit gets on between
interrupts; keys and the answers' contents are free.
`Ps2!FairSpec` is weak fairness of the whole: the processor goes on, and where it polls
the device sends what it owes; a watch dog may expire at any time.
Nothing is said of the end of a print: `Console` has no fairness and safety properties only.

## Findings

A disagreement between the code and what the repository says of it, with a
run that TLC ends with a counterexample:

- `unlock`: `hal_disableInterrupts` always saves 0, so the unlock of the heap
  turns interrupts off where `liballoc.h:40` promises them back. The same fact is
  what keeps nested sections and the unlocked `pid_counter++` atomic: with the
  byte saved correctly (`SavedFlagAsBool`) the run list and the PIDs break.

### More configurations

Counterexamples kept beside the runs, for running by hand (`tlc -config
<configuration> <module>`). A row names a configuration and what to change in it;
its definitions are those of the MC module.

| configuration | property | what it shows |
|---|---|---|
| `MCScheduler_services`, `Calls <- NoCalls`, `BootCalls = 0`, `SpillHitsFlag = TRUE` | `RegistersSaved` | the first slice of every process but the first is lost (`scheduler.c:67`) |
| `MCScheduler_alone` | `NothingOverwritten` | a process alone in the list is put back to its first ESP, a few words above its frame on the same stack; one of EIP, CS and EFLAGS is overwritten before it is copied, against `idt_stubs.S:247-249` ("careful ... as to not overwrite anything") |
| `MCPmm_stack` | `HeldExclusively` | the free stack hands frames out twice (`pmm.c:104-113`) |
| `MCPmm_low`, `BootRegions <- SparseMap`, `Requests <- PairRequests`, 2 clients | `HeldExclusively` | a contiguous run spans frames in use (`pmm.c:164-168`) |
| `MCPmm_low`, `Requests <- TestRequests`, 2 clients, `SelfTest = TRUE` | `HeldExclusively` | kinit's PMM test frees 4096 frames of a block of 128 |
| `MCPmm_low`, `Requests <- SingleRequests`, 2 clients | `FreedIsReusable` | frame 3 can be allocated but not freed (`pmm.c:285`) |
| `MCPmm_low`, `BootRegions <- LowestMap`, `GroupBits = 4`, `NumSuperWords = 1`, `FirstFreeable = 6` | `UsableAccounted` | `pfree` loses the whole of a run that begins below the first frame it frees (`pmm.c:285`) |
| `MCPmm_low`, `BootRegions <- ModuleMap`, `Requests <- SingleRequests`, 3 clients | `ModuleReserved` | the frames of modules are not reserved (`kernel.c:83`) |
| `MCHeap_release` | `NewMajorApart` | `liballoc_free` lowers the break whatever it is asked to free (`alloc_hooks.c:107`, against `liballoc.h:57-58`): majors given back in another order than they were taken, and the next one lies over one in use |
| `MCHeap_release`, `HeapLimit = 264` | `MajorsInHeap` | the failure value 0xFFFFFFFF of `psbrk` is taken for a major |
| `MCHeap_heap`, `HeapLimit = 72`, `MaxBlocks = 4`, `SPECIFICATION Spec` | `ReallocKeepsBlock` | a `krealloc` that cannot grow a block loses it (`liballoc.c:823`) |
| `MCVaddm_pages`, `SPECIFICATION Spec` | `AddressesHeldOnce` | a range of several pages overlaps one that is held (`vmm.c:213-231`) |
| `MCVaddm_pages` | `NoPageMissed` | `superpage_bitmap` is not cleared (`vmm.c:289`): pages that only a marked super page reaches are never found |
| `MCVaddm_pages` | `KernelKept` | a region ends at its size, not at its end (`vmm.c:273`) |
| `MCKeyboard_released` | `NoneMeansEmpty` | a key that comes during a pop is left behind |
| `MCKeyboard_released` | `KeyReadOnce` | the last key of the buffer is returned twice (`keyboard.c:80`) |
| `MCKeyboard_released` | `ReleasedIsUp` | a key that repeated is DOWN after its release (`keyboard.c:152`), against `keyboard.h:194` ("the current state of the key") |
| `MCKeyboard_keys` | `EveryPressFlips` | a press of caps lock after a repeat and a release does not flip it (`keyboard.c:152`) |
| `MCKeyboard_released`, `make <- ExtendedMake`, `break <- ExtendedBreak` | `PressedIsDown` | extended keys are looked up one entry too low (`keyboard.c:141`) |
| `MCKeyboard_released`, `make <- PauseMake`, `break <- PauseAndBreak` | `PauseReleased` | Pause stays down (`keyboard.c:90` compares the state, not the key) |
| the same, `ResetAnytime = TRUE` | `DecoderInStep` | a reset in the middle of Pause leaves the decoder behind |
| `MCAta_empty` | `ReadsData` | a read ended by an old request or by the timeout succeeds without data (`ata.c:171-183`) |
| `MCAta_empty`, `Scenarios <- ForeignScenarios` | `LinesOpen` | a drive of no known type leaves a request without handler in service for ever (`ata.c:68-72`, `idt.c:128`) |
| `MCAta_empty`, `Scenarios <- AllScenarios` | `NoneInUse` | a failed packet command keeps its device (`ata.c:311`) |
| `MCAta_empty`, `Scenarios <- BurnScenarios`, `SPECIFICATION FairSpec` | `KinitFinishes` | a packet that writes is executed as a read; the drive waits for data, kinit for the drive (`atapi_getCommandType`) |
| `MCPaging_drop` | `NothingDropped` | a heap that shrank leaves the page of the new break mapped; when it grows again that page is refused and its new frame lost (`vmm.c:65`, `alloc_hooks.c:50`) |
| `MCPaging_drop`, `Modules <- OtherFirst` | `ProgramFound` | the offset of a module's name is or-ed into a pointer that keeps the bits of the names before (`kernel.c:151`) |
| `MCPaging_drop` | `BlockPagesStable` | a block that is given back takes the pages of the last one (`alloc_hooks.c:107`) |
| `MCPaging_drop` | `TrapFramePrivate` | the frame of a trap from ring 3 is written below the kernel stack's page, onto the program's own stack (`tasks.c:84`) |
| `MCPaging_low` | `FramesAccounted` | `pfree(paddr_big, 4096)` frees frames in use above the block (`kernel.c:190`) |
| `MCPs2_late` | `KeyboardReadyLate` | a keyboard whose answer is later than the watch dog is not identified (`ps2.c:51`) |
| `MCPs2_late` | `SecondPortFound` | bit 5 is read the wrong way round after the second port is enabled: it is never used (`ps2.c:134`) |
| `MCPs2_late` | `KeyboardIsKeyboard` | any device on the first port passes for the keyboard (`ps2.c:249`) |
| `MCPs2_absent` | `InitEnds` | with no device on the first port `waitACK` never returns (`ps2.c:32`) |
| `MCConsole_long` | `SerialComplete` | a string longer than the queue of the UART loses its end (`serial.c:87`) |
| `MCConsole_long`, `Calls <- CallsShort` | `ScreenShows` | `%x` prints what is in `number` and leaves its argument to the next conversion |
| `MCConsole_long`, `Calls <- CallsTab` | `ScreenShows` | a tab next to the margin writes in column 80 and wraps one column late (`tty.c:67`) |
| `MCConsole_long`, `Calls <- CallsBack` | `ScreenShows` | a backspace in column 0 goes to column 255 (`tty.c:75`) |
| `MCConsole_long`, `Calls <- CallsLeast` | `ScreenShows` | the least int is printed from before the table of numerals (`itoa.c`) |
| `MCConsole_long`, `Calls <- CallsScroll`, `Below <- BelowJunk` | `ScreenShows` | the row behind the screen appears on it at the first scroll (`tty.c:194`) |
| `MCConsole_long`, `Calls <- CallsScroll`, `Pids = {12, 1}` | `StatusRow` | a shorter status line leaves the end of the longer one behind |
| `MCConsole_long`, `Calls <- CallsSprintf` | `SprintfRight` | `sprintf` drops the beginning of every piece but the first |
| `MCConsole_panic` | `PanicOnScreen` | an exception between the count of a row and the scroll: its message starts below the screen |

## Proofs

TLAPS checks every theorem for all values of the constants; the assumptions are
the named ASSUMEs of the modules, which TLC evaluates on the instances.

`SchedulerProofs`: `IInv` is inductive. Its core is that `were_intrs_enabled` is
always 0, so interrupts are on only in code that has never been in a critical
section: kinit at its end, a fresh process, the wait of `ata.c`. Hence a tick
finds no open section, no half-created process and no foreign context. From it:
`TypeCorrect`, `ContextsAreOwned`, `CriticalSections`. `StacksAreOwn` rests on lemmas about
the stubs: `change_stack` builds a frame at any ESP, and `revert_change_stack` leaves what iret
pops in place when the two stacks differ (a switch) or when the ESP it goes to is where the
frame was pushed (any interrupt that changes nothing); a tick of a process alone in the list is
neither. That a switch from ring 3 leaves another stack needs `TssInv`: esp0 names a
kernel stack while a user process is `p_current`. `RunList` and `PidsUnique`
are not inductive by themselves: the second part of the module adds that the process
about to be linked has no successor, and that between the read and the write of
`pid_counter` nobody has written it; then `RunListIntegrity` and `UniquePids`.

`RoundRobinImplemented` maps every step to a step of the queue
or to a stutter. The abstract queue is read off the pointers, so the proof rests on
`ListInv` of `RunListIntegrity`: appending to the list appends to the queue, a switch
rotates it, and the half-done changes of `schedule_process` leave it alone.
`UserStacksInTss` adds to `IInv` when `tss_set_esp0` was last called and for whom.

`PmmProofs`: `BitmapInv` (types of the bitmaps and the loops, hints, null frames;
a loop of `pfree` starts at frame 4 or above) is inductive and gives
`HintsAreSound` and `NullFramesReserved` for any memory map and any requests.
`FreeFramesAreFound` follows from the hints: a free frame is in `Visible`, and the
first visible one is found. `TypeCorrectness` adds what the pages of the free stack look
like; it assumes `MemoryKnown`, that the loader describes only memory the machine has.

The other theorems are about `Available`, the frames that will be free once the loop in
progress is over. A round of a loop leaves it alone, so that what is held, reserved and
available changes only where a call or a region begins, and each such step is
a change of sets. `HoldInv` says that no client holds what is available or what another
holds; `AccountInv` that the available, the held and the not yet described frames
are all the usable ones. Their hypotheses are conditions on the callers that
the counterexamples above show to be needed: `OrderlyClients` (runs are asked for with
`align_64kb`, and no 4096 frames of a block of 128 are freed; kinit's PMM test does
both, and is compiled in as `_DO_TESTS` is not defined), `HighFrames = {}` for `FramesHeldExclusively` (the free stack hands
frames out twice; `LowFramesHeldExclusively` does without it, and asks for orderly calls
one by one: it holds from kinit's start up to its test, and again from any later state in
which what is held is marked and held once), `MapFits` (no region
of the map wraps at 4 GiB) and `RunsFreeable` for `UsableFramesAccounted` (no run begins
below frame 4, or only single frames are asked for, as kinit does).

`HeapProofs`: `IInv` is inductive. `Headers` and `MajorsApart`, `MinorsApart` are the types and
the layout; `Sorted` says what the pointers of the minors are in terms of the set of
minors of a major - the next and the previous one in the order of addresses -, so that a
link or an unlink is a change of that set, and the list needs no order function. `Held`
relates headers and blocks one to one, `Accounting` is the sums of the code (`SumOver`
lemmas: a sum changes by what is added, taken away or changed at one place). What is
not inductive without the call in progress is in the last two: `Calling` says that a
major without minors is the one the call has just made, with room for what it asks for,
and `Walked` that the majors form one list, in which everything before the place the walk
is at was full, unless the walk began at the best bet. From these come `SoundHeap`, `ApartBlocks`,
`GrowsOnlyWhenFull` and the refinement `HeapAllocates`, in which the steps of a walk are
stutters and the placing of a header is the allocation of a block.

These theorems assume `Hooks = "contract"`: what `liballoc_alloc` gives is free, and
what `liballoc_free` takes back is what it was given. `psbrk` does not keep that
(`MCHeap_release`), so they say what the lists do by themselves. Nothing else is assumed of sizes, limits or requests but
`HeapAssumption`.

`VaddmProofs`: what a call that fits finds. `TheRun` says what the search returns: the first
place where enough is counted, and the first of the run that ends there. The page is free and
no free page that is looked at lies before it - for one page (`SingleIsLowest`), because an
earlier one would have been a hit; behind all that are taken (`PackedIsLowest`), because the
run could have started earlier; in the first gap (`GapIsFound`), because the last page of
the gap is a hit at the latest. So the range is free (`FittingRange`) and `AddressesHeldOnce`
is inductive. `SearchInv`: a free page that could be reached at the start can still be. A
super page is marked when the words that are looked at from some page of the new range on
are full; a free page that it reaches would lie behind the range, in one of those words. No
assumption is made about `superpage_bitmap` or the sizes; `FittingSpec` excludes calls, and
the row above shows that it must.

`KeyboardProofs`: `IInv` relates the bytes still to come to the decoder's state, one
clause for each shape of a key (`InPlain`, `InExtended`, `InDouble`, `InPauseKey`). It holds
for any tables and keys that satisfy `CodesAssumption` - the make and break codes are
those of scan code set 2 - and under `~ ResetAnytime`: kmain resets the driver before the
first key is pressed. From it come `DecoderIsSound`, `StatusIsTrue` (by a stronger
invariant: the flags are right after every byte) and `CapsFlipsOnPress`.

`AtaProofs`: handlers run, and requests are taken, only while kinit is in a wait or in
its idle loop, because the saved interrupt flag is always 0; so at most one
handler runs, and at its end the lines in service are those without a handler and
their cascade (`Quiet`, `Service`). With what the identification has published (`ChainsOK`,
`DriverOK`) that gives `LinesAreFreed`, `HandlerIsReady`, `NoAnswerIsKept` and
`DevicesAreReleased` for any `Scenarios`, any timeout and any number of blocks.

`PagingProofs`: `Inv` is inductive, in three layers. `Flow` is the course of kinit and of the
loops of `psbrk` alone: what `vmalloc` has given is the beginning of its range, and the
blocks of the heap, wherever they are, would end at the break if they were pushed together
(so giving any of them back leaves room for its size below the break). `TablesInv(S)` is about
tables, frames and TLB and knows nothing of kinit: no two tables and no two pages share a
frame of the pool, the frames taken are those in use, those dropped and S, and the TLB has
what the tables have. One call of `smap_page` or `sumap_page` keeps it (`MapNewKeeps`,
`MapOtherKeeps`, `UnmapKeeps`, by what `SmapEffect` and `UnmapEffect` say of every entry),
whoever calls. `Placed`, `Phase` and `TestOK` tie the two together: where a page may be
mapped, that only one table is there before `pmm_inited` (they would all be at 0x1000), and
that `paddr1` is the lowest free frame until it is taken again. Each action has a lemma
that gives the invariant and the entries it changes (`HeapKept`, `KernelOnly`); from
these come `FramesStayInStep`, `TlbStaysTrue`, `HeapStaysMapped` and, with `UserInv` (the
pages of ring 3 are those with the user bit), `ProgramsRun`.

Two hypotheses stand for what the code leaves to luck.
`[]PieceIsLast`: when kinit's test frees 4096 frames of a block of 128, no frame above
the block is in use (`MCPaging_low` is a machine where one is; on the instance of the run
`paging` TLC finds it true). `OneProgram`, for `ProgramsRun`: the loader passes the test
program once; a second one stays reachable after the first.

`Ps2Proofs`: `IInv` has three parts. `Quiet`: before the first reset nothing is on its way.
`Counted`, for any controller and devices: the bytes on their way are at most those of
the resets and names that no `waitACK` was called for (`Unread`, which never falls), and
one more inside `waitACK`; so `TypeOK`'s bound of seven holds. `Alone`, `ResetAnswers`,
`NameAnswers`, `Identified` are the table of the dialogue with one keyboard: at each label
exactly which bytes have been sent and not been read (`Flight`: the buffer and what is behind
it, which a delivery does not change). Each answer is read one command late until
`detectDevice`, whose byte reads take up the slack, and the table has at each label
every sequence the race of the second read of `waitACK` can leave. `UsableKeyboard` is
`KeyboardUsable` for any set of machines; nothing is assumed but `Ps2Assumption`.

Induction over numbers is used in one form: a set of naturals that is not empty has a
least element (`LeastElement`), by the library's well-foundedness of `<`; so has a
collection of finite sets by inclusion (`SmallestSet`), which is how `SumOver` is computed.

Only model-checked: liveness (`EveryProcessRuns`, `EveryCallReturns`, `BufferIsRead`,
`KinitFinishes`, `InitEnds`), which needs fairness and ENABLED; and the three invariants of
`Console` (`DisplayRight`, `CursorTrue`, `SerialComplete`). These compare the screen and the
serial line with folds over all that was said, whose values need an induction over that
text, and `Tty` runs the status line to its end with a RECURSIVE operator, which keeps
the provers out of the module.

## Plan

Every component with state of its own is modelled, and every invariant and action
property that a run checks is a theorem but for the three of `Console`. What could come
next: `Finish` of `Tty` as a fold, and with it that a single step of the terminal keeps the
cursor's registers and the position in agreement (`CursorTrue`).

## Not modelled

- `boot.S`, `crti.S`, `crtn.S`: straight-line assembly; the state it leaves is the
  initial state of the models.
- The functions of the C library on memory and strings: single loops without state
  that outlives a call.
- Serial input, `kdump_useRegs`, `kdumpStack`, the mouse half of `ps2_getDevHID`: nobody
  calls them. `serial_init`, `debugger.c`, `pic_init` and the descriptors of
  `idt_init` are straight-line port writes and tables.
- The multiboot headers and the parsing of what the loader passes: data, of which the
  models' initial states are made.
- `vfs.c` is empty; the `apic` and `hpet` headers are unused.
- Interrupts other than the timer appear in `Scheduler` as `Isr` only, which takes the
  context through the stubs and back: their handlers touch none of its state.
