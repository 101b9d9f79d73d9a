------------------------------- MODULE Paging -------------------------------
(***************************************************************************)
(* The page tables (kernel/arch/i386/vmm.c up to line 171) and what maps   *)
(* pages: pmm_init, vaddm_init, the break of the heap (mm/alloc_hooks.c),  *)
(* process_create, the modules and the PMM test of kinit, page faults.     *)
(*                                                                         *)
(* A page is a number, as PAGE_TABLE_BASE is indexed.  A page table is     *)
(* kept with the frame that holds it, so two directory entries that name   *)
(* one frame share a table.  The processor may keep any translation in tlb *)
(* until it is flushed.  pmalloc (module Pmm) gives the lowest free frame, *)
(* vmalloc (module Vaddm) the lowest free page.  The image of the kernel   *)
(* and the window on its page tables, which boot.S maps, never change and  *)
(* are left out.                                                           *)
(*                                                                         *)
(* kinit runs with interrupts off: a step is one call of vmm_map_address   *)
(* or vmm_unmap_address, with the pmalloc that feeds it.                   *)
(***************************************************************************)
EXTENDS Integers, Sequences, FiniteSets, Functions, FiniteSetsExt

CONSTANTS
    Slots,          \* entries of a page table (1024)
    KernelTable,    \* directory index of KERNEL_VIRTUAL_BASE (768)
    NumTables,      \* entries of the page directory
    Frames,         \* frames the PMM has to give
    BootTable,      \* the table smap_page uses before pmm_init (0x1000)
    PmmFrame,       \* the frame of the PMM's bitmaps (0x2000)
    BigSize,        \* frames the PMM test takes in one piece (128)
    VMallocBase,    \* the first page vmalloc gives (1 MiB)
    CmdlinePage, VaddmPage, VaddmSize, PmmPage, BrkBase, TestPage,
    PtrScale,       \* sizeof(linear_addr_t): psbrk adds bytes to a pointer
    Modules,        \* the modules of the loader: a sequence
    Requests,       \* pages liballoc asks for
    HeapSteps,      \* bound: the steps of kinit that use the heap
    MaxBreaks,      \* bound: moves of the break
    TlbPages        \* bound: pages the TLB may keep

Pages == 0 .. NumTables * Slots - 1
Tables == 0 .. NumTables - 1

\* The frames the kernel manages itself.
Pool == Frames \cup {BootTable, PmmFrame}

ASSUME PagingAssumption ==
    /\ Slots \in Nat \ {0} /\ NumTables \in Nat \ {0} /\ KernelTable \in Tables
    /\ IsFiniteSet(Frames) /\ Frames \subseteq Nat \ {0, BootTable, PmmFrame}
    /\ BootTable \in Nat \ {0} /\ PmmFrame \in Nat \ {0, BootTable}
    /\ {VMallocBase, CmdlinePage, VaddmPage, PmmPage, BrkBase, TestPage} \subseteq Pages
    /\ PtrScale \in Nat \ {0} /\ VaddmSize \in Nat /\ BigSize \in Nat \ {0}
    /\ Modules \in Seq([frame : Nat \ Pool, cmdline : Nat \ Pool,
                       offset : SUBSET Nat, isTest : BOOLEAN])
    /\ Requests \subseteq Nat \ {0} /\ MaxBreaks \in Nat
    /\ HeapSteps \subseteq {<<"modules", 1>>, <<"test", 1>>, <<"idle_process", 0>>}
                      \cup ({"process_create"} \X (1 .. 3))
    /\ TlbPages \subseteq Pages

VARIABLES
    PAGE_DIRECTORY,
    page_tables,        \* the table in each frame that holds one
    tlb,                \* the translations the processor has kept
    pmm_inited,         \* pmm_isInited
    taken,              \* frames pmalloc has given and nobody has freed
    dropped,            \* frames nothing names any more (history)
    step,               \* what kinit does next
    call,               \* the loop in progress
    brk_limit, has_mapped,
    breaks,             \* moves of the break (for the bound)
    blocks,             \* what liballoc has got from psbrk, in order
    vpages,             \* pages vmalloc has given
    processes,          \* [stack, kernel_esp, user], the pages of each
    program,            \* test_laddr, or 0
    cmdline,            \* the bits or-ed into the pointer to the name
    test,               \* what the PMM test holds: [big, paddr1, paddr3]
    panic

pagingVars == <<PAGE_DIRECTORY, page_tables, tlb, taken, dropped>>
heapVars == <<brk_limit, has_mapped, breaks, blocks>>
kinitVars == <<vpages, processes, program, cmdline, test, panic>>
vars == <<pagingVars, pmm_inited, step, call, heapVars, kinitVars>>

Entries == [present : BOOLEAN, frame : Nat, user : BOOLEAN, rw : BOOLEAN]
Absent == [present |-> FALSE, frame |-> 0, user |-> FALSE, rw |-> FALSE]
Entry(frame, user, rw) ==
    [present |-> TRUE, frame |-> frame, user |-> user, rw |-> rw]
EmptyTable == [i \in 0 .. Slots - 1 |-> Absent]

\* Flags of a mapping.
Kernel == [user |-> FALSE, rw |-> TRUE, remap |-> FALSE]
KernelRead == [Kernel EXCEPT !.rw = FALSE]
User == [Kernel EXCEPT !.user = TRUE]
UserRead == [User EXCEPT !.rw = FALSE]
UserRemap == [UserRead EXCEPT !.remap = TRUE]

NoCall == [kind |-> "none", next |-> 0]

-----------------------------------------------------------------------------
(* Frames and translations.                                                *)

\* pmalloc when got is given already, and the first BigSize frames in a row.
pmalloc(got) == Min(Frames \ got)

\* Bound: two frames are left, for a page and a table.
HasFrames == Cardinality(Frames \ taken) >= 2
FreeRuns == {f \in Frames : f .. f + BigSize - 1 \subseteq Frames \ taken}

TableOf(page) == page \div Slots
Index(page) == page % Slots

\* The address map: what vmalloc gives, the names of the modules, and the pages of
\* the kernel, in this order.  For the heap and for vmalloc that is a bound.
ASSUME LayoutAssumption ==
    /\ VMallocBase > 0 /\ VMallocBase + Len(Modules) + 4 <= Slots
    /\ CmdlinePage \in Slots .. KernelTable * Slots - 1
    /\ KernelTable * Slots <= VaddmPage /\ VaddmPage + VaddmSize < PmmPage
    /\ PmmPage + 3 < BrkBase /\ TableOf(PmmPage + 3) = TableOf(PmmPage)
    /\ BrkBase + 1 < TestPage
    /\ \A n \in Requests : BrkBase + 1 + PtrScale * n * MaxBreaks < TestPage

PageEntry(page) ==
    IF PAGE_DIRECTORY[TableOf(page)].present
    THEN page_tables[PAGE_DIRECTORY[TableOf(page)].frame][Index(page)]
    ELSE Absent

\* What the processor makes of the two entries.
Translation(page) ==
    LET dir == PAGE_DIRECTORY[TableOf(page)]
        e == PageEntry(page)
    IN  IF ~ e.present THEN Absent
        ELSE Entry(e.frame, dir.user /\ e.user, dir.rw /\ e.rw)

Cached(page) == page \in DOMAIN tlb

\* What an access to the page uses.
Seen(page) == IF Cached(page) THEN tlb[page] ELSE Translation(page)

\* Mutated form: nothing is flushed.
flush_tlb_none(page) == tlb

flush_tlb(page) == Restrict(tlb, DOMAIN tlb \ {page})

\* f with one more or one other value.
Updated(f, at, value) ==
    [x \in DOMAIN f \cup {at} |-> IF x = at THEN value ELSE f[x]]

-----------------------------------------------------------------------------
(* smap_page and sumap_page.                                               *)

\* Mutated form: the user bit is never set.
NewDirEntryKernel(page, flags, got) ==
    IF pmm_inited THEN Entry(pmalloc(got), FALSE, TRUE)
    ELSE Entry(BootTable, flags.user, TRUE)

\* The directory entry of a table that is missing.
NewDirEntry(page, flags, got) ==
    IF pmm_inited THEN Entry(pmalloc(got), TableOf(page) < KernelTable, TRUE)
    ELSE Entry(BootTable, flags.user, TRUE)

\* Mutated form: a page that is there is mapped again.
RefusesNone(page, flags) == FALSE

\* A page that is mapped is not mapped again, PAGE_REMAP apart.
Refuses(page, flags) == PageEntry(page).present /\ ~ flags.remap

\* smap_page, got being the frames given so far.  If it refuses, the frame the
\* caller got for the page is nowhere.
smap_page(page, entry, flags, got) ==
    LET fresh == ~ PAGE_DIRECTORY[TableOf(page)].present
        dir == IF fresh THEN NewDirEntry(page, flags, got)
               ELSE PAGE_DIRECTORY[TableOf(page)]
        table == IF fresh THEN EmptyTable ELSE page_tables[dir.frame]
    IN  IF Refuses(page, flags)
        THEN /\ taken' = got
             /\ dropped' = dropped \cup (got \ taken)
             /\ UNCHANGED <<PAGE_DIRECTORY, page_tables, tlb>>
        ELSE /\ PAGE_DIRECTORY' = [PAGE_DIRECTORY EXCEPT ![TableOf(page)] = dir]
             /\ page_tables' = Updated(page_tables, dir.frame,
                                       [table EXCEPT ![Index(page)] = entry])
             /\ taken' = got \cup ({dir.frame} \cap Frames)
             /\ tlb' = flush_tlb(page)
             /\ UNCHANGED dropped

\* vmm_map_address of a frame that is known.
MapFrame(page, frame, flags) ==
    smap_page(page, Entry(frame, flags.user, flags.rw), flags, taken)

\* vmm_map_address(page, pmalloc(), flags)
MapNew(page, flags) ==
    LET frame == pmalloc(taken)
    IN  smap_page(page, Entry(frame, flags.user, flags.rw), flags, taken \cup {frame})

\* sumap_page
sumap_page(page) ==
    /\ page_tables' =
          IF PageEntry(page).present
          THEN [page_tables EXCEPT ![PAGE_DIRECTORY[TableOf(page)].frame][Index(page)] = Absent]
          ELSE page_tables
    /\ tlb' = IF PageEntry(page).present THEN flush_tlb(page) ELSE tlb
    /\ UNCHANGED <<PAGE_DIRECTORY, dropped>>

\* vmm_unmap_address: pfree ignores the frame 0 of a page that was not mapped.
vmm_unmap_address(page) == /\ sumap_page(page)
                           /\ taken' = taken \ {PageEntry(page).frame}

-----------------------------------------------------------------------------
(* The processor.                                                          *)

Init == /\ PAGE_DIRECTORY = [t \in Tables |-> Absent]
        /\ page_tables = <<>> /\ tlb = <<>>
        /\ taken = {} /\ dropped = {}
        /\ pmm_inited = FALSE
        /\ step = <<"pmm", 0>> /\ call = NoCall
        /\ brk_limit = BrkBase + 1 /\ has_mapped = FALSE
        /\ breaks = 0 /\ blocks = <<>>
        /\ vpages = {} /\ processes = {} /\ program = 0 /\ cmdline = {}
        /\ test = [big |-> 0, paddr1 |-> 0, paddr3 |-> 0]
        /\ panic = "none"

\* A translation is kept when the processor uses it, or ahead of time.
TlbFill(page) ==
    /\ Translation(page).present /\ ~ Cached(page) /\ panic = "none"
    /\ tlb' = Updated(tlb, page, Translation(page))
    /\ UNCHANGED <<PAGE_DIRECTORY, page_tables, taken, dropped, pmm_inited, step, call,
                   heapVars, kinitVars>>

\* vmm_switch_page_base: all processes have the one page directory.
vmm_switch_page_base ==
    /\ step[1] = "idle_process" /\ tlb # <<>>
    /\ tlb' = <<>>
    /\ UNCHANGED <<PAGE_DIRECTORY, page_tables, taken, dropped, pmm_inited, step, call,
                   heapVars, kinitVars>>

\* kinit calls kmalloc and kfree and uses their blocks between its own steps.
Between == /\ call = NoCall /\ panic = "none"
           /\ step \in HeapSteps
           /\ HasFrames

\* liballoc takes length pages from what psbrk returns.
BlockPages(b) == b.base .. b.base + b.length - 1

\* pf_handler for the kernel: it touches a page of a block it holds that no
\* table maps, and the page is mapped with a frame of its own.
KernelFault(page) ==
    /\ Between
    /\ ~ Seen(page).present
    /\ MapNew(page, Kernel)
    /\ UNCHANGED <<pmm_inited, step, call, heapVars, kinitVars>>

\* pf_handler for a user program: an address of the kernel is a panic.  Below,
\* the handler does nothing and the instruction faults again.
UserFault ==
    /\ step[1] = "idle_process" /\ call = NoCall /\ panic = "none"
    /\ \E p \in processes : p.user
    /\ \E page \in Pages : ~ Seen(page).user /\ TableOf(page) >= KernelTable
    /\ panic' = "SIGSEV"
    /\ UNCHANGED <<pagingVars, pmm_inited, step, call, heapVars,
                   vpages, processes, program, cmdline, test>>

-----------------------------------------------------------------------------
(* pmm_init and vaddm_init.                                                *)

Kinit(name, at) == /\ step = <<name, at>> /\ call = NoCall
                   /\ panic = "none" /\ HasFrames

pmm_init ==
    \/ /\ Kinit("pmm", 0)
       /\ MapFrame(PmmPage, PmmFrame, Kernel)
       /\ step' = <<"pmm", 1>>
       /\ UNCHANGED <<pmm_inited, call, heapVars, kinitVars>>
    \/ /\ Kinit("pmm", 1)
       /\ MapFrame(PmmPage + 3, 0, KernelRead)
       /\ pmm_inited' = TRUE
       /\ step' = <<"vaddm", 0>>
       /\ UNCHANGED <<call, heapVars, kinitVars>>

\* The pages of the bitmap, and behind them one that cannot be written.
vaddm_init ==
    /\ step[1] = "vaddm" /\ Kinit("vaddm", step[2])
    /\ IF step[2] < VaddmSize
       THEN /\ MapNew(VaddmPage + step[2], Kernel)
            /\ step' = <<"vaddm", step[2] + 1>>
       ELSE /\ MapFrame(VaddmPage + VaddmSize, 0, KernelRead)
            /\ step' = <<"modules", 1>>
    /\ UNCHANGED <<pmm_inited, call, heapVars, kinitVars>>

-----------------------------------------------------------------------------
(* The break of the heap.  A pointer to linear_addr_t moves PtrScale times *)
(* as far as the number added to it.                                       *)

\* liballoc_alloc and liballoc_free map the first page of the heap once.
MapBrkBase == /\ Between /\ ~ has_mapped
              /\ MapNew(BrkBase, Kernel)
              /\ has_mapped' = TRUE
              /\ UNCHANGED <<pmm_inited, step, call, brk_limit, breaks, blocks, kinitVars>>

\* liballoc_alloc calls psbrk(length, 0).
GrowBreak(length) ==
    /\ Between /\ breaks < MaxBreaks /\ has_mapped
    /\ brk_limit' = brk_limit + PtrScale * length
    /\ blocks' = Append(blocks, [base |-> brk_limit, length |-> length])
    /\ call' = [kind |-> "grow", next |-> brk_limit]
    /\ breaks' = breaks + 1
    /\ UNCHANGED <<pagingVars, pmm_inited, step, has_mapped, kinitVars>>

GrowPage ==
    /\ call.kind = "grow" /\ HasFrames
    /\ MapNew(call.next, Kernel)
    /\ call' = IF call.next + PtrScale < brk_limit
               THEN [call EXCEPT !.next = @ + PtrScale] ELSE NoCall
    /\ UNCHANGED <<pmm_inited, step, heapVars, kinitVars>>

\* liballoc_free calls psbrk(length, 1): the break moves down from where it is,
\* whatever block is given back, so blocks still held may lie above it.
ShrinkBreak(i) ==
    /\ Between /\ breaks < MaxBreaks /\ has_mapped
    /\ brk_limit' = brk_limit - PtrScale * blocks[i].length
    /\ blocks' = [j \in 1 .. Len(blocks) - 1 |->
                     IF j < i THEN blocks[j] ELSE blocks[j + 1]]
    /\ call' = [kind |-> "shrink", next |-> brk_limit]
    /\ breaks' = breaks + 1
    /\ UNCHANGED <<pagingVars, pmm_inited, step, has_mapped, kinitVars>>

\* The pages unmapped are those at the old break and below it: the page of
\* the new break, where the block began, stays.
ShrinkPage ==
    /\ call.kind = "shrink"
    /\ vmm_unmap_address(call.next)
    /\ call' = IF call.next - PtrScale > brk_limit
               THEN [call EXCEPT !.next = @ - PtrScale] ELSE NoCall
    /\ UNCHANGED <<pmm_inited, step, heapVars, kinitVars>>

-----------------------------------------------------------------------------
(* The modules and the processes of kinit.                                 *)

FirstFree(held) == Min((VMallocBase .. Slots - 1) \ held)

MapCmdline(i) ==
    /\ Kinit("modules", i) /\ i \in DOMAIN Modules
    /\ MapFrame(CmdlinePage, Modules[i].cmdline, UserRemap)
    /\ cmdline' = cmdline \cup Modules[i].offset
    /\ step' = <<"name", i>>
    /\ UNCHANGED <<pmm_inited, call, heapVars, vpages, processes, program, test, panic>>

\* The offset of the name in its page is or-ed into the pointer, which still
\* holds the bits of the names before: the name is read at the right place only
\* if that changes nothing.
ReadName(i) ==
    /\ Kinit("name", i)
    /\ IF Modules[i].isTest /\ cmdline = Modules[i].offset
       THEN LET page == FirstFree(vpages) IN
            /\ MapFrame(page, Modules[i].frame, UserRead)
            /\ vpages' = vpages \cup {page} /\ program' = page
       ELSE UNCHANGED <<pagingVars, vpages, program>>
    /\ step' = <<"modules", i + 1>>
    /\ UNCHANGED <<pmm_inited, call, heapVars, processes, cmdline, test, panic>>

\* The page is mapped again without PAGE_PRESENT.
UnmapCmdline ==
    /\ Kinit("modules", Len(Modules) + 1)
    /\ IF Modules = <<>> THEN UNCHANGED pagingVars
       ELSE smap_page(CmdlinePage, Absent, UserRemap, taken)
    /\ step' = <<"process_create", 1>>
    /\ UNCHANGED <<pmm_inited, call, heapVars, kinitVars>>

\* kinit makes idle_process, the program of the module and kmain.
IsUser(n) == n = 2
AfterProcess(n) ==
    CASE n = 1 /\ program = 0 -> <<"process_create", 3>>
      [] n = 3 -> <<"test", 1>>
      [] OTHER -> <<"process_create", n + 1>>

StackFlags(n) == IF IsUser(n) THEN User ELSE Kernel

StackPages ==
    LET stack == FirstFree(vpages)
    IN  [stack |-> stack, kstack |-> FirstFree(vpages \cup {stack})]

\* process_create: a kernel process gives the second page back.  The stack
\* pointer for traps is the lowest address of its page.
CreateProcess(n) ==
    LET pages == StackPages
        base == IF IsUser(n) THEN pages.kstack ELSE pages.stack
    IN  /\ Kinit("process_create", n)
        /\ MapNew(pages.stack, StackFlags(n))
        /\ vpages' = vpages \cup {pages.stack, base}
        /\ processes' = processes \cup
              {[stack |-> pages.stack, kernel_esp |-> base, user |-> IsUser(n)]}
        /\ call' = IF IsUser(n) THEN [kind |-> "kstack", next |-> base] ELSE NoCall
        /\ step' = AfterProcess(n)
        /\ UNCHANGED <<pmm_inited, heapVars, program, cmdline, test, panic>>

MapKernelStack == /\ call.kind = "kstack" /\ HasFrames
                  /\ MapNew(call.next, Kernel)
                  /\ call' = NoCall
                  /\ UNCHANGED <<pmm_inited, step, heapVars, kinitVars>>

-----------------------------------------------------------------------------
(* The PMM test of kinit.                                                  *)

\* A piece of BigSize frames and paddr1, which is mapped and written.
TestWrite ==
    /\ Kinit("test", 1) /\ FreeRuns # {}
    /\ LET big == Min(FreeRuns)
           got == taken \cup (big .. big + BigSize - 1)
           paddr1 == pmalloc(got)
       IN  /\ Cardinality(Frames \ got) >= 2
           /\ smap_page(TestPage, Entry(paddr1, FALSE, TRUE), Kernel, got \cup {paddr1})
           /\ test' = [test EXCEPT !.big = big, !.paddr1 = paddr1]
    /\ step' = <<"test", 2>>
    /\ UNCHANGED <<pmm_inited, call, heapVars, vpages, processes, program, cmdline, panic>>

TestUnmap == /\ Kinit("test", 2)
             /\ vmm_unmap_address(TestPage)
             /\ step' = <<"test", 3>>
             /\ UNCHANGED <<pmm_inited, call, heapVars, kinitVars>>

\* paddr2 is mapped where paddr1 was.
TestRemap == /\ Kinit("test", 3)
             /\ MapNew(TestPage, Kernel)
             /\ step' = <<"test", 4>>
             /\ UNCHANGED <<pmm_inited, call, heapVars, kinitVars>>

\* pfree(paddr_big, 4096) frees all there is from paddr_big on.  What was written
\* must be read again, and paddr3 be another frame than paddr1.
TestCompare ==
    /\ Kinit("test", 4)
    /\ LET left == {f \in taken : f < test.big}
           paddr3 == pmalloc(left)
       IN  IF Seen(TestPage).frame # test.paddr1
           THEN /\ panic' = "Mappings Not Equal"
                /\ taken' = left /\ UNCHANGED <<test, dropped>>
           ELSE /\ panic' = IF paddr3 = test.paddr1 THEN "Equvalence" ELSE "none"
                /\ test' = [test EXCEPT !.paddr3 = paddr3]
                /\ taken' = left \cup {paddr3}
                /\ dropped' = (dropped \cap left) \cup {paddr3}
    /\ step' = <<"test", 5>>
    /\ UNCHANGED <<PAGE_DIRECTORY, page_tables, tlb, pmm_inited, call, heapVars,
                   vpages, processes, program, cmdline>>

TestEnd == /\ Kinit("test", 5)
           /\ vmm_unmap_address(TestPage)
           /\ step' = <<"idle_process", 0>>
           /\ UNCHANGED <<pmm_inited, call, heapVars, kinitVars>>

-----------------------------------------------------------------------------

Next == \/ \E page \in TlbPages : TlbFill(page)
        \/ UserFault
        \/ vmm_switch_page_base
        \/ pmm_init \/ vaddm_init
        \/ MapBrkBase \/ GrowPage \/ ShrinkPage
        \/ \E n \in Requests : GrowBreak(n)
        \/ \E i \in DOMAIN blocks :
              ShrinkBreak(i) \/ \E page \in BlockPages(blocks[i]) : KernelFault(page)
        \/ \E i \in DOMAIN Modules : MapCmdline(i) \/ ReadName(i)
        \/ UnmapCmdline
        \/ \E n \in 1 .. 3 : CreateProcess(n)
        \/ MapKernelStack
        \/ TestWrite \/ TestUnmap \/ TestRemap \/ TestCompare \/ TestEnd

Spec == Init /\ [][Next]_vars

-----------------------------------------------------------------------------
(* Properties.                                                             *)

\* Type invariant.
TypeOK ==
    /\ PAGE_DIRECTORY \in [Tables -> Entries]
    /\ DOMAIN page_tables =
          {PAGE_DIRECTORY[t].frame : t \in {u \in Tables : PAGE_DIRECTORY[u].present}}
    /\ \A f \in DOMAIN page_tables : page_tables[f] \in [0 .. Slots - 1 -> Entries]
    /\ DOMAIN tlb \subseteq Pages /\ \A page \in DOMAIN tlb : tlb[page] \in Entries
    /\ pmm_inited \in BOOLEAN /\ has_mapped \in BOOLEAN
    /\ taken \subseteq Frames /\ dropped \subseteq taken
    /\ call.kind \in {"none", "grow", "shrink", "kstack"} /\ call.next \in Pages
    /\ brk_limit \in Pages /\ breaks \in 0 .. MaxBreaks
    /\ vpages \subseteq VMallocBase .. Slots - 1

Uses == {[kind |-> "table", of |-> t, frame |-> PAGE_DIRECTORY[t].frame] :
            t \in {u \in Tables : PAGE_DIRECTORY[u].present}}
        \cup {[kind |-> "page", of |-> p, frame |-> PageEntry(p).frame] :
                 p \in {q \in Pages : PageEntry(q).present}}

\* A frame of the PMM's pool, its bitmaps' or the table of the boot is one page
\* table or one page, never two things: who writes to a page writes nothing else.
FramesUsedOnce ==
    \A u, v \in {w \in Uses : w.frame \in Pool} :
        u.frame = v.frame => u = v

\* The frames that pmalloc has given are those in use, the piece of the PMM test
\* while it runs and those dropped: no page leads to a frame that pmalloc may give
\* to somebody else (vmm_unmap_address, pfree), and none is lost another way.
FramesAccounted ==
    taken = ({u.frame : u \in Uses} \cap Frames) \cup dropped
            \cup IF step[1] = "test" /\ step[2] \in 2 .. 4
                 THEN test.big .. test.big + BigSize - 1 ELSE {}

\* The processor keeps no translation that the tables have not (flush_tlb in
\* smap_page and sumap_page, and none elsewhere).
TlbAgrees == \A page \in DOMAIN tlb : tlb[page] = Translation(page)

UserPages ==
    {p.stack : p \in {q \in processes : q.user}}
    \cup (IF program = 0 THEN {} ELSE {program})
    \cup (IF step[1] = "name" \/ (step[1] = "modules" /\ step[2] > 1)
          THEN {CmdlinePage} ELSE {})

\* Ring 3 reaches the pages given to it, through both levels of the tables, and no
\* other page.
UserReachable == {page \in Pages : Translation(page).user} = UserPages

\* The PMM test of kinit passes, whatever the heap has taken and given back, and
\* whatever the TLB kept of the page it maps twice.
PmmTestPasses == panic \notin {"Mappings Not Equal", "Equvalence"}

\* Frames, tables and pages stay in step whatever the heap does between the steps of
\* kinit, so that its own test of them passes.
FramesInStep == TypeOK /\ FramesUsedOnce /\ FramesAccounted /\ PmmTestPasses

\* kernel_esp is the lowest address of a page, so the frame of a trap goes below
\* it: there is a page that can be written (process_create).
TrapFrameLands ==
    \A p \in processes :
        p.user /\ call.kind # "kstack" =>
            Translation(p.kernel_esp - 1).present /\ Translation(p.kernel_esp - 1).rw

\* A user process can run: its pages are there for it, and a trap has a stack.
UserRuns == UserReachable /\ TrapFrameLands

\* What lies below the break of the heap keeps its frame, whatever the heap gives back
\* and wherever it grows: psbrk unmaps above the new break only, and smap_page refuses
\* the pages that are left there when the break comes up again.
BelowBreakStable ==
    [][\A page \in BrkBase + 1 .. brk_limit - 1 :
          PageEntry(page).present => PageEntry(page)' = PageEntry(page)]_vars

-----------------------------------------------------------------------------
(* What the code does not keep; README, "More configurations".             *)

\* No frame is dropped, paddr3 apart.  psbrk maps the page of the break a second
\* time when the heap has shrunk.
NothingDropped == dropped \subseteq {test.paddr3}

\* A page of a block that liballoc holds stays in its frame as long as the block is
\* held.  When a block below it goes back, psbrk unmaps its pages.
BlockPagesStable ==
    [][\A i \in DOMAIN blocks :
          (\E j \in DOMAIN blocks' : blocks'[j] = blocks[i]) =>
              \A page \in BlockPages(blocks[i]) :
                  PageEntry(page).present => PageEntry(page)' = PageEntry(page)]_vars

\* The frame of a trap is not on a page that the program can write: it is, at
\* the top of the program's own stack.
TrapFramePrivate ==
    \A p \in processes : p.user => ~ Translation(p.kernel_esp - 1).user

\* The program of a module is found.
ProgramFound ==
    step[1] = "process_create" /\ (\E i \in DOMAIN Modules : Modules[i].isTest)
        => program # 0
=============================================================================
