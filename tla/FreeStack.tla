----------------------------- MODULE FreeStack -----------------------------
(***************************************************************************)
(* The free stack of the physical memory manager (mm/pmm.c): frames above  *)
(* 16 MiB are kept in pages that are themselves free frames, chained by a  *)
(* back link.  stack32 is one virtual page; pushing onto a full page maps  *)
(* the pushed frame there, popping an empty one maps the back link.        *)
(***************************************************************************)
EXTENDS Integers

CONSTANTS HighFrames,     \* frames above 16 MiB
          Slots,          \* freeAddrs of one page (1023)
          Garbage,        \* 0xFFFFFFFF, what memset leaves in a page
          Unmapped        \* vmm_get_physical_addr of an unmapped page

ASSUME FreeStackAssumption ==
    /\ Slots \in Nat \ {0}
    /\ Garbage \notin HighFrames /\ Unmapped \notin HighFrames
    /\ Garbage # Unmapped

VARIABLES
    stack32,         \* the frame mapped at stack32
    stack64,         \* the frame mapped at stack64, which nothing ever pops
    stack32_index,
    backlink,        \* backlink[f]: first word of frame f as a stack page
    freeAddrs,       \* freeAddrs[f][i]: the other words
    crashed          \* a fault that faults again: the machine resets

stackVars == <<stack32, stack64, stack32_index, backlink, freeAddrs, crashed>>

Addresses == HighFrames \cup {Garbage}

StackTypeOK ==
    /\ stack32 \in HighFrames \cup {Unmapped}
    /\ stack64 \in HighFrames \cup {Unmapped}
    /\ stack32_index \in -1 .. Slots
    /\ backlink \in [HighFrames -> Addresses]
    /\ freeAddrs \in [HighFrames -> [0 .. Slots - 1 -> Addresses]]
    /\ crashed \in BOOLEAN

BlankPage == [i \in 0 .. Slots - 1 |-> Garbage]

StackInit == /\ stack32 = Unmapped /\ stack64 = Unmapped
             /\ stack32_index = 0
             /\ backlink = [f \in HighFrames |-> Garbage]
             /\ freeAddrs = [f \in HighFrames |-> BlankPage]
             /\ crashed = FALSE

\* freeAddrs[i] of the mapped page; freeAddrs[-1] is the back link.
Word(i) == IF i = -1 THEN backlink[stack32] ELSE freeAddrs[stack32][i]

\* Mutated form: a full page is noticed one frame late.
StackPushLate(f) ==
    /\ UNCHANGED crashed
    /\ \/ /\ stack32 = Unmapped
          /\ stack32' = f
          /\ backlink' = [backlink EXCEPT ![f] = Garbage]
          /\ freeAddrs' = [freeAddrs EXCEPT ![f] = BlankPage]
          /\ UNCHANGED <<stack64, stack32_index>>
       \/ /\ stack32 # Unmapped /\ stack64 = Unmapped
          /\ stack64' = f
          /\ UNCHANGED <<stack32, stack32_index, backlink, freeAddrs>>
       \/ /\ stack32 # Unmapped /\ stack64 # Unmapped
          /\ stack32_index > Slots
          /\ stack32' = f
          /\ backlink' = [backlink EXCEPT ![f] = stack32]
          /\ freeAddrs' = [freeAddrs EXCEPT ![f] = BlankPage]
          /\ stack32_index' = 0
          /\ UNCHANGED stack64
       \/ /\ stack32 # Unmapped /\ stack64 # Unmapped
          /\ stack32_index \in -1 .. Slots
          /\ IF stack32_index = -1
             THEN /\ backlink' = [backlink EXCEPT ![stack32] = f]
                  /\ UNCHANGED freeAddrs
             ELSE /\ freeAddrs' = [freeAddrs EXCEPT
                                     ![stack32][stack32_index] = f]
                  /\ UNCHANGED backlink
          /\ stack32_index' = stack32_index + 1
          /\ UNCHANGED <<stack32, stack64>>

\* stack_push: the first frame becomes the page, the second one the page of
\* stack64, a frame pushed on a full page the next page.
StackPush(f) ==
    /\ UNCHANGED crashed
    /\ \/ /\ stack32 = Unmapped
          /\ stack32' = f
          /\ backlink' = [backlink EXCEPT ![f] = Garbage]
          /\ freeAddrs' = [freeAddrs EXCEPT ![f] = BlankPage]
          /\ UNCHANGED <<stack64, stack32_index>>
       \/ /\ stack32 # Unmapped /\ stack64 = Unmapped
          /\ stack64' = f
          /\ UNCHANGED <<stack32, stack32_index, backlink, freeAddrs>>
       \/ /\ stack32 # Unmapped /\ stack64 # Unmapped
          /\ stack32_index = Slots
          /\ stack32' = f
          /\ backlink' = [backlink EXCEPT ![f] = stack32]
          /\ freeAddrs' = [freeAddrs EXCEPT ![f] = BlankPage]
          /\ stack32_index' = 0
          /\ UNCHANGED stack64
       \/ /\ stack32 # Unmapped /\ stack64 # Unmapped
          /\ stack32_index \in -1 .. Slots - 1
          /\ IF stack32_index = -1
             THEN /\ backlink' = [backlink EXCEPT ![stack32] = f]
                  /\ UNCHANGED freeAddrs
             ELSE /\ freeAddrs' = [freeAddrs EXCEPT
                                     ![stack32][stack32_index] = f]
                  /\ UNCHANGED backlink
          /\ stack32_index' = stack32_index + 1
          /\ UNCHANGED <<stack32, stack64>>

\* stack_pop32, returning addr.  Below the last slot the page itself is
\* returned and its back link mapped in its place; an invalid back link is not
\* mapped (vmm_map_address refuses it) and the page stays.
StackPop(addr) ==
    /\ stack32 # Unmapped
    /\ UNCHANGED <<stack64, backlink, freeAddrs, crashed>>
    /\ \/ /\ stack32_index < 0
          /\ addr = stack32
          /\ stack32' = IF backlink[stack32] = Garbage THEN stack32
                        ELSE backlink[stack32]
          /\ stack32_index' = Slots - 1
       \/ /\ stack32_index >= 0
          /\ addr = Word(stack32_index - 1)
          /\ stack32_index' = stack32_index - 1
          /\ UNCHANGED stack32

\* The pop of a stack that was never mapped faults; the page-fault handler
\* allocates a frame, which pops again.
StackPopFaults ==
    /\ stack32 = Unmapped
    /\ crashed' = TRUE
    /\ UNCHANGED <<stack32, stack64, stack32_index, backlink, freeAddrs>>
=============================================================================
