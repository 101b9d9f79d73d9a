-------------------------------- MODULE Pmm --------------------------------
(***************************************************************************)
(* The physical memory manager (kernel/kernel/mm/pmm.c).                   *)
(*                                                                         *)
(* Frames below 16 MiB live in a bitmap (a set bit is a frame that is not  *)
(* to be allocated) with a second, coarser bitmap of hints: a set          *)
(* superblock bit says that its group of frames is full, so the search     *)
(* skips it.  Frames above live in the free stack.  kinit first describes  *)
(* the machine's memory with pmm_clear_region and pmm_set_region, then     *)
(* clients allocate and free.                                              *)
(*                                                                         *)
(* The loops of pmm.c advance one frame per step of the model (op), so     *)
(* every invariant is also shown between two frames of a loop.             *)
(***************************************************************************)
EXTENDS FreeStack, Sequences, FiniteSets

CONSTANTS
    WordBits,        \* bits of a bitmap word (32)
    GroupBits,       \* frames of one superblock bit (16)
    NumWords,        \* MAX_BLOCKS (128)
    NumSuperWords,   \* MAX_SUPERBLOCKS (8)
    LowMemGroup,     \* last group searched for low_mem (16)
    FirstFreeable,   \* pfree ignores frames below it (4)
    PageSize,        \* BLOCK_SIZE (0x1000)
    AddrSpace,       \* 2^32
    BootRegions,     \* what kinit tells the PMM: a sequence of regions
    Clients,         \* those that allocate, each one block at a time
    Requests,        \* palloc_flags_t the clients use
    SelfTest         \* blocks are freed the way kinit's PMM test frees its own

NumFrames == WordBits * NumWords
Frames == 0 .. NumFrames - 1
NumGroups == (WordBits \div GroupBits) * NumWords
Groups == 0 .. NumGroups - 1

\* Frames 0 to 2: the null page and the PMM's own pages.
NullFrames == 0 .. 2

\* pmalloc passes flags that are all zero.
Pmalloc == [page_alloc_num |-> 0, contiguous |-> FALSE, align_64kb |-> FALSE,
            low_mem |-> FALSE]

Flags == [page_alloc_num : Nat, contiguous : BOOLEAN, align_64kb : BOOLEAN,
          low_mem : BOOLEAN]

Regions == [kind : {"clear_region", "set_region"}, base : 0 .. AddrSpace - 1,
            size : 0 .. AddrSpace - 1]

ASSUME PmmAssumption ==
    /\ GroupBits \in Nat \ {0} /\ NumWords \in Nat \ {0}
    /\ WordBits \in Nat \ {0} /\ WordBits % GroupBits = 0
    /\ NumSuperWords \in Nat \ {0} /\ WordBits * NumSuperWords = NumGroups
    /\ 2 < NumFrames
    /\ \A f \in Frames : f \div GroupBits \in Groups
    /\ LowMemGroup \in Nat /\ FirstFreeable \in Nat /\ 2 < FirstFreeable
    /\ PageSize \in Nat \ {0} /\ AddrSpace \in Nat \ {0}
    /\ HighFrames \cap Frames = {} /\ HighFrames \subseteq Nat
    /\ BootRegions \in Seq(Regions)
    /\ Requests \subseteq Flags
    /\ SelfTest \in BOOLEAN

\* The bitmap covers 16 MiB of 4 GiB.
ASSUME AddrSpaceAssumption == NumFrames < AddrSpace \div PageSize

VARIABLES
    block_bitmap,        \* the set of frames whose bit is set
    superblock_bitmap,   \* the set of groups whose bit is set
    op,                  \* the loop in progress
    booting,             \* regions kinit has not yet described
    holds                \* the block each client holds

bitmapVars == <<block_bitmap, superblock_bitmap>>
vars == <<bitmapVars, stackVars, op, booting, holds>>

Idle == [kind |-> "idle", next |-> 0, end |-> 0]
Nothing == [base |-> 0, size |-> 0]

-----------------------------------------------------------------------------
(* The bitmaps.                                                            *)

GroupOf(f) == f \div GroupBits
WordOfGroup(g) == g \div (WordBits \div GroupBits)
WordOf(f) == WordOfGroup(GroupOf(f))
SuperWordOf(g) == g \div WordBits

WordFull(w, blocks) == \A f \in Frames : WordOf(f) = w => f \in blocks
SuperWordFull(w, supers) == \A g \in Groups : SuperWordOf(g) = w => g \in supers

\* check_super_region looks at GroupBits words from the frame's own one.  Past
\* the end of block_bitmap it reads superblock_bitmap, and past that the
\* reserved words, which are never all ones.
SuperRegionFull(f, blocks, supers) ==
    \A off \in 0 .. GroupBits - 1 :
        LET w == WordOf(f) + off IN
        \/ w < NumWords /\ WordFull(w, blocks)
        \/ /\ NumWords <= w /\ w < NumWords + NumSuperWords
           /\ SuperWordFull(w - NumWords, supers)

\* Mutated form: the hint is set without a look at the words.
SetBitHintsEarly(f) ==
    IF f >= NumFrames THEN UNCHANGED bitmapVars
    ELSE /\ block_bitmap' = block_bitmap \cup {f}
         /\ superblock_bitmap' = superblock_bitmap \cup {GroupOf(f)}

\* paddm_set_bit
SetBit(f) ==
    IF f >= NumFrames THEN UNCHANGED bitmapVars
    ELSE /\ block_bitmap' = block_bitmap \cup {f}
         /\ superblock_bitmap' =
               IF SuperRegionFull(f, block_bitmap \cup {f}, superblock_bitmap)
               THEN superblock_bitmap \cup {GroupOf(f)} ELSE superblock_bitmap

\* Mutated form: the hint of a freed frame's group stays.
ClearBitKeepsHint(f) ==
    IF f >= NumFrames THEN UNCHANGED bitmapVars
    ELSE /\ block_bitmap' = block_bitmap \ {f}
         /\ UNCHANGED superblock_bitmap

\* paddm_clear_bit
ClearBit(f) ==
    IF f >= NumFrames THEN UNCHANGED bitmapVars
    ELSE /\ block_bitmap' = block_bitmap \ {f}
         /\ superblock_bitmap' = superblock_bitmap \ {GroupOf(f)}

-----------------------------------------------------------------------------
(* paddm_get_first_clear_bits.                                             *)

\* The groups the search looks into.
Scanned(g) == /\ ~ SuperWordFull(SuperWordOf(g), superblock_bitmap)
              /\ g \notin superblock_bitmap
              /\ ~ WordFull(WordOfGroup(g), block_bitmap)

\* low_mem ends the search after LowMemGroup - unless the first superblock word
\* is full, which skips the place that ends it.
InLimit(g, flags) ==
    flags.low_mem /\ ~ SuperWordFull(0, superblock_bitmap) => g <= LowMemGroup

Visible(f, flags) == Scanned(GroupOf(f)) /\ InLimit(GroupOf(f), flags)

\* The frames num_free_bits counts when the search is at frame e: a set frame it
\* sees starts the count again, a group it skips does not.
RunAt(e, flags) ==
    {f \in Frames : /\ f <= e
                    /\ flags.align_64kb => GroupOf(f) = GroupOf(e)
                    /\ \A h \in f .. e : Visible(h, flags) => h \notin block_bitmap
                    /\ Visible(f, flags)}

Wanted(flags) == IF flags.page_alloc_num = 0 THEN 1 ELSE flags.page_alloc_num

Hit(e, flags) == /\ Visible(e, flags) /\ e \notin block_bitmap
                 /\ Cardinality(RunAt(e, flags)) >= Wanted(flags)

\* The search returns base.
Found(base, flags) ==
    /\ ~ (flags.page_alloc_num = 0 /\ flags.contiguous)
    /\ \E e \in Frames : /\ Hit(e, flags)
                         /\ \A d \in 0 .. e - 1 : ~ Hit(d, flags)
                         /\ base \in RunAt(e, flags)
                         /\ \A f \in RunAt(e, flags) : base <= f

NotFound(flags) ==
    \/ flags.page_alloc_num = 0 /\ flags.contiguous
    \/ \A e \in Frames : ~ Hit(e, flags)

-----------------------------------------------------------------------------
(* kinit describes the memory.                                             *)

\* Mutated form: a round too many.
RegionLoopLong(r) ==
    [kind |-> r.kind, next |-> r.base \div PageSize,
     end |-> ((r.base + r.size + PageSize) % AddrSpace) \div PageSize]

\* The loop of pmm_clear_region and pmm_set_region: (base + size + 0xFFF) >> 12
\* in 32 bits.
RegionLoop(r) ==
    [kind |-> r.kind, next |-> r.base \div PageSize,
     end |-> ((r.base + r.size + PageSize - 1) % AddrSpace) \div PageSize]

Init == /\ block_bitmap = Frames
        /\ superblock_bitmap = Groups
        /\ StackInit
        /\ op = Idle
        /\ booting = BootRegions
        /\ holds = [c \in Clients |-> Nothing]

Running == op = Idle /\ booting = <<>> /\ ~ crashed

DescribeRegion ==
    /\ op = Idle /\ booting # <<>>
    /\ op' = IF Head(booting).size = 0 THEN Idle ELSE RegionLoop(Head(booting))
    /\ booting' = Tail(booting)
    /\ UNCHANGED <<bitmapVars, stackVars, holds>>

Advance == op' = IF op.next + 1 < op.end THEN [op EXCEPT !.next = @ + 1]
                 ELSE Idle

\* A loop ends at once if it has nothing to do; pmm_set_region leaves at the
\* first frame above 16 MiB, pmm_clear_region at the last page of the address
\* space.
LoopOver ==
    /\ op.kind # "idle"
    /\ \/ op.next >= op.end
       \/ op.kind = "set_region" /\ op.next >= NumFrames
       \/ op.kind = "clear_region" /\ op.next >= AddrSpace \div PageSize - 1
    /\ op' = Idle
    /\ UNCHANGED <<bitmapVars, stackVars, booting, holds>>

InLoop(kind) == op.kind = kind /\ op.next < op.end

SetRegion == /\ InLoop("set_region") /\ op.next < NumFrames
             /\ SetBit(op.next)
             /\ Advance
             /\ UNCHANGED <<stackVars, booting, holds>>

\* Mutated form: block_bitmap[0] |= 7 is missing.
ClearRegionBare ==
    /\ InLoop("clear_region") /\ op.next < AddrSpace \div PageSize - 1
    /\ ClearBit(op.next)
    /\ IF op.next < NumFrames THEN UNCHANGED stackVars ELSE StackPush(op.next)
    /\ Advance
    /\ UNCHANGED <<booting, holds>>

\* Each round also sets the bits of frames 0 to 2 again.
ClearRegion ==
    /\ InLoop("clear_region") /\ op.next < AddrSpace \div PageSize - 1
    /\ IF op.next < NumFrames
       THEN /\ block_bitmap' = (block_bitmap \ {op.next}) \cup NullFrames
            /\ superblock_bitmap' = superblock_bitmap \ {GroupOf(op.next)}
            /\ UNCHANGED stackVars
       ELSE /\ StackPush(op.next)
            /\ block_bitmap' = block_bitmap \cup NullFrames
            /\ UNCHANGED superblock_bitmap
    /\ Advance
    /\ UNCHANGED <<booting, holds>>

-----------------------------------------------------------------------------
(* kpmalloc and pfree.                                                     *)

Size(flags) == IF flags.contiguous THEN flags.page_alloc_num ELSE 1

\* kpmalloc found base: it sets its bit, and those behind it in a loop.
Alloc(c, flags, base) ==
    /\ Running /\ holds[c] = Nothing
    /\ Found(base, flags)
    /\ SetBit(base)
    /\ holds' = [holds EXCEPT ![c] = [base |-> base, size |-> Size(flags)]]
    /\ op' = IF Size(flags) > 1
             THEN [kind |-> "set", next |-> base + 1, end |-> base + Size(flags)]
             ELSE Idle
    /\ UNCHANGED <<stackVars, booting>>

AllocLoop == /\ InLoop("set")
             /\ SetBit(op.next)
             /\ Advance
             /\ UNCHANGED <<stackVars, booting, holds>>

\* kpmalloc found nothing: the free stack answers, with a single frame whatever
\* was asked for.  A caller can do nothing with 0xFFFFFFFF.
AllocHigh(c, flags, addr) ==
    /\ Running /\ holds[c] = Nothing
    /\ NotFound(flags)
    /\ StackPop(addr)
    /\ holds' = IF addr = Garbage THEN holds
                ELSE [holds EXCEPT ![c] = [base |-> addr, size |-> 1]]
    /\ UNCHANGED <<bitmapVars, op, booting>>

AllocCrash(c, flags) ==
    /\ Running /\ holds[c] = Nothing
    /\ NotFound(flags)
    /\ StackPopFaults
    /\ UNCHANGED <<bitmapVars, op, booting, holds>>

\* The count a client gives to pfree: the frames it allocated; kinit's PMM test
\* frees 4096, all that the bitmap has, of the 128 it allocated.
FreeCount(block) == IF SelfTest /\ block.size > 1 THEN NumFrames ELSE block.size

\* Mutated form: one frame more is freed.
FreeOneMore(c) ==
    LET b == holds[c] IN
    /\ Running /\ b # Nothing /\ b.base < NumFrames
    /\ holds' = [holds EXCEPT ![c] = Nothing]
    /\ op' = IF b.base < FirstFreeable THEN Idle
             ELSE [kind |-> "clear", next |-> b.base,
                   end |-> b.base + FreeCount(b) + 1]
    /\ UNCHANGED <<bitmapVars, stackVars, booting>>

\* pfree of a frame below 16 MiB.
Free(c) ==
    LET b == holds[c] IN
    /\ Running /\ b # Nothing /\ b.base < NumFrames
    /\ holds' = [holds EXCEPT ![c] = Nothing]
    /\ op' = IF b.base < FirstFreeable THEN Idle
             ELSE [kind |-> "clear", next |-> b.base,
                   end |-> b.base + FreeCount(b)]
    /\ UNCHANGED <<bitmapVars, stackVars, booting>>

FreeLoop == /\ InLoop("clear")
            /\ ClearBit(op.next)
            /\ Advance
            /\ UNCHANGED <<stackVars, booting, holds>>

\* pfree of a frame above it.
FreeHigh(c) ==
    /\ Running /\ holds[c].base \in HighFrames
    /\ StackPush(holds[c].base)
    /\ holds' = [holds EXCEPT ![c] = Nothing]
    /\ UNCHANGED <<bitmapVars, op, booting>>

-----------------------------------------------------------------------------
ClientStep(c) ==
    \/ \E flags \in Requests :
          \/ \E base \in Frames : Alloc(c, flags, base)
          \/ \E addr \in Addresses : AllocHigh(c, flags, addr)
          \/ AllocCrash(c, flags)
    \/ Free(c) \/ FreeHigh(c)

Loop == LoopOver \/ SetRegion \/ ClearRegion \/ AllocLoop \/ FreeLoop

Next == DescribeRegion \/ Loop \/ \E c \in Clients : ClientStep(c)

Spec == Init /\ [][Next]_vars

-----------------------------------------------------------------------------
(* Properties.                                                             *)

FramesOf(block) == block.base .. block.base + block.size - 1

\* The bitmaps, the loop and the blocks have their types.
TypeOK ==
    /\ block_bitmap \subseteq Frames /\ superblock_bitmap \subseteq Groups
    /\ StackTypeOK
    /\ op \in [kind : {"idle", "set_region", "clear_region", "set", "clear"},
               next : Nat, end : Nat]
    /\ booting \in Seq(Regions)
    /\ holds \in [Clients -> [base : Nat, size : Nat]]

\* A superblock bit is only set while every frame of its group is: the search
\* never skips a frame that is free.
HintsSound == \A g \in superblock_bitmap :
                 \A f \in Frames : GroupOf(f) = g => f \in block_bitmap

\* Frames 0 to 2 - the null page and the bitmap itself - are never free, whatever
\* memory map the loader passes and whatever is freed.
NullFramesSet == NullFrames \subseteq block_bitmap

\* A single frame is found whenever one is free.
FreeFrameFound ==
    (\E f \in Frames : f \notin block_bitmap) =>
        \E base \in Frames : Found(base, Pmalloc)

\* What a client holds is not handed to another one, nor marked free.
HeldExclusively ==
    \A c \in Clients :
        /\ \A f \in FramesOf(holds[c]) :
              f \in Frames => \/ f \in block_bitmap
                              \/ op.kind = "set" /\ f \in op.next .. op.end - 1
        /\ \A d \in Clients :
              c # d => FramesOf(holds[c]) \cap FramesOf(holds[d]) = {}

\* The frames a region of the loader's map touches.
RegionFrames(r) == {f \in Frames : /\ r.size > 0
                                   /\ r.base < (f + 1) * PageSize
                                   /\ f * PageSize < r.base + r.size}

\* Frames the loader declares available and kinit does not reserve afterwards.
UsableFrames ==
    {f \in Frames \ NullFrames : \E i \in 1 .. Len(BootRegions) :
        /\ BootRegions[i].kind = "clear_region"
        /\ f \in RegionFrames(BootRegions[i])
        /\ \A j \in i + 1 .. Len(BootRegions) :
              BootRegions[j].kind = "set_region"
                => f \notin RegionFrames(BootRegions[j])}

\* Only those are handed out: never the kernel's image, never a hole in the
\* memory map.
OnlyUsableHeld == \A c \in Clients :
                     FramesOf(holds[c]) \cap Frames \subseteq UsableFrames

\* And none is lost: between calls each is free or held.
NotLeaked(f) == \/ f \notin block_bitmap
                \/ \E c \in Clients : f \in FramesOf(holds[c])

NoLeak == Running => \A f \in UsableFrames : f >= FirstFreeable => NotLeaked(f)

\* The frames pmalloc can give are those the memory map says are usable, no more
\* and, between calls, no fewer (pmm_clear_region, kpmalloc, pfree).
UsableAccounted == OnlyUsableHeld /\ NoLeak

\* pmm.h on pfree: "Frees an address to be reused".  Every frame that can be
\* allocated can be freed again.
FreedIsReusable == Running => \A f \in UsableFrames : NotLeaked(f)

\* kernel.c: "Reserve spaces occupied by modules, and stuff pointed to".
ModulesReserved(frames) == \A c \in Clients : FramesOf(holds[c]) \cap frames = {}
=============================================================================
