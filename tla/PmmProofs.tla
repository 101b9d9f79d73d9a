----------------------------- MODULE PmmProofs -----------------------------
(***************************************************************************)
(* The physical memory manager, for any number of frames, any memory map   *)
(* and any requests: its types, the hints and the null frames; a free      *)
(* frame is found.  For clients that ask for aligned runs and free what    *)
(* they allocated: below 16 MiB nothing is held twice, handed out unusable *)
(* or lost.                                                                *)
(***************************************************************************)
EXTENDS Pmm, FiniteSetTheorems, WellFoundedInduction, TLAPS

Loops == [kind : {"idle", "set_region", "clear_region", "set", "clear"},
          next : Nat, end : Nat]
Blocks == [base : Nat, size : Nat]

\* What the bitmaps and the loops that change them have in common: a loop of
\* pfree starts at FirstFreeable or above.
BitmapInv ==
    /\ block_bitmap \subseteq Frames /\ superblock_bitmap \subseteq Groups
    /\ op \in Loops
    /\ op.kind = "clear" => op.next >= FirstFreeable
    /\ booting \in Seq(Regions)
    /\ holds \in [Clients -> Blocks]
    /\ HintsSound /\ NullFramesSet

LEMMA Sizes ==
  /\ NumFrames \in Nat /\ NumGroups \in Int
  /\ \A f \in Frames : GroupOf(f) \in Groups
  /\ NullFrames \subseteq Frames
<1>1. NumFrames \in Nat
  BY PmmAssumption DEF NumFrames
<1> QED
  BY <1>1, PmmAssumption DEF NumFrames, NumGroups, Frames, GroupOf, NullFrames

\* The word of a frame is a word of block_bitmap.
LEMMA WordInBitmap ==
  ASSUME NEW f \in Frames
  PROVE  WordOf(f) \in Int /\ WordOf(f) < NumWords
<1> DEFINE k == WordBits \div GroupBits
           g == GroupOf(f)
<1>1. k \in Int /\ NumWords \in Nat
  BY PmmAssumption
<1>2. g \in Int /\ 0 <= g /\ g < k * NumWords
  BY Sizes DEF Groups, NumGroups
<1>3. k > 0
  <2>1. k >= 0
    BY PmmAssumption
  <2>2. k # 0
    BY <1>1, <1>2
  <2> QED
    BY <1>1, <2>1, <2>2
<1> DEFINE q == g \div k
<1>4. q \in Int /\ k * q <= g
  BY <1>1, <1>2, <1>3
<1>5. k * q < k * NumWords
  BY <1>1, <1>2, <1>4
<1>6. q < NumWords
  BY <1>1, <1>3, <1>4, <1>5
<1> QED
  BY <1>4, <1>6 DEF WordOf, WordOfGroup

\* paddm_set_bit sets a hint only when the whole word of the frame is set.
LEMMA SetBitKeepsHints ==
  ASSUME BitmapInv, NEW f \in Nat, SetBit(f)
  PROVE  /\ block_bitmap \subseteq block_bitmap'
         /\ block_bitmap' \subseteq Frames /\ superblock_bitmap' \subseteq Groups
         /\ HintsSound'
<1>1. CASE f >= NumFrames
  BY <1>1 DEF SetBit, bitmapVars, BitmapInv, HintsSound
<1>2. CASE f < NumFrames
  <2>1. f \in Frames /\ GroupOf(f) \in Groups
    BY <1>2, Sizes DEF Frames
  <2>2. block_bitmap' = block_bitmap \cup {f}
    BY <1>2, Sizes DEF SetBit
  <2>3. superblock_bitmap' \subseteq superblock_bitmap \cup {GroupOf(f)}
    BY <1>2, Sizes DEF SetBit
  <2>4. ASSUME GroupOf(f) \in superblock_bitmap',
               GroupOf(f) \notin superblock_bitmap
        PROVE  WordFull(WordOf(f), block_bitmap')
    <3>1. SuperRegionFull(f, block_bitmap', superblock_bitmap)
      BY <1>2, <2>2, <2>4, Sizes DEF SetBit
    <3>2. 0 \in 0 .. GroupBits - 1
      BY PmmAssumption
    <3>3. WordOf(f) + 0 = WordOf(f) /\ ~ (NumWords <= WordOf(f) + 0)
      BY <2>1, WordInBitmap, PmmAssumption
    <3> QED
      BY <3>1, <3>2, <3>3 DEF SuperRegionFull
  <2>5. ASSUME NEW g \in superblock_bitmap', NEW h \in Frames, GroupOf(h) = g
        PROVE  h \in block_bitmap'
    <3>1. CASE g \in superblock_bitmap
      BY <2>2, <2>5, <3>1 DEF BitmapInv, HintsSound
    <3>2. CASE g \notin superblock_bitmap
      <4>1. g = GroupOf(f) /\ WordFull(WordOf(f), block_bitmap')
        BY <2>3, <2>4, <2>5, <3>2
      <4>2. WordOf(h) = WordOf(f)
        BY <2>5, <4>1 DEF WordOf
      <4> QED
        BY <2>5, <4>1, <4>2 DEF WordFull
    <3> QED
      BY <3>1, <3>2
  <2> QED
    BY <2>1, <2>2, <2>3, <2>5 DEF BitmapInv, HintsSound
<1> QED
  BY <1>1, <1>2, Sizes

\* Taking a frame out takes its hint out; further frames only help.
LEMMA ClearKeepsHints ==
  ASSUME BitmapInv, NEW f \in Frames, NEW more \in SUBSET Frames,
         block_bitmap' = (block_bitmap \ {f}) \cup more,
         superblock_bitmap' = superblock_bitmap \ {GroupOf(f)}
  PROVE  /\ block_bitmap' \subseteq Frames /\ superblock_bitmap' \subseteq Groups
         /\ HintsSound'
BY DEF BitmapInv, HintsSound

LEMMA RegionLoopOK ==
  ASSUME NEW r \in Regions
  PROVE  RegionLoop(r) \in Loops /\ RegionLoop(r).kind # "clear"
<1>1. r.base \in Nat /\ r.size \in Nat /\ r.kind \in {"set_region", "clear_region"}
  BY PmmAssumption DEF Regions
<1>2. r.base \div PageSize \in Nat
  BY <1>1, PmmAssumption
<1>3. (r.base + r.size + PageSize - 1) % AddrSpace \in Nat
  BY <1>1, PmmAssumption
<1>4. ((r.base + r.size + PageSize - 1) % AddrSpace) \div PageSize \in Nat
  BY <1>3, PmmAssumption
<1> QED
  BY <1>1, <1>2, <1>4 DEF RegionLoop, Loops

LEMMA AdvanceOK ==
  ASSUME BitmapInv, Advance
  PROVE  op' \in Loops /\ (op'.kind = "clear" => op'.next >= FirstFreeable)
<1>1. op \in Loops /\ (op.kind = "clear" => op.next >= FirstFreeable)
  BY DEF BitmapInv
<1>2. CASE op.next + 1 < op.end
  <2>1. op' = [op EXCEPT !.next = op.next + 1]
    BY <1>2 DEF Advance
  <2>2. /\ op' \in Loops /\ op'.kind = op.kind
        /\ op'.next = op.next + 1 /\ op.next \in Nat
    BY <1>1, <2>1 DEF Loops
  <2> QED
    BY <1>1, <2>2, PmmAssumption
<1>3. CASE ~ (op.next + 1 < op.end)
  BY <1>3 DEF Advance, Idle, Loops
<1> QED
  BY <1>2, <1>3

\* A loop goes on with fewer frames, or is over.
LEMMA AdvanceShrinks ==
  ASSUME BitmapInv, Advance
  PROVE  \/ op'.kind = "idle" /\ op.next + 1 >= op.end
         \/ op'.kind = op.kind /\ op'.next = op.next + 1 /\ op'.end = op.end
<1>1. op \in Loops
  BY DEF BitmapInv
<1>2. CASE op.next + 1 < op.end
  <2>1. op' = [op EXCEPT !.next = op.next + 1]
    BY <1>2 DEF Advance
  <2> QED
    BY <1>1, <2>1 DEF Loops
<1>3. CASE ~ (op.next + 1 < op.end)
  <2>1. op' = Idle
    BY <1>3 DEF Advance
  <2>2. op.next \in Nat /\ op.end \in Nat
    BY <1>1 DEF Loops
  <2> QED
    BY <1>3, <2>1, <2>2 DEF Idle
<1> QED
  BY <1>2, <1>3

-----------------------------------------------------------------------------
LEMMA InitBitmapInv == Init => BitmapInv
<1> SUFFICES ASSUME Init PROVE BitmapInv
  OBVIOUS
<1>1. op \in Loops /\ op.kind # "clear"
  BY DEF Init, Idle, Loops
<1>2. holds \in [Clients -> Blocks] /\ booting \in Seq(Regions)
  BY PmmAssumption DEF Init, Nothing, Blocks
<1> QED
  BY <1>1, <1>2, Sizes DEF Init, BitmapInv, HintsSound, NullFramesSet

LEMMA NextBitmapInv == BitmapInv /\ [Next]_vars => BitmapInv'
<1> SUFFICES ASSUME BitmapInv, [Next]_vars PROVE BitmapInv'
  OBVIOUS
<1>1. ASSUME UNCHANGED bitmapVars
      PROVE  /\ block_bitmap' \subseteq Frames /\ superblock_bitmap' \subseteq Groups
             /\ HintsSound' /\ NullFramesSet'
  BY <1>1 DEF bitmapVars, BitmapInv, HintsSound, NullFramesSet
<1>2. CASE DescribeRegion
  <2>1. Head(booting) \in Regions /\ booting' \in Seq(Regions)
    BY <1>2 DEF DescribeRegion, BitmapInv
  <2>2. op' \in Loops /\ op'.kind # "clear"
    BY <1>2, <2>1, RegionLoopOK DEF DescribeRegion, Idle, Loops
  <2> QED
    BY <1>1, <1>2, <2>1, <2>2 DEF DescribeRegion, BitmapInv
<1>3. CASE LoopOver
  <2>1. op' \in Loops /\ op'.kind # "clear"
    BY <1>3 DEF LoopOver, Idle, Loops
  <2> QED
    BY <1>1, <1>3, <2>1 DEF LoopOver, BitmapInv
<1>4. CASE SetRegion \/ AllocLoop
  <2>1. op.next \in Nat /\ SetBit(op.next) /\ Advance
    BY <1>4 DEF SetRegion, AllocLoop, BitmapInv, Loops
  <2>2. NullFramesSet'
    BY <2>1, SetBitKeepsHints DEF BitmapInv, NullFramesSet
  <2> QED
    BY <1>4, <2>1, <2>2, SetBitKeepsHints, AdvanceOK
       DEF SetRegion, AllocLoop, BitmapInv
<1>5. CASE ClearRegion
  <2>1. /\ block_bitmap' \subseteq Frames /\ superblock_bitmap' \subseteq Groups
        /\ HintsSound' /\ NullFramesSet'
    <3>1. CASE op.next < NumFrames
      <4>1. op.next \in Frames
        BY <3>1, Sizes DEF BitmapInv, Loops, Frames
      <4>2. /\ block_bitmap' = (block_bitmap \ {op.next}) \cup NullFrames
            /\ superblock_bitmap' = superblock_bitmap \ {GroupOf(op.next)}
        BY <1>5, <3>1 DEF ClearRegion
      <4>3. NullFrames \in SUBSET Frames
        BY Sizes
      <4>4. NullFramesSet'
        BY <4>2 DEF NullFramesSet
      <4> QED
        BY <4>1, <4>2, <4>3, <4>4, ClearKeepsHints
    <3>2. CASE ~ (op.next < NumFrames)
      BY <1>5, <3>2, Sizes DEF ClearRegion, BitmapInv, HintsSound, NullFramesSet
    <3> QED
      BY <3>1, <3>2
  <2> QED
    BY <1>5, <2>1, AdvanceOK DEF ClearRegion, BitmapInv
<1>6. CASE FreeLoop
  <2>1. op.next \in Nat /\ op.next >= FirstFreeable
    BY <1>6 DEF FreeLoop, InLoop, BitmapInv, Loops
  <2>2. op.next \notin NullFrames
    BY <2>1, PmmAssumption DEF NullFrames
  <2>3. CASE op.next >= NumFrames
    BY <1>1, <1>6, <2>3, AdvanceOK DEF FreeLoop, ClearBit, BitmapInv
  <2>4. CASE ~ (op.next >= NumFrames)
    <3>1. op.next \in Frames
      BY <2>1, <2>4, Sizes DEF Frames
    <3>2. /\ block_bitmap' = (block_bitmap \ {op.next}) \cup {}
          /\ superblock_bitmap' = superblock_bitmap \ {GroupOf(op.next)}
      BY <1>6, <2>4 DEF FreeLoop, ClearBit
    <3>3. NullFramesSet'
      BY <2>2, <3>2 DEF BitmapInv, NullFramesSet
    <3>4. /\ block_bitmap' \subseteq Frames
          /\ superblock_bitmap' \subseteq Groups /\ HintsSound'
      <4>1. {} \in SUBSET Frames
        OBVIOUS
      <4> QED
        BY <3>1, <3>2, <4>1, ClearKeepsHints
    <3> QED
      BY <1>6, <3>3, <3>4, AdvanceOK DEF FreeLoop, BitmapInv
  <2> QED
    BY <2>3, <2>4
<1>7. ASSUME NEW c \in Clients, NEW flags \in Requests, NEW base \in Frames,
             Alloc(c, flags, base)
      PROVE  BitmapInv'
  <2>1. base \in Nat /\ Size(flags) \in Nat
    BY PmmAssumption DEF Frames, Size, Flags
  <2>2. SetBit(base)
    BY <1>7 DEF Alloc
  <2>3. NullFramesSet'
    BY <2>1, <2>2, SetBitKeepsHints DEF BitmapInv, NullFramesSet
  <2>4. op' \in Loops /\ op'.kind # "clear"
    BY <1>7, <2>1 DEF Alloc, Idle, Loops
  <2>5. holds' \in [Clients -> Blocks] /\ booting' = booting
    BY <1>7, <2>1 DEF Alloc, BitmapInv, Blocks
  <2> QED
    BY <2>1, <2>2, <2>3, <2>4, <2>5, SetBitKeepsHints DEF BitmapInv
<1>8. ASSUME NEW c \in Clients, NEW flags \in Requests, NEW addr \in Addresses,
             AllocHigh(c, flags, addr)
      PROVE  BitmapInv'
  <2>1. addr # Garbage => addr \in Nat
    BY PmmAssumption DEF Addresses
  <2>2. holds' \in [Clients -> Blocks]
    BY <1>8, <2>1 DEF AllocHigh, BitmapInv, Blocks
  <2> QED
    BY <1>1, <1>8, <2>2 DEF AllocHigh, BitmapInv
<1>9. ASSUME NEW c \in Clients, NEW flags \in Requests, AllocCrash(c, flags)
      PROVE  BitmapInv'
  BY <1>1, <1>9 DEF AllocCrash, BitmapInv
<1>10. ASSUME NEW c \in Clients, Free(c) PROVE BitmapInv'
  <2>1. holds[c] \in Blocks /\ FreeCount(holds[c]) \in Nat
    BY Sizes DEF BitmapInv, FreeCount, Blocks
  <2>2. op' \in Loops /\ (op'.kind = "clear" => op'.next >= FirstFreeable)
    BY <1>10, <2>1, PmmAssumption DEF Free, Idle, Loops, Blocks
  <2>3. holds' \in [Clients -> Blocks]
    BY <1>10 DEF Free, BitmapInv, Blocks, Nothing
  <2> QED
    BY <1>1, <1>10, <2>2, <2>3 DEF Free, BitmapInv
<1>11. ASSUME NEW c \in Clients, FreeHigh(c) PROVE BitmapInv'
  <2>1. holds' \in [Clients -> Blocks]
    BY <1>11 DEF FreeHigh, BitmapInv, Blocks, Nothing
  <2> QED
    BY <1>1, <1>11, <2>1 DEF FreeHigh, BitmapInv
<1>12. CASE UNCHANGED vars
  BY <1>1, <1>12 DEF vars, bitmapVars, BitmapInv
<1> QED
  BY <1>2, <1>3, <1>4, <1>5, <1>6, <1>7, <1>8, <1>9, <1>10, <1>11, <1>12
     DEF Next, Loop, ClientStep

\* The bitmaps keep their shape in every state of the memory manager.
THEOREM BitmapInvariance == Spec => []BitmapInv
BY InitBitmapInv, NextBitmapInv, PTL DEF Spec

\* A superblock bit is never set while a frame of its group is free: the search
\* of paddm_get_first_clear_bits skips no free frame on account of a hint.
THEOREM HintsAreSound == Spec => []HintsSound
<1>1. BitmapInv => HintsSound
  BY DEF BitmapInv
<1> QED
  BY <1>1, BitmapInvariance, PTL

\* The null page and the frames of the PMM itself are never free, whatever memory
\* map the loader passes and whatever is freed.
THEOREM NullFramesReserved == Spec => []NullFramesSet
<1>1. BitmapInv => NullFramesSet
  BY DEF BitmapInv
<1> QED
  BY <1>1, BitmapInvariance, PTL

-----------------------------------------------------------------------------
(* A free frame is found.                                                  *)

\* Every nonempty set of frame numbers has a least one.
LEMMA LeastFrame ==
  ASSUME NEW T, T \subseteq Frames, T # {}
  PROVE  \E m \in T : \A n \in T : m <= n
<1> DEFINE R == {pair \in Nat \X Nat : pair[1] < pair[2]}
<1>1. IsWellFoundedOn(R, Nat)
  BY NatLessThanWellFounded, Zenon DEF OpToRel
<1>2. \A m, n \in Nat : n < m => <<n, m>> \in R
  OBVIOUS
<1>3. T \subseteq Nat
  BY DEF Frames
<1> HIDE DEF R
<1>4. PICK m \in T : \A n \in T : ~ (<<n, m>> \in R)
  BY <1>1, <1>3, WFMin
<1>5. \A n \in T : m \in Nat /\ n \in Nat /\ ~ (n < m)
  BY <1>2, <1>3, <1>4
<1> QED
  BY <1>5

\* The hints being sound, the search for a single frame looks at every free one.
LEMMA FreeIsVisible ==
  ASSUME HintsSound, NEW f \in Frames, f \notin block_bitmap
  PROVE  Visible(f, Pmalloc)
<1>1. GroupOf(f) \in Groups /\ GroupOf(f) \notin superblock_bitmap
  BY Sizes DEF HintsSound
<1>2. ~ SuperWordFull(SuperWordOf(GroupOf(f)), superblock_bitmap)
  BY <1>1 DEF SuperWordFull
<1>3. ~ WordFull(WordOfGroup(GroupOf(f)), block_bitmap)
  BY DEF WordFull, WordOf
<1> QED
  BY <1>1, <1>2, <1>3 DEF Visible, Scanned, InLimit, Pmalloc

LEMMA FreeIsHit ==
  ASSUME HintsSound, NEW f \in Frames, f \notin block_bitmap
  PROVE  Hit(f, Pmalloc)
<1>1. Visible(f, Pmalloc)
  BY FreeIsVisible
<1>2. f \in RunAt(f, Pmalloc)
  <2>1. f \in Nat /\ f .. f = {f}
    BY DEF Frames
  <2> QED
    BY <1>1, <2>1 DEF RunAt, Pmalloc
<1>3. IsFiniteSet(RunAt(f, Pmalloc))
  <2>1. IsFiniteSet(Frames)
    BY Sizes, FS_Interval DEF Frames
  <2> QED
    BY <2>1, FS_Subset DEF RunAt
<1>4. Cardinality(RunAt(f, Pmalloc)) >= 1
  BY <1>2, <1>3, FS_EmptySet, FS_CardinalityType
<1> QED
  BY <1>1, <1>4 DEF Hit, Wanted, Pmalloc

\* pmalloc finds a frame below 16 MiB whenever one is free: neither the hints nor
\* the words paddm_get_first_clear_bits skips ever hide the last free frame.
THEOREM FreeFramesAreFound == Spec => []FreeFrameFound
<1> SUFFICES ASSUME BitmapInv PROVE FreeFrameFound
  BY BitmapInvariance, PTL
<1> SUFFICES ASSUME NEW f \in Frames, f \notin block_bitmap
             PROVE  \E base \in Frames : Found(base, Pmalloc)
  BY DEF FreeFrameFound
<1> DEFINE hits == {e \in Frames : Hit(e, Pmalloc)}
<1>1. PICK e \in hits : \A d \in hits : e <= d
  <2>1. f \in hits
    BY FreeIsHit DEF BitmapInv
  <2> HIDE DEF hits
  <2>2. hits \subseteq Frames
    BY DEF hits
  <2> QED
    BY <2>1, <2>2, LeastFrame
<1>2. \A d \in 0 .. e - 1 : ~ Hit(d, Pmalloc)
  <2> SUFFICES ASSUME NEW d \in 0 .. e - 1, Hit(d, Pmalloc) PROVE FALSE
    OBVIOUS
  <2>1. e \in Nat /\ e < NumFrames /\ NumFrames \in Nat
    BY Sizes DEF Frames
  <2>2. d \in Frames /\ d < e
    BY <2>1 DEF Frames
  <2> QED
    BY <1>1, <2>1, <2>2
<1>3. RunAt(e, Pmalloc) # {} /\ RunAt(e, Pmalloc) \subseteq Frames
  <2>1. Cardinality(RunAt(e, Pmalloc)) >= 1
    BY DEF Hit, Wanted, Pmalloc
  <2> QED
    BY <2>1, FS_EmptySet DEF RunAt
<1>4. PICK base \in RunAt(e, Pmalloc) : \A h \in RunAt(e, Pmalloc) : base <= h
  BY <1>3, LeastFrame
<1>5. ~ (Pmalloc.page_alloc_num = 0 /\ Pmalloc.contiguous)
  BY DEF Pmalloc
<1> QED
  BY <1>2, <1>3, <1>4, <1>5 DEF Found

-----------------------------------------------------------------------------
(* The free stack's words and pages have their types.                      *)

\* Every frame the loader declares available is one the model knows: below 16 MiB
\* or among HighFrames.
MemoryKnown ==
    \A i \in 1 .. Len(BootRegions) :
        LET loop == RegionLoop(BootRegions[i]) IN
        loop.kind = "clear_region" =>
            \A n \in Nat : loop.next <= n /\ n < loop.end
                             => n \in Frames \cup HighFrames

StackInv ==
    /\ StackTypeOK
    /\ op.kind = "clear_region" =>
          \A n \in Nat : op.next <= n /\ n < op.end => n \in Frames \cup HighFrames
    /\ \A i \in 1 .. Len(booting) :
          LET loop == RegionLoop(booting[i]) IN
          loop.kind = "clear_region" =>
              \A n \in Nat : loop.next <= n /\ n < loop.end
                               => n \in Frames \cup HighFrames

\* The index stays between the back link and the end of the page, whatever is
\* pushed.
LEMMA PushKeepsTypes ==
  ASSUME StackTypeOK, NEW f \in HighFrames, StackPush(f)
  PROVE  StackTypeOK'
<1>1. BlankPage \in [0 .. Slots - 1 -> Addresses] /\ Slots \in Nat
  BY FreeStackAssumption DEF BlankPage, Addresses
<1>2. f \in Addresses /\ Garbage \in Addresses
  BY DEF Addresses
<1>3. CASE stack32 = Unmapped
  BY <1>1, <1>2, <1>3 DEF StackPush, StackTypeOK
<1>4. CASE stack32 # Unmapped /\ stack64 = Unmapped
  BY <1>1, <1>2, <1>4 DEF StackPush, StackTypeOK
<1>5. CASE stack32 # Unmapped /\ stack64 # Unmapped /\ stack32_index = Slots
  <2>1. stack32 \in Addresses
    BY <1>5 DEF StackTypeOK, Addresses
  <2>2. /\ stack32' = f /\ stack32_index' = 0 /\ UNCHANGED <<stack64, crashed>>
        /\ backlink' = [backlink EXCEPT ![f] = stack32]
        /\ freeAddrs' = [freeAddrs EXCEPT ![f] = BlankPage]
    BY <1>1, <1>5 DEF StackPush
  <2> QED
    BY <1>1, <2>1, <2>2 DEF StackTypeOK
<1>6. CASE /\ stack32 # Unmapped /\ stack64 # Unmapped
           /\ stack32_index \in -1 .. Slots - 1
  <2>1. /\ stack32_index' = stack32_index + 1
        /\ UNCHANGED <<stack32, stack64, crashed>>
        /\ IF stack32_index = -1
           THEN /\ backlink' = [backlink EXCEPT ![stack32] = f]
                /\ UNCHANGED freeAddrs
           ELSE /\ freeAddrs' = [freeAddrs EXCEPT ![stack32][stack32_index] = f]
                /\ UNCHANGED backlink
    BY <1>1, <1>6 DEF StackPush
  <2>2. stack32_index' \in -1 .. Slots
    BY <1>1, <1>6, <2>1
  <2>3. backlink' \in [HighFrames -> Addresses]
    BY <1>2, <2>1 DEF StackTypeOK
  <2>4. freeAddrs' \in [HighFrames -> [0 .. Slots - 1 -> Addresses]]
    <3>1. CASE stack32_index = -1
      BY <2>1, <3>1 DEF StackTypeOK
    <3>2. CASE stack32_index # -1
      <4>1. freeAddrs' = [freeAddrs EXCEPT
              ![stack32] = [freeAddrs[stack32] EXCEPT ![stack32_index] = f]]
        BY <2>1, <3>2
      <4>2. stack32 \in HighFrames
        BY <1>6 DEF StackTypeOK
      <4>3. freeAddrs[stack32] \in [0 .. Slots - 1 -> Addresses]
        BY <4>2 DEF StackTypeOK
      <4>4. [freeAddrs[stack32] EXCEPT ![stack32_index] = f]
              \in [0 .. Slots - 1 -> Addresses]
        BY <1>2, <4>3
      <4> QED
        BY <4>1, <4>2, <4>4 DEF StackTypeOK
    <3> QED
      BY <3>1, <3>2
  <2> QED
    BY <2>1, <2>2, <2>3, <2>4 DEF StackTypeOK
<1> QED
  BY <1>1, <1>3, <1>4, <1>5, <1>6 DEF StackTypeOK

LEMMA PopKeepsTypes ==
  ASSUME StackTypeOK, NEW addr, StackPop(addr)
  PROVE  StackTypeOK'
<1>1. Slots \in Nat /\ Slots > 0
  BY FreeStackAssumption
<1>2. stack32 \in HighFrames /\ backlink[stack32] \in Addresses
  BY DEF StackPop, StackTypeOK
<1>3. stack32' \in HighFrames
  BY <1>2 DEF StackPop, Addresses
<1>4. stack32_index' \in -1 .. Slots
  BY <1>1 DEF StackPop, StackTypeOK
<1> QED
  BY <1>3, <1>4 DEF StackPop, StackTypeOK

LEMMA NextStackInv ==
  ASSUME BitmapInv, StackInv, [Next]_vars
  PROVE  StackInv'
<1>1. ASSUME UNCHANGED stackVars PROVE StackTypeOK'
  BY <1>1 DEF stackVars, StackInv, StackTypeOK
<1>2. CASE DescribeRegion
  <2>1. booting' = Tail(booting) /\ booting # <<>> /\ booting \in Seq(Regions)
    BY <1>2 DEF DescribeRegion, BitmapInv
  <2>2. Len(booting) >= 1 /\ Head(booting) = booting[1]
    BY <2>1
  <2>3. op' = Idle \/ op' = RegionLoop(booting[1])
    BY <1>2, <2>2 DEF DescribeRegion
  <2>4. op'.kind = "clear_region" =>
          \A n \in Nat : op'.next <= n /\ n < op'.end => n \in Frames \cup HighFrames
    BY <2>1, <2>2, <2>3 DEF StackInv, Idle
  <2>5. \A i \in 1 .. Len(booting') :
          i + 1 \in 1 .. Len(booting) /\ booting'[i] = booting[i + 1]
    BY <2>1
  <2> QED
    BY <1>1, <1>2, <2>4, <2>5 DEF DescribeRegion, StackInv
<1>3. CASE ClearRegion
  <2>1. op \in Loops /\ op.kind = "clear_region" /\ op.next < op.end
    BY <1>3 DEF ClearRegion, InLoop, BitmapInv
  <2>2. op.next \in Frames \cup HighFrames
    BY <2>1 DEF StackInv, Loops
  <2>3. StackTypeOK'
    <3>1. CASE op.next < NumFrames
      BY <1>1, <1>3, <3>1 DEF ClearRegion
    <3>2. CASE ~ (op.next < NumFrames)
      <4>1. op.next \in HighFrames
        BY <2>2, <3>2, Sizes DEF Frames
      <4> QED
        BY <1>3, <3>2, <4>1, PushKeepsTypes DEF ClearRegion, StackInv
    <3> QED
      BY <3>1, <3>2
  <2>4. \/ op'.kind = "idle"
        \/ op'.kind = op.kind /\ op'.next = op.next + 1 /\ op'.end = op.end
    BY <1>3, AdvanceShrinks DEF ClearRegion
  <2>5. op'.kind = "clear_region" =>
          \A n \in Nat : op'.next <= n /\ n < op'.end => n \in Frames \cup HighFrames
    BY <2>1, <2>4 DEF StackInv, Loops
  <2>6. booting' = booting
    BY <1>3 DEF ClearRegion
  <2> QED
    BY <2>3, <2>5, <2>6 DEF StackInv
<1>4. CASE LoopOver
  BY <1>1, <1>4 DEF LoopOver, StackInv, Idle
<1>5. CASE SetRegion \/ AllocLoop \/ FreeLoop
  <2>1. Advance /\ UNCHANGED <<stackVars, booting>> /\ op.kind # "clear_region"
    BY <1>5 DEF SetRegion, AllocLoop, FreeLoop, InLoop
  <2> QED
    BY <1>1, <2>1, AdvanceShrinks DEF StackInv
<1>6. ASSUME NEW c \in Clients, NEW flags \in Requests, NEW base \in Frames,
             Alloc(c, flags, base)
      PROVE  StackInv'
  BY <1>1, <1>6 DEF Alloc, StackInv, Idle
<1>7. ASSUME NEW c \in Clients, NEW flags \in Requests, NEW addr \in Addresses,
             AllocHigh(c, flags, addr)
      PROVE  StackInv'
  <2>1. StackTypeOK'
    BY <1>7, PopKeepsTypes DEF AllocHigh, StackInv
  <2> QED
    BY <1>7, <2>1 DEF AllocHigh, StackInv
<1>8. ASSUME NEW c \in Clients, NEW flags \in Requests, AllocCrash(c, flags)
      PROVE  StackInv'
  BY <1>8 DEF AllocCrash, StackPopFaults, StackInv, StackTypeOK
<1>9. ASSUME NEW c \in Clients, Free(c) PROVE StackInv'
  BY <1>1, <1>9 DEF Free, StackInv, Idle
<1>10. ASSUME NEW c \in Clients, FreeHigh(c) PROVE StackInv'
  <2>1. StackTypeOK'
    BY <1>10, PushKeepsTypes DEF FreeHigh, StackInv
  <2> QED
    BY <1>10, <2>1 DEF FreeHigh, StackInv
<1>11. CASE UNCHANGED vars
  BY <1>1, <1>11 DEF vars, StackInv
<1> QED
  BY <1>2, <1>3, <1>4, <1>5, <1>6, <1>7, <1>8, <1>9, <1>10, <1>11
     DEF Next, Loop, ClientStep

\* Type correctness, the free stack's index and words included: a frame above
\* 16 MiB that is pushed at either end of a stack page lands inside it.
THEOREM TypeCorrectness ==
  ASSUME MemoryKnown
  PROVE  Spec => []TypeOK
<1>1. Init => StackInv
  <2> SUFFICES ASSUME Init PROVE StackInv
    OBVIOUS
  <2>1. Slots \in Nat /\ Garbage \in Addresses
    BY FreeStackAssumption DEF Addresses
  <2>2. BlankPage \in [0 .. Slots - 1 -> Addresses]
    BY <2>1 DEF BlankPage
  <2>3. StackTypeOK
    <3>1. stack32_index \in -1 .. Slots
      BY <2>1 DEF Init, StackInit
    <3>2. backlink \in [HighFrames -> Addresses]
      BY <2>1 DEF Init, StackInit
    <3>3. freeAddrs \in [HighFrames -> [0 .. Slots - 1 -> Addresses]]
      <4> HIDE DEF BlankPage
      <4> QED
        BY <2>2 DEF Init, StackInit
    <3> QED
      BY <3>1, <3>2, <3>3 DEF Init, StackInit, StackTypeOK
  <2> QED
    BY <2>3 DEF Init, Idle, StackInv, MemoryKnown
<1>2. BitmapInv /\ StackInv /\ [Next]_vars => StackInv'
  BY NextStackInv
<1>3. BitmapInv /\ StackInv => TypeOK
  BY DEF BitmapInv, StackInv, TypeOK, Loops, Blocks
<1> QED
  BY <1>1, <1>2, <1>3, BitmapInvariance, PTL DEF Spec

-----------------------------------------------------------------------------
(* Which frames are free once the loop in progress is over: the rounds of  *)
(* a loop leave that alone, so the set changes only where a loop begins.   *)

Pending(f) == op.next <= f /\ f < op.end

Available ==
    {f \in Frames : /\ \/ f \notin block_bitmap
                       \/ /\ op.kind \in {"clear", "clear_region"} /\ Pending(f)
                          /\ f \notin NullFrames
                    /\ op.kind \in {"set", "set_region"} => ~ Pending(f)}

LEMMA SetRoundKeepsAvailable ==
  ASSUME BitmapInv, op.kind \in {"set", "set_region"}, op.next < op.end,
         SetBit(op.next), Advance
  PROVE  Available' = Available
<1>1. op.next \in Nat /\ op.end \in Nat /\ NumFrames \in Nat
  BY Sizes DEF BitmapInv, Loops
<1>2. ASSUME NEW f \in Frames
      PROVE  f \in block_bitmap' <=> f \in block_bitmap \/ f = op.next
  <2>1. f \in Nat /\ f < NumFrames
    BY <1>1 DEF Frames
  <2> QED
    BY <1>1, <2>1 DEF SetBit, bitmapVars
<1>3. CASE op'.kind = "idle" /\ op.next + 1 >= op.end
  <2>1. \A f \in Frames : f \in Available' <=> f \in Available
    <3> SUFFICES ASSUME NEW f \in Frames PROVE f \in Available' <=> f \in Available
      OBVIOUS
    <3>1. f \in Int
      BY DEF Frames
    <3>2. Pending(f) <=> f = op.next
      BY <1>1, <1>3, <3>1 DEF Pending
    <3> QED
      BY <1>2, <1>3, <3>2 DEF Available
  <2> QED
    BY <2>1 DEF Available
<1>4. CASE op'.kind = op.kind /\ op'.next = op.next + 1 /\ op'.end = op.end
  <2>1. \A f \in Frames : f \in Available' <=> f \in Available
    <3> SUFFICES ASSUME NEW f \in Frames PROVE f \in Available' <=> f \in Available
      OBVIOUS
    <3>1. f \in Int
      BY DEF Frames
    <3>2. Pending(f) <=> f = op.next \/ Pending(f)'
      BY <1>1, <1>4, <3>1 DEF Pending
    <3>3. f # op.next \/ ~ Pending(f)'
      BY <1>1, <1>4, <3>1 DEF Pending
    <3> QED
      BY <1>2, <1>4, <3>2, <3>3 DEF Available
  <2> QED
    BY <2>1 DEF Available
<1> QED
  BY <1>3, <1>4, AdvanceShrinks

LEMMA ClearRoundKeepsAvailable ==
  ASSUME BitmapInv, op.kind \in {"clear", "clear_region"}, op.next < op.end,
         Advance,
         \A f \in Frames : f \in block_bitmap' <=>
            \/ f \in block_bitmap /\ f # op.next
            \/ f \in NullFrames
  PROVE  Available' = Available
<1>1. op.next \in Nat /\ op.end \in Nat
  BY DEF BitmapInv, Loops
<1>2. NullFrames \subseteq block_bitmap
  BY DEF BitmapInv, NullFramesSet
<1>3. CASE op'.kind = "idle" /\ op.next + 1 >= op.end
  <2>1. \A f \in Frames : f \in Available' <=> f \in Available
    <3> SUFFICES ASSUME NEW f \in Frames PROVE f \in Available' <=> f \in Available
      OBVIOUS
    <3>1. f \in Int
      BY DEF Frames
    <3>2. Pending(f) <=> f = op.next
      BY <1>1, <1>3, <3>1 DEF Pending
    <3> QED
      BY <1>2, <1>3, <3>2 DEF Available
  <2> QED
    BY <2>1 DEF Available
<1>4. CASE op'.kind = op.kind /\ op'.next = op.next + 1 /\ op'.end = op.end
  <2>1. \A f \in Frames : f \in Available' <=> f \in Available
    <3> SUFFICES ASSUME NEW f \in Frames PROVE f \in Available' <=> f \in Available
      OBVIOUS
    <3>1. f \in Int
      BY DEF Frames
    <3>2. Pending(f) <=> f = op.next \/ Pending(f)'
      BY <1>1, <1>4, <3>1 DEF Pending
    <3> QED
      BY <1>2, <1>4, <3>2 DEF Available
  <2> QED
    BY <2>1 DEF Available
<1> QED
  BY <1>3, <1>4, AdvanceShrinks

\* Leaving a loop leaves nothing of it undone below 16 MiB.
LEMMA LoopOverKeepsAvailable ==
  ASSUME BitmapInv, LoopOver
  PROVE  Available' = Available
<1>1. op.next \in Nat /\ op.end \in Nat /\ NumFrames \in Nat /\ op'.kind = "idle"
  BY Sizes DEF BitmapInv, Loops, LoopOver, Idle
<1>2. NumFrames <= AddrSpace \div PageSize - 1
  <2>1. AddrSpace \div PageSize \in Int
    BY PmmAssumption
  <2> QED
    BY <1>1, <2>1, AddrSpaceAssumption
<1>3. ASSUME NEW f \in Frames PROVE ~ Pending(f)
  <2>1. f \in Nat /\ f < NumFrames
    BY <1>1 DEF Frames
  <2>2. op.next >= op.end \/ op.next >= NumFrames
    <3>1. AddrSpace \div PageSize \in Int
      BY PmmAssumption
    <3> QED
      BY <1>1, <1>2, <3>1 DEF LoopOver
  <2> QED
    BY <1>1, <2>1, <2>2 DEF Pending
<1>4. block_bitmap' = block_bitmap
  BY DEF LoopOver, bitmapVars
<1> QED
  BY <1>1, <1>3, <1>4 DEF Available

LEMMA LoopKeepsAvailable ==
  ASSUME BitmapInv, Loop
  PROVE  Available' = Available
<1>1. CASE LoopOver
  BY <1>1, LoopOverKeepsAvailable
<1>2. CASE SetRegion \/ AllocLoop
  BY <1>2, SetRoundKeepsAvailable DEF SetRegion, AllocLoop, InLoop
<1>3. CASE ClearRegion
  <2>1. op.next \in Nat /\ NumFrames \in Nat
    BY Sizes DEF BitmapInv, Loops
  <2>2. ASSUME NEW f \in Frames
        PROVE  f \in block_bitmap' <=> \/ f \in block_bitmap /\ f # op.next
                                       \/ f \in NullFrames
    <3>1. f \in Nat /\ f < NumFrames
      BY <2>1 DEF Frames
    <3> QED
      BY <1>3, <2>1, <3>1 DEF ClearRegion
  <2> QED
    BY <1>3, <2>2, ClearRoundKeepsAvailable DEF ClearRegion, InLoop
<1>4. CASE FreeLoop
  <2>1. op.next \in Nat /\ op.next >= FirstFreeable /\ NumFrames \in Nat
    BY <1>4, Sizes DEF FreeLoop, InLoop, BitmapInv, Loops
  <2>2. op.next \notin NullFrames /\ NullFrames \subseteq block_bitmap
    BY <2>1, PmmAssumption DEF NullFrames, BitmapInv, NullFramesSet
  <2>3. ASSUME NEW f \in Frames
        PROVE  f \in block_bitmap' <=> \/ f \in block_bitmap /\ f # op.next
                                       \/ f \in NullFrames
    <3>1. f \in Nat /\ f < NumFrames
      BY <2>1 DEF Frames
    <3> QED
      BY <1>4, <2>1, <2>2, <3>1 DEF FreeLoop, ClearBit, bitmapVars
  <2> QED
    BY <1>4, <2>3, ClearRoundKeepsAvailable DEF FreeLoop, InLoop
<1> QED
  BY <1>1, <1>2, <1>3, <1>4 DEF Loop

-----------------------------------------------------------------------------
(* Exclusive holding.                                                      *)

\* A call that asks for a run of frames asks for it aligned, and a call of pfree gives
\* the size that was allocated.  kinit's PMM test does neither (kernel.c:175-190, which
\* is compiled in): pfree(paddr_big, 4096) frees what others hold.
OrderlyCalls ==
    /\ \A c \in Clients, flags \in Requests, base \in Frames :
          Alloc(c, flags, base) => (flags.contiguous => flags.align_64kb)
    /\ \A c \in Clients : Free(c) => FreeCount(holds[c]) = holds[c].size

\* No call is any other.
OrderlyClients ==
    /\ \A flags \in Requests : flags.contiguous => flags.align_64kb
    /\ ~ SelfTest

LEMMA ClientsAreOrderly ==
  ASSUME OrderlyClients
  PROVE  OrderlyCalls
BY DEF OrderlyClients, OrderlyCalls, FreeCount

AllFree == \A c \in Clients : holds[c] = Nothing

\* The frames below 16 MiB a client holds.
Held(c) == FramesOf(holds[c]) \cap Frames

\* What is held will not be free, whatever loop is in progress, and nothing is held
\* while kinit describes memory.
HoldInv ==
    /\ \A c \in Clients : Held(c) \cap Available = {}
    /\ \A c, d \in Clients : c # d => Held(c) \cap Held(d) = {}
    /\ \A c \in Clients : \/ FramesOf(holds[c]) \subseteq Frames
                          \/ holds[c].base \in HighFrames /\ holds[c].size = 1
    /\ op.kind \in {"set_region", "clear_region"} => AllFree
    /\ booting # <<>> => AllFree

\* Frames of one group have no other group between them.
LEMMA GroupConvex ==
  ASSUME NEW f \in Nat, NEW h \in Nat, NEW e \in Nat, f <= h, h <= e,
         GroupOf(f) = GroupOf(e)
  PROVE  GroupOf(h) = GroupOf(f)
<1> DEFINE k == GroupBits
           q == GroupOf(f)
           r == GroupOf(h)
<1>1. k \in Nat /\ k > 0
  BY PmmAssumption
<1>2. q \in Int /\ r \in Int
  BY <1>1 DEF GroupOf
<1>3. k * q <= f /\ k * r <= h /\ h < k * r + k
  BY <1>1 DEF GroupOf
<1>4. e < k * q + k
  BY <1>1 DEF GroupOf
<1>5. k * r < k * (q + 1) /\ k * q < k * (r + 1)
  <2>1. k * (q + 1) = k * q + k /\ k * (r + 1) = k * r + k
    BY <1>1, <1>2
  <2>2. k * q \in Int /\ k * r \in Int
    BY <1>1, <1>2
  <2> HIDE DEF q, r, k
  <2> QED
    BY <1>1, <1>3, <1>4, <2>1, <2>2
<1> HIDE DEF q, r, k
<1>6. r < q + 1 /\ q < r + 1
  BY <1>1, <1>2, <1>5
<1> QED
  BY <1>2, <1>6 DEF q, r

\* What the search returns is free, all of it.
LEMMA FoundIsFree ==
  ASSUME NEW flags \in Requests, flags.contiguous => flags.align_64kb,
         NEW base \in Frames, Found(base, flags)
  PROVE  \A f \in base .. base + Size(flags) - 1 :
            f \in Frames /\ f \notin block_bitmap
<1>1. PICK e \in Frames : /\ Hit(e, flags) /\ base \in RunAt(e, flags)
                         /\ \A f \in RunAt(e, flags) : base <= f
  BY DEF Found
<1>2. base \in Nat /\ e \in Nat /\ base <= e
  BY <1>1 DEF Frames, RunAt
<1>3. \A h \in base .. e : Visible(h, flags) => h \notin block_bitmap
  BY <1>1 DEF RunAt
<1>4. Visible(base, flags)
  BY <1>1 DEF RunAt
<1>5. CASE ~ flags.contiguous
  <2>1. Size(flags) = 1
    BY <1>5 DEF Size
  <2>2. base \in base .. e
    BY <1>2
  <2>3. base \notin block_bitmap
    BY <1>3, <1>4, <2>2
  <2>4. base .. base + Size(flags) - 1 = {base}
    BY <1>2, <2>1
  <2> QED
    BY <2>3, <2>4
<1>6. CASE flags.contiguous
  <2> DEFINE n == Size(flags)
             run == RunAt(e, flags)
  <2>1. n \in Nat /\ n > 0 /\ n = flags.page_alloc_num /\ Wanted(flags) = n
    BY <1>6, PmmAssumption DEF Size, Found, Flags, Wanted
  <2>2. GroupOf(base) = GroupOf(e)
    BY <1>1, <1>6 DEF RunAt
  <2>3. ASSUME NEW h \in base .. e PROVE h \in Frames /\ h \notin block_bitmap
    <3>1. h \in Nat /\ base <= h /\ h <= e /\ h \in Frames
      BY <1>2, Sizes DEF Frames
    <3>2. GroupOf(h) = GroupOf(base)
      BY <1>2, <2>2, <3>1, GroupConvex
    <3>3. Visible(h, flags)
      BY <1>4, <3>2 DEF Visible
    <3> QED
      BY <1>3, <3>1, <3>3
  <2>4. run \subseteq base .. e
    BY <1>1, <1>2 DEF RunAt, Frames
  <2>5. /\ IsFiniteSet(base .. e) /\ Cardinality(base .. e) = e - base + 1
    BY <1>2, FS_Interval
  <2>6. Cardinality(run) <= e - base + 1 /\ Cardinality(run) \in Nat
    BY <2>4, <2>5, FS_Subset, FS_CardinalityType
  <2>7. Cardinality(run) >= n
    BY <1>1, <2>1 DEF Hit
  <2> HIDE DEF n, run
  <2>8. base + n - 1 <= e
    BY <1>2, <2>1, <2>6, <2>7
  <2>9. \A h \in base .. base + n - 1 : h \in base .. e
    BY <1>2, <2>1, <2>8
  <2> QED
    BY <2>3, <2>9 DEF n
<1> QED
  BY <1>5, <1>6

LEMMA AllFreeHoldsNothing ==
  ASSUME AllFree
  PROVE  \A c \in Clients : FramesOf(holds[c]) = {}
BY DEF AllFree, Nothing, FramesOf


\* An allocation takes what the search returned, all of it, out of what is
\* available.
LEMMA AllocTakes ==
  ASSUME OrderlyCalls, BitmapInv, NEW c \in Clients,
         NEW flags \in Requests, NEW base \in Frames, Alloc(c, flags, base)
  PROVE  /\ FramesOf(holds'[c]) \subseteq Available
         /\ Available' = Available \ FramesOf(holds'[c])
         /\ base \in FramesOf(holds'[c])
<1> DEFINE n == Size(flags)
           block == [base |-> base, size |-> n]
<1>1. n \in Nat /\ n >= 1 /\ base \in Nat /\ base < NumFrames /\ NumFrames \in Nat
  <2>1. flags \in Flags /\ ~ (flags.page_alloc_num = 0 /\ flags.contiguous)
    BY PmmAssumption DEF Alloc, Found
  <2> QED
    BY <2>1, Sizes DEF Size, Flags, Frames
<1>2. \A f \in base .. base + n - 1 : f \in Frames /\ f \notin block_bitmap
  BY FoundIsFree DEF Alloc, OrderlyCalls
<1>3. op.kind = "idle" /\ SetBit(base)
  BY DEF Alloc, Running, Idle
<1>4. holds'[c] = block
  BY DEF Alloc, BitmapInv
<1> HIDE DEF n
<1>5. FramesOf(holds'[c]) = base .. base + n - 1
  BY <1>4 DEF FramesOf
<1>6. block_bitmap' = block_bitmap \cup {base}
  BY <1>1, <1>3 DEF SetBit
<1>7. \A f \in Frames : f \in Available <=> f \notin block_bitmap
  BY <1>3 DEF Available
<1>8. \/ n = 1 /\ op'.kind = "idle"
      \/ n > 1 /\ op'.kind = "set" /\ op'.next = base + 1 /\ op'.end = base + n
  BY <1>1 DEF Alloc, Idle, n
<1>9. ASSUME NEW f \in Frames
      PROVE  f \in Available' <=> f \in Available /\ f \notin base .. base + n - 1
  <2>1. f \in Nat
    BY DEF Frames
  <2>2. CASE n = 1 /\ op'.kind = "idle"
    <3>1. f \in Available' <=> f \notin block_bitmap'
      BY <2>2 DEF Available
    <3>2. f \in base .. base + n - 1 <=> f = base
      BY <1>1, <2>1, <2>2
    <3> QED
      BY <1>6, <1>7, <3>1, <3>2
  <2>3. CASE /\ n > 1 /\ op'.kind = "set"
             /\ op'.next = base + 1 /\ op'.end = base + n
    <3>1. f \in Available' <=> f \notin block_bitmap' /\ ~ Pending(f)'
      BY <2>3 DEF Available
    <3>2. f \in base .. base + n - 1 <=> f = base \/ Pending(f)'
      BY <1>1, <2>1, <2>3 DEF Pending
    <3> QED
      BY <1>6, <1>7, <3>1, <3>2
  <2> QED
    BY <1>8, <2>2, <2>3
<1>10. Available' = Available \ FramesOf(holds'[c])
  BY <1>5, <1>9 DEF Available
<1>11. FramesOf(holds'[c]) \subseteq Available
  BY <1>2, <1>5, <1>7
<1>12. base \in FramesOf(holds'[c])
  BY <1>1, <1>5
<1> QED
  BY <1>10, <1>11, <1>12

\* pfree makes the block available, unless it begins below FirstFreeable.
LEMMA FreeGives ==
  ASSUME OrderlyCalls, BitmapInv, HoldInv, NEW c \in Clients, Free(c)
  PROVE  /\ holds[c].base < FirstFreeable => Available' = Available
         /\ holds[c].base >= FirstFreeable => Available' = Available \cup Held(c)
<1> DEFINE b == holds[c]
<1>1. b \in Blocks /\ FreeCount(b) = b.size /\ FirstFreeable \in Nat
  BY PmmAssumption DEF BitmapInv, OrderlyCalls
<1>2. op.kind = "idle" /\ UNCHANGED block_bitmap
  BY DEF Free, Running, Idle, bitmapVars
<1>3. \A f \in Frames : f \in Available <=> f \notin block_bitmap
  BY <1>2 DEF Available
<1>4. CASE b.base < FirstFreeable
  <2>1. op'.kind = "idle"
    BY <1>4 DEF Free, Idle
  <2>2. Available' = Available
    BY <1>2, <2>1 DEF Available
  <2> QED
    BY <1>1, <1>4, <2>2 DEF Blocks
<1>5. CASE ~ (b.base < FirstFreeable)
  <2>1. op'.kind = "clear" /\ op'.next = b.base /\ op'.end = b.base + b.size
    BY <1>1, <1>5 DEF Free
  <2>2. b.base \in Nat /\ b.size \in Nat /\ b.base > 2
    BY <1>1, <1>5, PmmAssumption DEF Blocks
  <2>3. ASSUME NEW f \in Frames
        PROVE  f \in Available' <=> f \in Available \/ f \in Held(c)
    <3>1. f \in Nat
      BY DEF Frames
    <3>2. Pending(f)' <=> f \in Held(c)
      BY <2>1, <2>2, <3>1 DEF Pending, Held, FramesOf
    <3>3. Pending(f)' => f \notin NullFrames
      BY <2>1, <2>2, <3>1 DEF Pending, NullFrames
    <3>4. f \in Available' <=> \/ f \notin block_bitmap'
                               \/ Pending(f)' /\ f \notin NullFrames
      BY <2>1 DEF Available
    <3> QED
      BY <1>2, <1>3, <3>2, <3>3, <3>4
  <2>4. Available' = Available \cup Held(c)
    BY <2>3 DEF Available, Held
  <2> QED
    BY <1>1, <1>5, <2>4 DEF Blocks
<1> QED
  BY <1>4, <1>5

LEMMA InitHoldInv == Init => HoldInv
<1> SUFFICES ASSUME Init PROVE HoldInv
  OBVIOUS
<1>1. \A c \in Clients : holds[c] = Nothing /\ FramesOf(holds[c]) = {}
  BY DEF Init, Nothing, FramesOf
<1> QED
  BY <1>1 DEF HoldInv, AllFree, Held, Init, Idle

\* Steps that hand nothing out and take nothing back.
LEMMA HoldsKept ==
  ASSUME HoldInv, UNCHANGED <<holds, booting>>,
         Available' = Available \/ AllFree,
         op'.kind \in {"set_region", "clear_region"} => AllFree
  PROVE  HoldInv'
<1>1. \A c \in Clients : Held(c)' = Held(c)
  BY DEF Held
<1>2. AllFree => \A c \in Clients : Held(c) = {}
  BY AllFreeHoldsNothing DEF Held
<1>3. \A c \in Clients : Held(c)' \cap Available' = {}
  BY <1>1, <1>2 DEF HoldInv
<1> QED
  BY <1>1, <1>3 DEF HoldInv, AllFree

LEMMA NextHoldInv ==
  ASSUME OrderlyCalls, BitmapInv, HoldInv, [Next]_vars
  PROVE  HoldInv'
<1>1. CASE DescribeRegion
  <2>1. AllFree /\ AllFree' /\ holds' = holds
    BY <1>1 DEF DescribeRegion, HoldInv, AllFree
  <2>2. \A c \in Clients : holds'[c] = Nothing /\ Held(c)' = {}
    BY <2>1, AllFreeHoldsNothing DEF AllFree, Held
  <2>3. \A c \in Clients : FramesOf(holds'[c]) \subseteq Frames
    BY <2>2 DEF FramesOf, Nothing
  <2> QED
    BY <2>1, <2>2, <2>3 DEF HoldInv
<1>2. CASE Loop
  <2>1. UNCHANGED <<holds, booting>>
    BY <1>2 DEF Loop, LoopOver, SetRegion, ClearRegion, AllocLoop, FreeLoop
  <2>2. op'.kind = "idle" \/ op'.kind = op.kind
    BY <1>2, AdvanceShrinks
       DEF Loop, LoopOver, SetRegion, ClearRegion, AllocLoop, FreeLoop, Idle
  <2>3. op'.kind \in {"set_region", "clear_region"} => AllFree
    BY <2>2 DEF HoldInv
  <2> QED
    BY <1>2, <2>1, <2>3, LoopKeepsAvailable, HoldsKept
<1>3. ASSUME NEW c \in Clients, NEW flags \in Requests, NEW base \in Frames,
             Alloc(c, flags, base)
      PROVE  HoldInv'
  <2>1. /\ FramesOf(holds'[c]) \subseteq Available
        /\ Available' = Available \ FramesOf(holds'[c])
    BY <1>3, AllocTakes
  <2>2. Available \subseteq Frames
    BY DEF Available
  <2>3. \A d \in Clients : d # c => holds'[d] = holds[d] /\ Held(d)' = Held(d)
    BY <1>3 DEF Alloc, BitmapInv, Held
  <2>4. Held(c)' = FramesOf(holds'[c])
    BY <2>1, <2>2 DEF Held
  <2>5. \A d \in Clients : Held(d)' \cap Available' = {}
    BY <2>1, <2>3, <2>4 DEF HoldInv
  <2>6. \A d \in Clients : d # c => Held(d)' \cap Held(c)' = {}
    BY <2>1, <2>3, <2>4 DEF HoldInv
  <2>7. \A d, e \in Clients : d # e => Held(d)' \cap Held(e)' = {}
    <3> SUFFICES ASSUME NEW d \in Clients, NEW e \in Clients, d # e
                 PROVE  Held(d)' \cap Held(e)' = {}
      OBVIOUS
    <3>1. CASE d = c \/ e = c
      BY <2>6, <3>1
    <3>2. CASE d # c /\ e # c
      BY <2>3, <3>2 DEF HoldInv
    <3> QED
      BY <3>1, <3>2
  <2>8. \A d \in Clients : \/ FramesOf(holds'[d]) \subseteq Frames
                           \/ holds'[d].base \in HighFrames /\ holds'[d].size = 1
    BY <2>1, <2>2, <2>3 DEF HoldInv
  <2>9. booting' = <<>> /\ op'.kind \in {"idle", "set"}
    BY <1>3 DEF Alloc, Running, Idle
  <2> QED
    BY <2>5, <2>7, <2>8, <2>9 DEF HoldInv
<1>4. ASSUME NEW c \in Clients, NEW flags \in Requests, NEW addr \in Addresses,
             AllocHigh(c, flags, addr)
      PROVE  HoldInv'
  <2>1. /\ UNCHANGED <<block_bitmap, op, booting>>
        /\ op.kind = "idle" /\ booting = <<>>
    BY <1>4 DEF AllocHigh, bitmapVars, Running, Idle
  <2>2. Available' = Available
    BY <2>1 DEF Available, Pending
  <2>3. \/ holds' = holds
        \/ /\ addr \in HighFrames
           /\ holds' = [holds EXCEPT ![c] = [base |-> addr, size |-> 1]]
    BY <1>4 DEF AllocHigh, Addresses
  <2>4. CASE holds' = holds
    BY <2>1, <2>2, <2>4, HoldsKept
  <2>5. CASE /\ addr \in HighFrames
             /\ holds' = [holds EXCEPT ![c] = [base |-> addr, size |-> 1]]
    <3>1. /\ holds'[c] = [base |-> addr, size |-> 1]
          /\ \A d \in Clients : d # c => holds'[d] = holds[d]
      BY <2>5 DEF BitmapInv
    <3>2. addr \in Nat /\ addr \notin Frames
      BY <2>5, PmmAssumption
    <3>3. Held(c)' = {}
      BY <3>1, <3>2 DEF Held, FramesOf
    <3>4. \A d \in Clients : d # c => Held(d)' = Held(d)
      BY <3>1 DEF Held
    <3>5. \A d \in Clients : Held(d)' \cap Available' = {}
      BY <2>2, <3>3, <3>4 DEF HoldInv
    <3>6. \A d, e \in Clients : d # e => Held(d)' \cap Held(e)' = {}
      BY <3>3, <3>4 DEF HoldInv
    <3>7. \A d \in Clients : \/ FramesOf(holds'[d]) \subseteq Frames
                             \/ holds'[d].base \in HighFrames /\ holds'[d].size = 1
      BY <2>5, <3>1 DEF HoldInv
    <3> QED
      BY <2>1, <3>5, <3>6, <3>7 DEF HoldInv
  <2> QED
    BY <2>3, <2>4, <2>5
<1>5. ASSUME NEW c \in Clients, NEW flags \in Requests, AllocCrash(c, flags)
      PROVE  HoldInv'
  <2>1. UNCHANGED <<block_bitmap, op, booting, holds>>
    BY <1>5 DEF AllocCrash, bitmapVars
  <2>2. Available' = Available
    BY <2>1 DEF Available, Pending
  <2> QED
    BY <2>1, <2>2, HoldsKept DEF HoldInv
<1>6. ASSUME NEW c \in Clients, Free(c) \/ FreeHigh(c) PROVE HoldInv'
  <2>1. /\ holds'[c] = Nothing /\ booting' = booting /\ booting = <<>>
        /\ \A d \in Clients : d # c => holds'[d] = holds[d]
    BY <1>6 DEF Free, FreeHigh, BitmapInv, Running
  <2>2. FramesOf(holds'[c]) = {} /\ Held(c)' = {}
    BY <2>1 DEF Nothing, FramesOf, Held
  <2>3. \A d \in Clients : d # c => Held(d)' = Held(d)
    BY <2>1 DEF Held
  <2>4. Available' = Available \/ Available' = Available \cup Held(c)
    <3>1. CASE Free(c)
      <4>1. holds[c].base < FirstFreeable \/ holds[c].base >= FirstFreeable
        BY PmmAssumption DEF BitmapInv, Blocks
      <4> QED
        BY <3>1, <4>1, FreeGives
    <3>2. CASE FreeHigh(c)
      BY <3>2 DEF FreeHigh, bitmapVars, Available, Pending
    <3> QED
      BY <1>6, <3>1, <3>2
  <2>5. \A d \in Clients : Held(d)' \cap Available' = {}
    <3> SUFFICES ASSUME NEW d \in Clients, d # c
                 PROVE  Held(d)' \cap Available' = {}
      BY <2>2
    <3>1. Held(d) \cap Held(c) = {} /\ Held(d) \cap Available = {}
      BY DEF HoldInv
    <3> QED
      BY <2>3, <2>4, <3>1
  <2>6. \A d, e \in Clients : d # e => Held(d)' \cap Held(e)' = {}
    BY <2>2, <2>3 DEF HoldInv
  <2>7. \A d \in Clients : \/ FramesOf(holds'[d]) \subseteq Frames
                           \/ holds'[d].base \in HighFrames /\ holds'[d].size = 1
    BY <2>1, <2>2 DEF HoldInv
  <2>8. op'.kind \in {"idle", "clear"}
    BY <1>6 DEF Free, FreeHigh, Running, Idle
  <2> QED
    BY <2>1, <2>5, <2>6, <2>7, <2>8 DEF HoldInv
<1>7. CASE UNCHANGED vars
  <2>1. UNCHANGED <<block_bitmap, op, booting, holds>>
    BY <1>7 DEF vars, bitmapVars
  <2>2. Available' = Available
    BY <2>1 DEF Available, Pending
  <2> QED
    BY <2>1, <2>2, HoldsKept DEF HoldInv
<1> QED
  BY <1>1, <1>2, <1>3, <1>4, <1>5, <1>6, <1>7 DEF Next, ClientStep

THEOREM HoldInvariance ==
  ASSUME OrderlyClients
  PROVE  Spec => [](BitmapInv /\ HoldInv)
<1>1. Init => HoldInv
  BY InitHoldInv
<1>2. BitmapInv /\ HoldInv /\ [Next]_vars => HoldInv'
  BY NextHoldInv, ClientsAreOrderly
<1> QED
  BY <1>1, <1>2, BitmapInvariance, PTL DEF Spec

\* A frame that is held is set, or about to be by the loop of its own kpmalloc.
LEMMA HeldIsSet ==
  ASSUME BitmapInv, HoldInv, NEW c \in Clients, NEW f \in Held(c)
  PROVE  f \in block_bitmap \/ (op.kind = "set" /\ f \in op.next .. op.end - 1)
<1>1. f \in Frames /\ f \notin Available /\ f \in Int
  BY DEF HoldInv, Held, Frames
<1>2. op.kind # "set_region"
  BY AllFreeHoldsNothing DEF HoldInv, Held
<1>3. f \in block_bitmap \/ (op.kind = "set" /\ Pending(f))
  BY <1>1, <1>2 DEF Available
<1>4. op.next \in Nat /\ op.end \in Nat
  BY DEF BitmapInv, Loops
<1> QED
  BY <1>1, <1>3, <1>4 DEF Pending

\* A frame below 16 MiB is in one block at most, and not marked free while it is in
\* one, between any two steps of any loop.
LowHeldExclusively ==
    \A c \in Clients :
        /\ \A f \in Held(c) : \/ f \in block_bitmap
                              \/ op.kind = "set" /\ f \in op.next .. op.end - 1
        /\ \A d \in Clients : c # d => Held(c) \cap Held(d) = {}

\* From the start of kinit, and from any later state in which what is held is marked
\* and held once, that stays so for as long as the calls are orderly ones, with memory
\* above 16 MiB or without and whatever the free stack hands out.  Two calls of kinit
\* are not orderly (kernel.c:175-190): it asks for a run of 128 frames that is not
\* aligned, and frees 4096 for it.
THEOREM LowFramesHeldExclusively ==
  /\ Init => BitmapInv /\ HoldInv
  /\ BitmapInv /\ HoldInv /\ [][Next /\ OrderlyCalls]_vars => []LowHeldExclusively
<1>1. Init => BitmapInv /\ HoldInv
  BY InitBitmapInv, InitHoldInv
<1>2. BitmapInv /\ HoldInv => LowHeldExclusively
  BY HeldIsSet DEF HoldInv, LowHeldExclusively
<1>3. BitmapInv /\ HoldInv /\ [Next /\ OrderlyCalls]_vars => BitmapInv' /\ HoldInv'
  <2>1. BitmapInv /\ [Next]_vars => BitmapInv'
    BY NextBitmapInv
  <2>2. ASSUME BitmapInv, HoldInv, Next, OrderlyCalls PROVE HoldInv'
    BY <2>2, NextHoldInv
  <2>3. ASSUME BitmapInv, HoldInv, UNCHANGED vars PROVE HoldInv'
    BY <2>3 DEF vars, bitmapVars, HoldInv, Available, Pending, AllFree, Held
  <2> QED
    BY <2>1, <2>2, <2>3
<1>4. BitmapInv /\ HoldInv /\ [][Next /\ OrderlyCalls]_vars => []LowHeldExclusively
  BY <1>2, <1>3, PTL
<1> QED
  BY <1>1, <1>4

\* On a machine without memory above 16 MiB, whose free stack is never used, that
\* is every frame: none is handed to two clients, nor marked free while one of
\* them holds it.
THEOREM FramesHeldExclusively ==
  ASSUME OrderlyClients, HighFrames = {}
  PROVE  Spec => []HeldExclusively
<1>1. ASSUME BitmapInv, HoldInv PROVE HeldExclusively
  <2>1. \A c \in Clients : Held(c) = FramesOf(holds[c])
    BY <1>1 DEF HoldInv, Held
  <2> QED
    BY <1>1, <2>1, HeldIsSet DEF HoldInv, HeldExclusively
<1> QED
  BY <1>1, HoldInvariance, PTL

-----------------------------------------------------------------------------
(* Nothing but usable frames is handed out, and none is lost.              *)

\* No region of the memory map reaches the top of the address space, where the sum
\* in RegionLoop would wrap.
MapFits == \A i \in 1 .. Len(BootRegions) :
              BootRegions[i].base + BootRegions[i].size + PageSize - 1 < AddrSpace

\* No run of several frames begins below the first frame that can be freed: pfree
\* would ignore all of it.  kinit's own requests are for single frames.
RunsFreeable ==
    \/ \A flags \in Requests : Size(flags) <= 1
    \/ \A f \in UsableFrames : f < FirstFreeable => GroupOf(f + 1) # GroupOf(f)

\* The usable frames as the first k regions describe them.
UsableAfter(k) ==
    {f \in Frames \ NullFrames : \E i \in 1 .. k :
        /\ BootRegions[i].kind = "clear_region"
        /\ f \in RegionFrames(BootRegions[i])
        /\ \A j \in i + 1 .. k :
              BootRegions[j].kind = "set_region"
                => f \notin RegionFrames(BootRegions[j])}

Described == Len(BootRegions) - Len(booting)

Usable == UsableAfter(Described)

\* What kinit has not described yet is the rest of the memory map.
BootInv ==
    /\ Len(booting) <= Len(BootRegions)
    /\ \A i \in 1 .. Len(booting) : booting[i] = BootRegions[Described + i]

\* What is, or will be, free or held is what is usable; frames below FirstFreeable
\* are not given back.
AccountInv ==
    /\ BootInv
    /\ Available \subseteq Usable
    /\ \A c \in Clients : Held(c) \subseteq Usable
    /\ \A f \in Usable : f >= FirstFreeable =>
          f \in Available \/ \E c \in Clients : f \in Held(c)
    /\ \A c \in Clients : holds[c].size > 1 => holds[c].base >= FirstFreeable

\* A quotient lies below f + 1 exactly where the number lies below its product.
LEMMA QuotientBelow ==
  ASSUME NEW p \in Nat, p > 0, NEW b \in Nat, NEW f \in Nat
  PROVE  b \div p <= f <=> b < (f + 1) * p
<1> DEFINE q == b \div p
<1>1. q \in Int
  OBVIOUS
<1>2. p * q <= b
  OBVIOUS
<1>3. b < p * q + p
  OBVIOUS
<1> HIDE DEF q
<1>4. p * f \in Int /\ p * q \in Int
  BY <1>1
<1>5. (f + 1) * p = p * f + p
  OBVIOUS
<1>6. ASSUME q <= f PROVE b < (f + 1) * p
  <2>1. p * q <= p * f
    BY <1>1, <1>6
  <2> QED
    BY <1>1, <1>4, <1>3, <1>5, <2>1
<1>7. ASSUME ~ (q <= f) PROVE ~ (b < (f + 1) * p)
  <2>1. q >= f + 1
    BY <1>1, <1>7
  <2>2. p * q >= p * (f + 1)
    BY <1>1, <2>1
  <2>3. p * (f + 1) = (f + 1) * p
    BY <1>1
  <2> QED
    BY <1>1, <1>4, <1>2, <1>5, <2>2, <2>3
<1> QED
  BY <1>6, <1>7 DEF q

\* The loop of a region goes through the frames that the region touches.
LEMMA RegionLoopCovers ==
  ASSUME NEW r \in Regions, r.size > 0,
         r.base + r.size + PageSize - 1 < AddrSpace, NEW f \in Frames
  PROVE  f \in RegionFrames(r)
           <=> RegionLoop(r).next <= f /\ f < RegionLoop(r).end
<1> DEFINE s == r.base + r.size
           top == s + PageSize - 1
<1>1. /\ r.base \in Nat /\ r.size \in Nat /\ PageSize \in Nat /\ PageSize > 0
      /\ AddrSpace \in Nat /\ AddrSpace > 0 /\ f \in Nat
  BY PmmAssumption DEF Regions, Frames
<1>2. top \in Nat /\ s \in Nat /\ top % AddrSpace = top
  BY <1>1
<1>3. /\ RegionLoop(r).next = r.base \div PageSize
      /\ RegionLoop(r).end = top \div PageSize
  BY <1>2 DEF RegionLoop
<1> HIDE DEF top
<1>4. RegionLoop(r).next <= f <=> r.base < (f + 1) * PageSize
  BY <1>1, <1>3, QuotientBelow
<1>5. f < RegionLoop(r).end <=> f * PageSize < s
  <2>1. top \div PageSize <= f <=> top < (f + 1) * PageSize
    BY <1>1, <1>2, QuotientBelow
  <2>2. top \div PageSize \in Int
    BY <1>1, <1>2
  <2>3. f < RegionLoop(r).end <=> ~ (top < (f + 1) * PageSize)
    BY <1>1, <1>3, <2>1, <2>2
  <2>4. (f + 1) * PageSize = f * PageSize + PageSize /\ f * PageSize \in Int
    BY <1>1
  <2>5. ~ (top < (f + 1) * PageSize) <=> f * PageSize < s
    <3> DEFINE m == f * PageSize
    <3>1. m \in Int /\ (f + 1) * PageSize = m + PageSize
      BY <2>4
    <3>2. top = s + PageSize - 1
      BY DEF top
    <3> HIDE DEF m, s
    <3>3. ~ (top < m + PageSize) <=> m < s
      BY <1>1, <1>2, <3>1, <3>2
    <3> QED
      BY <3>1, <3>3 DEF m
  <2> QED
    BY <2>3, <2>5
<1> QED
  BY <1>1, <1>4, <1>5 DEF RegionFrames

\* One region more.
LEMMA UsableStep ==
  ASSUME NEW k \in Nat, k + 1 <= Len(BootRegions), NEW f \in Frames
  PROVE  LET r == BootRegions[k + 1] IN
         /\ r.kind = "clear_region" =>
              (f \in UsableAfter(k + 1) <=>
                 \/ f \in UsableAfter(k)
                 \/ f \in RegionFrames(r) /\ f \notin NullFrames)
         /\ r.kind = "set_region" =>
              (f \in UsableAfter(k + 1) <=>
                 f \in UsableAfter(k) /\ f \notin RegionFrames(r))
<1> DEFINE r == BootRegions[k + 1]
           Clear(i) == /\ BootRegions[i].kind = "clear_region"
                       /\ f \in RegionFrames(BootRegions[i])
           Set(j) == /\ BootRegions[j].kind = "set_region"
                     /\ f \in RegionFrames(BootRegions[j])
           After(n) == \E i \in 1 .. n : Clear(i) /\ \A j \in i + 1 .. n : ~ Set(j)
<1>1. \A n \in Nat : f \in UsableAfter(n) <=> f \notin NullFrames /\ After(n)
  BY DEF UsableAfter
<1>2. r.kind = "clear_region" => ~ Set(k + 1)
  OBVIOUS
<1>3. r.kind = "set_region" => ~ Clear(k + 1)
  OBVIOUS
<1>4. Clear(k + 1) => After(k + 1)
  <2> SUFFICES ASSUME Clear(k + 1) PROVE After(k + 1)
    OBVIOUS
  <2> HIDE DEF Clear, Set
  <2>1. k + 1 \in 1 .. k + 1 /\ \A j \in (k + 1) + 1 .. k + 1 : ~ Set(j)
    OBVIOUS
  <2> QED
    BY <2>1
<1>5. After(k) /\ ~ Set(k + 1) => After(k + 1)
  <2> SUFFICES ASSUME After(k), ~ Set(k + 1) PROVE After(k + 1)
    OBVIOUS
  <2> HIDE DEF Clear, Set
  <2>1. PICK i \in 1 .. k : Clear(i) /\ \A j \in i + 1 .. k : ~ Set(j)
    OBVIOUS
  <2>2. i \in 1 .. k + 1 /\ \A j \in i + 1 .. k + 1 : ~ Set(j)
    <3> SUFFICES ASSUME NEW j \in i + 1 .. k + 1, j # k + 1 PROVE ~ Set(j)
      OBVIOUS
    <3> QED
      BY <2>1
  <2> QED
    BY <2>1, <2>2
<1>6. After(k + 1) => \/ Clear(k + 1)
                      \/ After(k) /\ ~ Set(k + 1)
  <2> SUFFICES ASSUME After(k + 1), ~ Clear(k + 1)
               PROVE  After(k) /\ ~ Set(k + 1)
    OBVIOUS
  <2> HIDE DEF Clear, Set
  <2>1. PICK i \in 1 .. k + 1 : Clear(i) /\ \A j \in i + 1 .. k + 1 : ~ Set(j)
    OBVIOUS
  <2>2. i \in 1 .. k /\ k + 1 \in i + 1 .. k + 1
    BY <2>1
  <2>3. \A j \in i + 1 .. k : j \in i + 1 .. k + 1
    BY <2>2
  <2> QED
    BY <2>1, <2>2, <2>3
<1>7. r.kind = "clear_region" => (Clear(k + 1) <=> f \in RegionFrames(r))
  OBVIOUS
<1>8. r.kind = "set_region" => (Set(k + 1) <=> f \in RegionFrames(r))
  OBVIOUS
<1>9. k + 1 \in Nat
  OBVIOUS
<1> HIDE DEF Clear, Set, After
<1>10. r.kind = "clear_region" =>
         (f \in UsableAfter(k + 1) <=>
            \/ f \in UsableAfter(k)
            \/ f \in RegionFrames(r) /\ f \notin NullFrames)
  BY <1>1, <1>2, <1>4, <1>5, <1>6, <1>7, <1>9
<1>11. r.kind = "set_region" =>
         (f \in UsableAfter(k + 1) <=>
            f \in UsableAfter(k) /\ f \notin RegionFrames(r))
  BY <1>1, <1>3, <1>5, <1>6, <1>8, <1>9
<1> QED
  BY <1>10, <1>11

\* Two frames that were asked for together begin inside one group.
LEMMA RunInGroup ==
  ASSUME OrderlyClients, NEW flags \in Requests, NEW base \in Frames,
         Found(base, flags), Size(flags) > 1
  PROVE  GroupOf(base + 1) = GroupOf(base)
<1>1. PICK e \in Frames : Hit(e, flags) /\ base \in RunAt(e, flags)
                         /\ \A f \in RunAt(e, flags) : base <= f
  BY DEF Found
<1>2. flags.contiguous /\ Wanted(flags) > 1 /\ Wanted(flags) \in Nat
  BY PmmAssumption DEF Size, Wanted, Flags
<1>3. GroupOf(base) = GroupOf(e) /\ base \in Nat /\ e \in Nat /\ base <= e
  BY <1>1, <1>2 DEF OrderlyClients, RunAt, Frames
<1>4. base + 1 <= e
  <2> SUFFICES ASSUME base = e PROVE FALSE
    BY <1>3
  <2>1. RunAt(e, flags) = {base}
    BY <1>1, <1>3 DEF RunAt, Frames
  <2>2. Cardinality(RunAt(e, flags)) = 1
    BY <2>1, FS_Singleton
  <2> QED
    BY <1>1, <1>2, <2>2 DEF Hit
<1> QED
  BY <1>3, <1>4, GroupConvex

LEMMA InitAccountInv == Init => AccountInv
<1> SUFFICES ASSUME Init PROVE AccountInv
  OBVIOUS
<1>1. booting = BootRegions /\ Len(BootRegions) \in Nat
  BY PmmAssumption DEF Init
<1>2. Described = 0
  BY <1>1 DEF Described
<1>3. Usable = {}
  BY <1>2 DEF Usable, UsableAfter
<1>4. Available = {}
  BY DEF Available, Init, Idle
<1>5. \A c \in Clients : Held(c) = {} /\ holds[c].size = 0
  BY DEF Init, Nothing, Held, FramesOf
<1>6. BootInv
  BY <1>1, <1>2 DEF BootInv
<1> QED
  BY <1>3, <1>4, <1>5, <1>6 DEF AccountInv

\* A region: what will be available and what is usable change alike.
LEMMA DescribeKeepsAccount ==
  ASSUME MapFits, BitmapInv, HoldInv, AccountInv, DescribeRegion
  PROVE  AccountInv'
<1> DEFINE k == Described
           r == BootRegions[k + 1]
<1>1. /\ booting \in Seq(Regions) /\ booting # <<>> /\ booting' = Tail(booting)
      /\ BootRegions \in Seq(Regions) /\ Len(booting) <= Len(BootRegions)
  BY PmmAssumption DEF DescribeRegion, BitmapInv, AccountInv, BootInv
<1>2. /\ k \in Nat /\ k + 1 <= Len(BootRegions) /\ k + 1 \in 1 .. Len(BootRegions)
      /\ Len(booting') = Len(booting) - 1 /\ 1 \in 1 .. Len(booting)
  BY <1>1 DEF Described
<1>3. Described' = k + 1
  BY <1>1, <1>2 DEF Described
<1>4. Head(booting) = r /\ r \in Regions
  BY <1>1, <1>2 DEF AccountInv, BootInv
<1>5. BootInv'
  <2>1. ASSUME NEW i \in 1 .. Len(booting')
        PROVE  booting'[i] = BootRegions[Described' + i]
    <3>1. booting'[i] = booting[i + 1] /\ i + 1 \in 1 .. Len(booting) /\ i \in Int
      BY <1>1, <1>2
    <3>2. booting[i + 1] = BootRegions[Described + (i + 1)]
      BY <3>1 DEF AccountInv, BootInv
    <3>3. Described + (i + 1) = Described' + i
      BY <1>2, <1>3, <3>1
    <3> QED
      BY <3>1, <3>2, <3>3
  <2> QED
    BY <1>1, <1>2, <2>1 DEF BootInv
<1>6. /\ \A c \in Clients : holds[c] = Nothing /\ Held(c) = {}
      /\ holds' = holds /\ block_bitmap' = block_bitmap /\ op = Idle
  BY AllFreeHoldsNothing
     DEF DescribeRegion, HoldInv, AllFree, Held, bitmapVars
<1>7. \A f \in Frames : f \in Available <=> f \notin block_bitmap
  BY <1>6 DEF Available, Idle
<1>8. r.kind \in {"clear_region", "set_region"}
  BY <1>4 DEF Regions
<1>9. ASSUME NEW f \in Frames
      PROVE  /\ r.kind = "clear_region" =>
                  (f \in Available' <=> \/ f \in Available
                                        \/ f \in RegionFrames(r) /\ f \notin NullFrames)
             /\ r.kind = "set_region" =>
                  (f \in Available' <=> f \in Available /\ f \notin RegionFrames(r))
  <2>1. CASE r.size = 0
    <3>1. f \notin RegionFrames(r)
      BY <2>1 DEF RegionFrames
    <3>2. op' = Idle
      BY <1>4, <2>1 DEF DescribeRegion
    <3>3. f \in Available' <=> f \notin block_bitmap'
      BY <3>2 DEF Available, Idle
    <3> QED
      BY <1>6, <1>7, <3>1, <3>3
  <2>2. CASE r.size # 0
    <3>1. op' = RegionLoop(r) /\ r.size > 0
      BY <1>4, <2>2 DEF DescribeRegion, Regions
    <3>2. r.base + r.size + PageSize - 1 < AddrSpace
      BY <1>2 DEF MapFits
    <3>3. f \in RegionFrames(r) <=> Pending(f)'
      BY <1>4, <3>1, <3>2, RegionLoopCovers DEF Pending
    <3>4. op'.kind = r.kind
      BY <3>1 DEF RegionLoop
    <3>5. r.kind = "clear_region" =>
            (f \in Available' <=> \/ f \notin block_bitmap'
                                  \/ Pending(f)' /\ f \notin NullFrames)
      BY <3>4 DEF Available
    <3>6. r.kind = "set_region" =>
            (f \in Available' <=> f \notin block_bitmap' /\ ~ Pending(f)')
      BY <3>4 DEF Available
    <3> QED
      BY <1>6, <1>7, <3>3, <3>5, <3>6
  <2> QED
    BY <2>1, <2>2
<1>10. ASSUME NEW f \in Frames
       PROVE  /\ r.kind = "clear_region" =>
                   (f \in Usable' <=> \/ f \in Usable
                                      \/ f \in RegionFrames(r) /\ f \notin NullFrames)
              /\ r.kind = "set_region" =>
                   (f \in Usable' <=> f \in Usable /\ f \notin RegionFrames(r))
  <2>1. Usable' = UsableAfter(k + 1) /\ Usable = UsableAfter(k)
    BY <1>3 DEF Usable, UsableAfter
  <2> QED
    BY <1>2, <2>1, UsableStep
<1>11. Available \subseteq Frames /\ Available' \subseteq Frames
       /\ Usable \subseteq Frames /\ Usable' \subseteq Frames
  BY DEF Available, Usable, UsableAfter
<1> HIDE DEF r, k
<1>12. \A f \in Available : f \in Usable
  BY DEF AccountInv
<1>13. \A f \in Usable : f >= FirstFreeable => f \in Available
  BY <1>6 DEF AccountInv
<1>14. Available' \subseteq Usable'
  <2> SUFFICES ASSUME NEW f \in Available' PROVE f \in Usable'
    OBVIOUS
  <2> QED
    BY <1>8, <1>9, <1>10, <1>11, <1>12
<1>15. \A f \in Usable' : f >= FirstFreeable => f \in Available'
  <2> SUFFICES ASSUME NEW f \in Usable', f >= FirstFreeable PROVE f \in Available'
    OBVIOUS
  <2> QED
    BY <1>8, <1>9, <1>10, <1>11, <1>13
<1>16. \A c \in Clients : Held(c)' = {} /\ holds'[c].size = 0
  BY <1>6 DEF Held, Nothing
<1> QED
  BY <1>5, <1>14, <1>15, <1>16 DEF AccountInv

LEMMA NextAccountInv ==
  ASSUME OrderlyClients, MapFits, RunsFreeable,
         BitmapInv, HoldInv, AccountInv, [Next]_vars
  PROVE  AccountInv'
<1>1. ASSUME UNCHANGED booting PROVE Usable' = Usable /\ BootInv'
  BY <1>1 DEF Usable, UsableAfter, Described, AccountInv, BootInv
<1>2. CASE DescribeRegion
  BY <1>2, DescribeKeepsAccount
<1>3. CASE Loop
  <2>1. UNCHANGED <<holds, booting>>
    BY <1>3 DEF Loop, LoopOver, SetRegion, ClearRegion, AllocLoop, FreeLoop
  <2>2. \A c \in Clients : Held(c)' = Held(c)
    BY <2>1 DEF Held
  <2> QED
    BY <1>1, <1>3, <2>1, <2>2, LoopKeepsAvailable DEF AccountInv
<1>4. ASSUME NEW c \in Clients, NEW flags \in Requests, NEW base \in Frames,
             Alloc(c, flags, base)
      PROVE  AccountInv'
  <2>1. /\ FramesOf(holds'[c]) \subseteq Available
        /\ Available' = Available \ FramesOf(holds'[c])
        /\ base \in FramesOf(holds'[c])
    BY <1>4, AllocTakes, ClientsAreOrderly
  <2>2. booting' = booting /\ booting = <<>> /\ holds[c] = Nothing
    BY <1>4 DEF Alloc, Running
  <2>3. \A d \in Clients : d # c => holds'[d] = holds[d] /\ Held(d)' = Held(d)
    BY <1>4 DEF Alloc, BitmapInv, Held
  <2>4. Held(c)' = FramesOf(holds'[c]) /\ Held(c) = {}
    <3>1. Available \subseteq Frames
      BY DEF Available
    <3>2. Held(c) = {}
      BY <2>2 DEF Held, FramesOf, Nothing
    <3> QED
      BY <2>1, <3>1, <3>2 DEF Held
  <2>5. Available' \subseteq Usable' /\ \A d \in Clients : Held(d)' \subseteq Usable'
    BY <1>1, <2>1, <2>2, <2>3, <2>4 DEF AccountInv
  <2>6. ASSUME NEW f \in Usable', f >= FirstFreeable
        PROVE  f \in Available' \/ \E d \in Clients : f \in Held(d)'
    <3>1. f \in Available \/ \E d \in Clients : f \in Held(d)
      BY <1>1, <2>2, <2>6 DEF AccountInv
    <3> QED
      BY <2>1, <2>3, <2>4, <3>1
  <2>7. ASSUME Size(flags) > 1 PROVE base >= FirstFreeable
    <3>1. GroupOf(base + 1) = GroupOf(base)
      BY <1>4, <2>7, RunInGroup DEF Alloc
    <3>2. Usable = UsableFrames
      <4>1. Described = Len(BootRegions)
        BY <2>2, PmmAssumption DEF Described
      <4> QED
        BY <4>1 DEF Usable, UsableAfter, UsableFrames
    <3>3. base \in UsableFrames
      BY <2>1, <3>2 DEF AccountInv
    <3>4. Size(flags) \in Nat /\ base \in Nat /\ FirstFreeable \in Nat
      BY PmmAssumption DEF Size, Flags, Frames
    <3> QED
      BY <2>7, <3>1, <3>3, <3>4 DEF RunsFreeable
  <2>8. holds'[c] = [base |-> base, size |-> Size(flags)]
    BY <1>4 DEF Alloc, BitmapInv
  <2>9. \A d \in Clients : holds'[d].size > 1 => holds'[d].base >= FirstFreeable
    BY <2>3, <2>7, <2>8 DEF AccountInv
  <2> QED
    BY <1>1, <2>2, <2>5, <2>6, <2>9 DEF AccountInv
<1>5. ASSUME NEW c \in Clients, NEW flags \in Requests, NEW addr \in Addresses,
             AllocHigh(c, flags, addr)
      PROVE  AccountInv'
  <2>1. UNCHANGED <<block_bitmap, op, booting>> /\ holds[c] = Nothing
    BY <1>5 DEF AllocHigh, bitmapVars
  <2>2. Available' = Available
    BY <2>1 DEF Available, Pending
  <2>3. CASE holds' = holds
    <3>1. \A d \in Clients : Held(d)' = Held(d)
      BY <2>3 DEF Held
    <3> QED
      BY <1>1, <2>1, <2>2, <2>3, <3>1 DEF AccountInv
  <2>4. CASE /\ addr \in HighFrames
             /\ holds' = [holds EXCEPT ![c] = [base |-> addr, size |-> 1]]
    <3>1. /\ holds'[c] = [base |-> addr, size |-> 1]
          /\ \A d \in Clients : d # c => holds'[d] = holds[d]
      BY <2>4 DEF BitmapInv
    <3>2. addr \in Nat /\ addr \notin Frames
      BY <2>4, PmmAssumption
    <3>3. Held(c)' = {} /\ Held(c) = {}
      BY <2>1, <3>1, <3>2 DEF Held, FramesOf, Nothing
    <3>4. \A d \in Clients : Held(d)' = Held(d)
      BY <3>1, <3>3 DEF Held
    <3>5. \A d \in Clients : holds'[d].size > 1 => holds'[d].base >= FirstFreeable
      BY <3>1 DEF AccountInv
    <3> QED
      BY <1>1, <2>1, <2>2, <3>4, <3>5 DEF AccountInv
  <2> QED
    BY <1>5, <2>3, <2>4 DEF AllocHigh, Addresses
<1>6. ASSUME NEW c \in Clients, NEW flags \in Requests, AllocCrash(c, flags)
      PROVE  AccountInv'
  <2>1. UNCHANGED <<block_bitmap, op, booting, holds>>
    BY <1>6 DEF AllocCrash, bitmapVars
  <2>2. Available' = Available /\ \A d \in Clients : Held(d)' = Held(d)
    BY <2>1 DEF Available, Pending, Held
  <2> QED
    BY <1>1, <2>1, <2>2 DEF AccountInv
<1>7. ASSUME NEW c \in Clients, Free(c) \/ FreeHigh(c) PROVE AccountInv'
  <2>1. /\ holds'[c] = Nothing /\ booting' = booting
        /\ \A d \in Clients : d # c => holds'[d] = holds[d] /\ Held(d)' = Held(d)
    BY <1>7 DEF Free, FreeHigh, BitmapInv, Held
  <2>2. Held(c)' = {}
    BY <2>1 DEF Nothing, FramesOf, Held
  <2>3. holds[c] \in Blocks /\ FirstFreeable \in Nat
    BY PmmAssumption DEF BitmapInv
  <2>4. \/ Available' = Available \cup Held(c)
        \/ Available' = Available /\ \A f \in Held(c) : ~ (f >= FirstFreeable)
    <3>1. CASE Free(c) /\ holds[c].base >= FirstFreeable
      BY <3>1, FreeGives, ClientsAreOrderly
    <3>2. CASE Free(c) /\ holds[c].base < FirstFreeable
      <4>1. Available' = Available
        BY <3>2, FreeGives, ClientsAreOrderly
      <4>2. holds[c].size <= 1
        BY <2>3, <3>2 DEF AccountInv, Blocks
      <4>3. \A f \in FramesOf(holds[c]) : f = holds[c].base
        BY <2>3, <4>2 DEF FramesOf, Blocks
      <4>4. \A f \in Held(c) : ~ (f >= FirstFreeable)
        BY <2>3, <3>2, <4>3 DEF Held, Blocks
      <4> QED
        BY <4>1, <4>4
    <3>3. CASE FreeHigh(c)
      <4>1. Available' = Available
        BY <3>3 DEF FreeHigh, bitmapVars, Available, Pending
      <4>2. holds[c].base \notin Frames
        BY <3>3, PmmAssumption DEF FreeHigh
      <4>3. Held(c) = {}
        <5>1. CASE FramesOf(holds[c]) \subseteq Frames
          <6>1. ~ (holds[c].size >= 1)
            BY <2>3, <4>2, <5>1 DEF FramesOf, Blocks
          <6> QED
            BY <2>3, <6>1 DEF Held, FramesOf, Blocks
        <5>2. CASE holds[c].size = 1
          <6>1. FramesOf(holds[c]) = {holds[c].base}
            BY <2>3, <5>2 DEF FramesOf, Blocks
          <6> QED
            BY <4>2, <6>1 DEF Held
        <5> QED
          BY <5>1, <5>2 DEF HoldInv
      <4> QED
        BY <4>1, <4>3
    <3>4. holds[c].base < FirstFreeable \/ holds[c].base >= FirstFreeable
      BY <2>3 DEF Blocks
    <3> QED
      BY <1>7, <3>1, <3>2, <3>3, <3>4
  <2>5. Available' \subseteq Usable' /\ \A d \in Clients : Held(d)' \subseteq Usable'
    BY <1>1, <2>1, <2>2, <2>4 DEF AccountInv
  <2>6. ASSUME NEW f \in Usable', f >= FirstFreeable
        PROVE  f \in Available' \/ \E d \in Clients : f \in Held(d)'
    <3>1. f \in Available \/ \E d \in Clients : f \in Held(d)
      BY <1>1, <2>1, <2>6 DEF AccountInv
    <3> QED
      BY <2>1, <2>4, <2>6, <3>1
  <2>7. \A d \in Clients : holds'[d].size > 1 => holds'[d].base >= FirstFreeable
    BY <2>1 DEF AccountInv, Nothing
  <2> QED
    BY <1>1, <2>1, <2>5, <2>6, <2>7 DEF AccountInv
<1>8. CASE UNCHANGED vars
  <2>1. UNCHANGED <<block_bitmap, op, booting, holds>>
    BY <1>8 DEF vars, bitmapVars
  <2>2. Available' = Available /\ \A d \in Clients : Held(d)' = Held(d)
    BY <2>1 DEF Available, Pending, Held
  <2> QED
    BY <1>1, <2>1, <2>2 DEF AccountInv
<1> QED
  BY <1>2, <1>3, <1>4, <1>5, <1>6, <1>7, <1>8 DEF Next, ClientStep

\* What clients hold lies in frames the memory map declares usable, and between
\* calls every such frame that can be freed at all is free or held: no sequence of
\* regions, allocations and frees hands out a reserved frame or loses one.
THEOREM UsableFramesAccounted ==
  ASSUME OrderlyClients, MapFits, RunsFreeable
  PROVE  Spec => []UsableAccounted
<1>1. Init => AccountInv
  BY InitAccountInv
<1>2. BitmapInv /\ HoldInv /\ AccountInv /\ [Next]_vars => AccountInv'
  BY NextAccountInv
<1>3. ASSUME BitmapInv, HoldInv, AccountInv PROVE UsableAccounted
  <2>1. booting = <<>> => Usable = UsableFrames
    <3> SUFFICES ASSUME booting = <<>> PROVE Usable = UsableFrames
      OBVIOUS
    <3>1. Described = Len(BootRegions)
      BY PmmAssumption DEF Described
    <3> QED
      BY <3>1 DEF Usable, UsableAfter, UsableFrames
  <2>2. OnlyUsableHeld
    <3> SUFFICES ASSUME NEW c \in Clients PROVE Held(c) \subseteq UsableFrames
      BY DEF OnlyUsableHeld, Held
    <3>1. CASE booting = <<>>
      BY <1>3, <2>1, <3>1 DEF AccountInv
    <3>2. CASE booting # <<>>
      BY <1>3, <3>2, AllFreeHoldsNothing DEF HoldInv, Held
    <3> QED
      BY <3>1, <3>2
  <2>3. NoLeak
    <3> SUFFICES ASSUME Running, NEW f \in UsableFrames, f >= FirstFreeable
                 PROVE  NotLeaked(f)
      BY DEF NoLeak
    <3>1. f \in Available \/ \E c \in Clients : f \in Held(c)
      BY <1>3, <2>1 DEF Running, AccountInv
    <3> QED
      BY <3>1 DEF NotLeaked, Held, Available, Running, Idle
  <2> QED
    BY <2>2, <2>3 DEF UsableAccounted
<1> QED
  BY <1>1, <1>2, <1>3, HoldInvariance, PTL DEF Spec
=============================================================================
