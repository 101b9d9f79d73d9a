------------------------------- MODULE MCPmm -------------------------------
(***************************************************************************)
(* Instances of Pmm for TLC: four words of four frames instead of 128 of   *)
(* 32, two frames to a superblock bit, two superblock words, pages of two  *)
(* bytes in an address space of 64.                                        *)
(***************************************************************************)
EXTENDS Pmm

Region(k, first, count) == [kind |-> k, base |-> first * PageSize,
                            size |-> count * PageSize]

\* Ten frames in two pieces, as the loader describes a small machine: available,
\* a hole, available; then the kernel's image is reserved.
LowMap == << Region("clear_region", 0, 6), Region("set_region", 6, 3),
             Region("clear_region", 9, 3), Region("set_region", 4, 1) >>

\* Three free frames in three words: while the middle one is allocated, its
\* word is full and the search steps over it.
SparseMap == << Region("clear_region", 7, 2), Region("clear_region", 12, 1) >>

\* Memory above 16 MiB as well.
HighMap == << Region("clear_region", 3, 3), Region("clear_region", 16, 5),
              Region("set_region", 5, 1), Region("set_region", 24, 2) >>

\* One piece that begins below the first frame that can be freed and ends above.
LowestMap == << Region("clear_region", 3, 5) >>

\* A module is loaded in frames 6 and 7 of a machine whose memory starts at 4:
\* kinit passes mod_start - mod_end as its size.
ModuleFrames == {6, 7}
ModuleMap == << Region("clear_region", 4, 6),
                [kind |-> "set_region", base |-> 6 * PageSize,
                 size |-> (6 * PageSize - 8 * PageSize) % AddrSpace] >>
ModuleReserved == ModulesReserved(ModuleFrames)

Pair == [Pmalloc EXCEPT !.page_alloc_num = 2, !.contiguous = TRUE]
AlignedPair == [Pair EXCEPT !.align_64kb = TRUE]
LowMem == [Pmalloc EXCEPT !.low_mem = TRUE]

SingleRequests == {Pmalloc}
AlignedRequests == {Pmalloc, LowMem, AlignedPair}
AllRequests == {LowMem, Pair, Pmalloc}
PairRequests == {Pmalloc, Pair}
TestRequests == {Pmalloc, AlignedPair}

NoHigh == {}
SomeHigh == 16 .. 20
=============================================================================
