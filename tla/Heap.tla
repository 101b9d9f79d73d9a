-------------------------------- MODULE Heap --------------------------------
(***************************************************************************)
(* The kernel's heap (kernel/kernel/mm/liballoc.c) over the hooks that     *)
(* provide its pages (kernel/kernel/mm/alloc_hooks.c).                     *)
(*                                                                         *)
(* Majors are chunks of pages, minors the headers of the blocks in them;   *)
(* both are lists threaded through the memory they describe.  Addresses    *)
(* and sizes are numbers of the same unit.  kmalloc walks the lists under  *)
(* the heap's lock: `op' is its state, one step one turn of a loop.        *)
(***************************************************************************)
EXTENDS Integers, FiniteSets, Bags, FiniteSetsExt

CONSTANTS
    MajorSize, MinorSize,    \* sizeof(struct liballoc_major), ..._minor
    ALIGNMENT, ALIGN_INFO,
    l_pageSize, l_pageCount,
    HeapStart, HeapLimit,    \* bound: the addresses pages come from
    BrkScale,                \* size of what brk_limit points to
    Hooks,                   \* "contract" of liballoc.h, or "psbrk"
    Requests,                \* sizes the clients ask for
    MaxBlocks                \* bound: blocks held at a time

NULL == 0
Failed == HeapLimit + HeapStart     \* stands for 0xFFFFFFFF

ASSUME HeapAssumption ==
    /\ MajorSize \in Nat \ {0} /\ MinorSize \in Nat \ {0}
    /\ ALIGNMENT \in Nat \ {0, 1} /\ ALIGN_INFO \in Nat \ {0}
    /\ l_pageSize \in Nat \ {0} /\ l_pageCount \in Nat \ {0}
    /\ HeapStart \in Nat \ {0} /\ HeapLimit \in Nat
    /\ BrkScale \in Nat \ {0}
    /\ Hooks \in {"contract", "psbrk"}
    /\ Requests \subseteq Nat \ {0}
    /\ MaxBlocks \in Nat

VARIABLES
    majors,         \* address |-> [prev, next, pages, size, usage, first]
    minors,         \* address |-> [prev, next, block, size, req_size], of
                    \* the headers whose magic is LIBALLOC_MAGIC
    l_memRoot, l_bestBet, l_allocated, l_inuse,
    brk_limit,
    live,           \* the bag of the blocks the clients hold: [ptr, req, diff],
                    \* diff being the byte ALIGN has stored in front of them
    op              \* the kmalloc or krealloc in progress

counters == <<l_allocated, l_inuse>>
lists == <<majors, minors, l_memRoot, l_bestBet>>
vars == <<lists, counters, brk_limit, live, op>>

\* old is the block krealloc moves, if any.
Idle == [phase |-> "idle", req |-> 0, old |-> {}, maj |-> NULL, min |-> NULL,
         startedBet |-> FALSE, bestSize |-> 0]

Init == /\ majors = << >> /\ minors = << >>
        /\ l_memRoot = NULL /\ l_bestBet = NULL
        /\ l_allocated = 0 /\ l_inuse = 0
        /\ brk_limit = HeapStart
        /\ live = EmptyBag
        /\ op = Idle

-----------------------------------------------------------------------------
(* Helpers.                                                                *)

At(phase) == op.phase = phase

\* f with the value of a put to v.
Put(f, a, v) == [x \in DOMAIN f \cup {a} |-> IF x = a THEN v ELSE f[x]]

\* What a block occupies behind its header: room to align it is added.
Size == op.req + ALIGNMENT + ALIGN_INFO

Need == Size + MinorSize

FreeIn(m) == majors[m].size - majors[m].usage

\* ALIGN: the distance from the end of the header to the block.
AlignDiff(p) == LET over == (p + ALIGN_INFO) % ALIGNMENT
                IN  ALIGN_INFO + (IF over = 0 THEN 0 ELSE ALIGNMENT - over)

\* UNALIGN and the header in front of it.
MinorOf(b) == (IF b.diff < ALIGNMENT + ALIGN_INFO THEN b.ptr - b.diff
               ELSE b.ptr) - MinorSize

\* The pages allocate_new_page asks for.
PagesFor(bytes) ==
    LET st == (bytes + MajorSize + MinorSize + l_pageSize - 1) \div l_pageSize
    IN  IF st < l_pageCount THEN l_pageCount ELSE st

Extent(m) == m .. m + majors[m].size - 1

\* liballoc_alloc(pages) returned a.
PageAlloc(pages, a) ==
    \/ /\ Hooks = "contract"
       /\ \/ a = NULL
          \/ /\ \E k \in 0 .. HeapLimit \div l_pageSize :
                   a = HeapStart + k * l_pageSize
             /\ a + pages * l_pageSize <= HeapLimit
             /\ \A m \in DOMAIN majors :
                   Extent(m) \cap (a .. a + pages * l_pageSize - 1) = {}
       /\ UNCHANGED brk_limit
    \/ /\ Hooks = "psbrk"
       /\ brk_limit' = brk_limit + BrkScale * pages * l_pageSize
       /\ a = IF brk_limit' >= HeapLimit THEN Failed ELSE brk_limit

\* liballoc_free(maj, pages): psbrk lowers the break, whatever maj is.
PageFree(pages) ==
    brk_limit' = IF Hooks = "contract" THEN brk_limit
                 ELSE brk_limit - BrkScale * pages * l_pageSize

NewMajor(prev) == [prev |-> prev, next |-> NULL, pages |-> PagesFor(Size),
                   size |-> PagesFor(Size) * l_pageSize,
                   usage |-> MajorSize, first |-> NULL]

-----------------------------------------------------------------------------
(* kmalloc.                                                                *)

MallocBegin(req) == /\ At("idle")
                    /\ BagCardinality(live) < MaxBlocks
                    /\ op' = [Idle EXCEPT !.phase = "root", !.req = req]
                    /\ UNCHANGED <<lists, counters, brk_limit, live>>

\* kmalloc returns: to its client, or to krealloc, which frees the old block
\* even if there is no new one.
Return == op' = IF op.old = {} THEN Idle ELSE [op EXCEPT !.phase = "release"]

MallocRoot == /\ At("root")
              /\ l_memRoot # NULL
              /\ op' = [op EXCEPT !.phase = "bet"]
              /\ UNCHANGED <<lists, counters, brk_limit, live>>

\* The heap is empty: its first major.
MallocFirstMajor ==
    /\ At("root")
    /\ l_memRoot = NULL
    /\ \E a \in {NULL, Failed, brk_limit} \cup HeapStart .. HeapLimit :
          /\ PageAlloc(PagesFor(Size), a)
          /\ l_memRoot' = a
          /\ \/ a = NULL /\ Return /\ UNCHANGED <<majors, l_allocated>>
             \/ /\ a # NULL
                /\ majors' = Put(majors, a, NewMajor(NULL))
                /\ l_allocated' = l_allocated + majors'[a].size
                /\ op' = [op EXCEPT !.phase = "bet"]
    /\ UNCHANGED <<minors, l_bestBet, l_inuse, live>>

\* The walk starts at the best bet if the block may fit there.
MallocBet ==
    LET bet == l_bestBet # NULL
        best == IF bet THEN FreeIn(l_bestBet) ELSE 0
        start == bet /\ best > Need
    IN  /\ At("bet")
        /\ op' = [op EXCEPT !.phase = "major", !.bestSize = best,
                            !.maj = IF start THEN l_bestBet ELSE l_memRoot,
                            !.startedBet = start]
        /\ UNCHANGED <<lists, counters, brk_limit, live>>

BetterBet(m) == op.bestSize < FreeIn(m)

\* A major is looked at: the better bet is remembered, and unless the block
\* cannot fit (CASE 1) the minors of the major are next.
LookAtMajor ==
    /\ At("major")
    /\ l_bestBet' = IF BetterBet(op.maj) THEN op.maj ELSE l_bestBet
    /\ op' = [op EXCEPT
                !.phase = IF FreeIn(op.maj) < Need THEN "next"
                          ELSE IF majors[op.maj].first = NULL THEN "empty"
                          ELSE "front",
                !.bestSize = IF BetterBet(op.maj) THEN FreeIn(op.maj) ELSE @]
    /\ UNCHANGED <<majors, minors, l_memRoot, counters, brk_limit, live>>

\* Another major behind this one (CASE 1 and CASE 5).
NextMajor == /\ At("next")
             /\ majors[op.maj].next # NULL
             /\ op' = [op EXCEPT !.phase = "major", !.maj = majors[op.maj].next]
             /\ UNCHANGED <<lists, counters, brk_limit, live>>

\* The walk has come to the last major; if it started at the best bet, it has
\* not seen those in front of it.
AtLast == At("next") /\ majors[op.maj].next = NULL

\* Mutated form: those in front of the best bet are forgotten.
ExhaustedEarly == TRUE

Exhausted == ~ op.startedBet

\* Mutated form: the walk comes back for ever.
RestartForever ==
    /\ AtLast /\ op.startedBet
    /\ op' = [op EXCEPT !.phase = "major", !.maj = l_memRoot]
    /\ UNCHANGED <<lists, counters, brk_limit, live>>

\* A walk that started at the best bet starts again at the first major.
Restart ==
    /\ AtLast /\ op.startedBet
    /\ op' = [op EXCEPT !.phase = "major", !.maj = l_memRoot,
                        !.startedBet = FALSE]
    /\ UNCHANGED <<lists, counters, brk_limit, live>>

\* Every major has been tried: a new one behind the last.  CASE 1 goes straight
\* to its empty space, CASE 5 looks at it as at any other.
MallocNewMajor ==
    /\ AtLast /\ Exhausted
    /\ \E a \in {NULL, Failed, brk_limit} \cup HeapStart .. HeapLimit :
          /\ PageAlloc(PagesFor(Size), a)
          /\ \/ a = NULL /\ Return /\ UNCHANGED <<majors, l_allocated>>
             \/ /\ a # NULL
                /\ majors' = [Put(majors, a, NewMajor(op.maj))
                                EXCEPT ![op.maj].next = a]
                /\ l_allocated' = l_allocated + majors'[a].size
                /\ op' = [op EXCEPT !.phase = IF FreeIn(op.maj) < Need
                                              THEN "empty" ELSE "major",
                                    !.maj = a]
    /\ UNCHANGED <<minors, l_memRoot, l_bestBet, l_inuse, live>>

\* A header at a between two others of op.maj, and the block behind it.
Place(a, before, after) ==
    LET linked == [x \in DOMAIN minors |->
                      [minors[x] EXCEPT !.next = IF x = before THEN a ELSE @,
                                        !.prev = IF x = after THEN a ELSE @]]
        p == a + MinorSize
    IN  /\ minors' = Put(linked, a, [prev |-> before, next |-> after,
                                     block |-> op.maj, size |-> Size,
                                     req_size |-> op.req])
        /\ majors' = [majors EXCEPT
                         ![op.maj].usage = @ + Need,
                         ![op.maj].first = IF before = NULL THEN a ELSE @]
        /\ l_inuse' = l_inuse + Size
        /\ live' = live (+) SetToBag({[ptr |-> p + AlignDiff(p),
                                       req |-> op.req,
                                       diff |-> AlignDiff(p)]})
        /\ Return
        /\ UNCHANGED <<l_memRoot, l_bestBet, l_allocated, brk_limit>>

Walk(phase, min) ==
    /\ op' = [op EXCEPT !.phase = phase, !.min = min]
    /\ UNCHANGED <<lists, counters, brk_limit, live>>

\* CASE 2: a brand new major.
PlaceInEmpty == At("empty") /\ Place(op.maj + MajorSize, NULL, NULL)

\* CASE 3: room in front of the first minor.
FrontGap(m) == majors[m].first - m - MajorSize

PlaceInFront == /\ At("front")
                /\ FrontGap(op.maj) >= Need
                /\ Place(op.maj + MajorSize, NULL, majors[op.maj].first)

EnterMinors == /\ At("front")
               /\ FrontGap(op.maj) < Need
               /\ Walk("minor", majors[op.maj].first)

\* CASE 4: room behind a minor.
EndOf(a) == a + MinorSize + minors[a].size

\* Mutated form: the next minor is forgotten.
GapBehindAll(a) ==
    minors[a].block + majors[minors[a].block].size - EndOf(a)

GapBehind(a) ==
    (IF minors[a].next = NULL THEN minors[a].block + majors[minors[a].block].size
     ELSE minors[a].next) - EndOf(a)

PlaceBehind == /\ At("minor")
               /\ GapBehind(op.min) >= Need
               /\ Place(EndOf(op.min), op.min, minors[op.min].next)

NextMinor == /\ At("minor")
             /\ GapBehind(op.min) < Need
             /\ minors[op.min].next # NULL
             /\ Walk("minor", minors[op.min].next)

\* No room in this major, though enough is free in it.
LeaveMajor == /\ At("minor")
              /\ GapBehind(op.min) < Need
              /\ minors[op.min].next = NULL
              /\ Walk("next", NULL)

-----------------------------------------------------------------------------
(* kfree and krealloc.                                                     *)

\* The minors without a, its neighbours linked to each other.
Unlinked(a) ==
    LET mi == minors[a]
    IN  [x \in DOMAIN minors \ {a} |->
            [minors[x] EXCEPT !.prev = IF x = mi.next THEN mi.prev ELSE @,
                              !.next = IF x = mi.prev THEN mi.next ELSE @]]

\* The majors without m.
MajorsWithout(m) ==
    [x \in DOMAIN majors \ {m} |->
        [majors[x] EXCEPT !.prev = IF x = majors[m].next THEN majors[m].prev
                                   ELSE @,
                          !.next = IF x = majors[m].prev THEN majors[m].next
                                   ELSE @]]

UsageWithout(a) ==
    majors[minors[a].block].usage - (minors[a].size + MinorSize)

\* The block is not the last of its major, which may become the best bet.
FreeInMajor(a) ==
    LET m == minors[a].block
        first == IF minors[a].prev = NULL THEN minors[a].next
                 ELSE majors[m].first
        after == [majors EXCEPT ![m].usage = UsageWithout(a),
                                ![m].first = first]
        free(x) == after[x].size - after[x].usage
    IN  /\ first # NULL
        /\ majors' = after
        /\ l_bestBet' = IF l_bestBet # NULL /\ free(m) > free(l_bestBet)
                        THEN m ELSE l_bestBet
        /\ UNCHANGED <<l_memRoot, l_allocated, brk_limit>>

BetWithout(m) == IF l_bestBet = m THEN NULL ELSE l_bestBet

\* Mutated form: the root stays.
RootAfter(m) == l_memRoot

RootWithout(m) == IF l_memRoot = m THEN majors[m].next ELSE l_memRoot

\* It is: the major goes back to the system.
FreeMajor(a) ==
    LET m == minors[a].block
    IN  /\ minors[a].prev = NULL /\ minors[a].next = NULL
        /\ l_memRoot' = RootWithout(m)
        /\ l_bestBet' = BetWithout(m)
        /\ majors' = MajorsWithout(m)
        /\ l_allocated' = l_allocated - majors[m].size
        /\ PageFree(majors[m].pages)

\* A block whose header has lost its magic is left alone.
FreeBlock(b) ==
    LET a == MinorOf(b)
    IN  /\ live' = live (-) SetToBag({b})
        /\ IF a \notin DOMAIN minors
           THEN UNCHANGED <<lists, counters, brk_limit>>
           ELSE /\ minors' = Unlinked(a)
                /\ l_inuse' = l_inuse - minors[a].size
                /\ FreeInMajor(a) \/ FreeMajor(a)

Free(b) == At("idle") /\ FreeBlock(b) /\ UNCHANGED op

\* A krealloc that does not grow the block.
ReallocInPlace(b, size) ==
    LET a == MinorOf(b)
    IN  /\ At("idle")
        /\ a \in DOMAIN minors
        /\ minors[a].req_size >= size
        /\ minors' = [minors EXCEPT ![a].req_size = size]
        /\ live' = (live (-) SetToBag({b})) (+) SetToBag({[b EXCEPT !.req = size]})
        /\ UNCHANGED <<majors, l_memRoot, l_bestBet, counters, brk_limit, op>>

\* One that grows it: kmalloc, memcpy, kfree.
ReallocBegin(b, size) ==
    /\ At("idle")
    /\ BagCardinality(live) < MaxBlocks
    /\ MinorOf(b) \in DOMAIN minors
    /\ minors[MinorOf(b)].req_size < size
    /\ op' = [Idle EXCEPT !.phase = "root", !.req = size, !.old = {b}]
    /\ UNCHANGED <<lists, counters, brk_limit, live>>

ReallocRelease == /\ At("release")
                  /\ \E b \in op.old : FreeBlock(b)
                  /\ op' = Idle

-----------------------------------------------------------------------------
\* kcalloc is kmalloc and a memset.
Call == \/ \E req \in Requests : MallocBegin(req)
        \/ \E b \in BagToSet(live) : Free(b)
        \/ \E b \in BagToSet(live), size \in Requests :
              ReallocInPlace(b, size) \/ ReallocBegin(b, size)

Work == \/ MallocRoot \/ MallocFirstMajor \/ MallocBet
        \/ LookAtMajor \/ NextMajor \/ Restart \/ MallocNewMajor
        \/ PlaceInEmpty \/ PlaceInFront \/ EnterMinors
        \/ PlaceBehind \/ NextMinor \/ LeaveMajor
        \/ ReallocRelease

Next == Call \/ Work

Spec == Init /\ [][Next]_vars

\* kmalloc runs under the lock of the heap: nothing else runs meanwhile.
FairSpec == Spec /\ WF_vars(Work)

-----------------------------------------------------------------------------
(* Properties.                                                             *)

\* Every variable keeps its type; the two global pointers are never stale.
TypeOK ==
    /\ \A m \in DOMAIN majors :
          /\ majors[m].prev \in DOMAIN majors \cup {NULL}
          /\ majors[m].next \in DOMAIN majors \cup {NULL}
          /\ majors[m].first \in DOMAIN minors \cup {NULL}
          /\ majors[m].usage \in MajorSize .. majors[m].size
    /\ \A a \in DOMAIN minors :
          /\ minors[a].prev \in DOMAIN minors \cup {NULL}
          /\ minors[a].next \in DOMAIN minors \cup {NULL}
          /\ minors[a].block \in DOMAIN majors
    /\ l_memRoot \in DOMAIN majors \cup {NULL}
    /\ l_bestBet \in DOMAIN majors \cup {NULL}
    /\ l_allocated \in Nat /\ l_inuse \in Nat
    /\ op.old \subseteq BagToSet(live)

MinorsOf(m) == {a \in DOMAIN minors : minors[a].block = m}

\* order is the list of the majors as their pointers spell it.
IsMajorList(order) ==
    LET n == Cardinality(DOMAIN majors)
    IN  /\ \A m \in DOMAIN majors : \E i \in 1 .. n : order[i] = m
        /\ l_memRoot = IF n = 0 THEN NULL ELSE order[1]
        /\ \A i \in 1 .. n :
              /\ majors[order[i]].prev = IF i = 1 THEN NULL ELSE order[i - 1]
              /\ majors[order[i]].next = IF i = n THEN NULL ELSE order[i + 1]

\* The pointers of the majors and of the minors spell lists: walking from the
\* root reaches every major, and from a major every minor of it, in the order
\* of their addresses.  Nothing is lost by any order of kmalloc and kfree.
ListsSound ==
    /\ \E order \in [1 .. Cardinality(DOMAIN majors) -> DOMAIN majors] :
          IsMajorList(order)
    /\ \A m \in DOMAIN majors :
          /\ \A a \in MinorsOf(m) :
                /\ minors[a].prev = NULL <=> a = majors[m].first
                /\ minors[a].next # NULL =>
                      /\ minors[a].next \in MinorsOf(m)
                      /\ minors[a].next > a
                      /\ minors[minors[a].next].prev = a
                /\ minors[a].next = NULL => \A c \in MinorsOf(m) : c <= a
          /\ At("idle") => majors[m].first # NULL

Disjoint(S, from(_), to(_)) ==
    \A x, y \in S : x # y => to(x) <= from(y) \/ to(y) <= from(x)

\* No header, no block and no major overlaps another, each lies inside what it
\* belongs to, and every block held is the aligned space behind its header.
BlocksApart ==
    LET end(m) == m + majors[m].size
        self(x) == x
    IN  /\ Disjoint(DOMAIN majors, self, end)
        /\ \A m \in DOMAIN majors : HeapStart <= m /\ end(m) <= HeapLimit
        /\ Disjoint(DOMAIN minors, self, EndOf)
        /\ \A a \in DOMAIN minors : /\ minors[a].block + MajorSize <= a
                                    /\ EndOf(a) <= end(minors[a].block)
        /\ {MinorOf(b) : b \in BagToSet(live)} = DOMAIN minors
        /\ \A b, c \in BagToSet(live) : MinorOf(b) = MinorOf(c) => b = c
        /\ \A b \in BagToSet(live) :
              /\ live[b] = 1
              /\ b.ptr % ALIGNMENT = 0
              /\ MinorOf(b) + MinorSize <= b.ptr
              /\ b.ptr + b.req <= EndOf(MinorOf(b))
              /\ b.req = minors[MinorOf(b)].req_size

\* The sum of the values of f on S.
SumOver(f, S) == MapThenSumSet(LAMBDA x : f[x], S)

\* What the allocator believes is used is what is used: it decides from these
\* numbers which major to try and when to ask for more.
Accounting ==
    LET size == [m \in DOMAIN majors |-> majors[m].size]
        used == [a \in DOMAIN minors |-> minors[a].size]
        whole == [a \in DOMAIN minors |-> minors[a].size + MinorSize]
    IN  /\ l_allocated = SumOver(size, DOMAIN majors)
        /\ l_inuse = SumOver(used, DOMAIN minors)
        /\ \A m \in DOMAIN majors :
              majors[m].usage = MajorSize + SumOver(whole, MinorsOf(m))

\* The pointers, the lists and the sums agree after every turn of every loop, in
\* whatever order blocks are taken and given back.
HeapSound == TypeOK /\ ListsSound /\ Accounting

\* The room in front of and between the minors of m.
Gaps(m) == IF majors[m].first = NULL THEN {majors[m].size - MajorSize}
           ELSE {FrontGap(m)} \cup {GapBehind(a) : a \in MinorsOf(m)}

\* The system is asked for pages only when no major can hold the block, best
\* bet or not.
NewMajorOnlyWhenFull ==
    [][DOMAIN majors' \ DOMAIN majors # {} =>
         \A m \in DOMAIN majors : \A gap \in Gaps(m) : gap < Need]_vars

\* Every kmalloc and krealloc returns: the walk that starts again at the root
\* does so once.
EveryCallReturns == ~ At("idle") ~> At("idle")

\* To its clients the heap is an allocator of disjoint blocks.
A == INSTANCE Allocator WITH blocks <- live

ImplementsAllocator == A!Spec

\* liballoc.h on krealloc, "The standard function": a block that cannot be moved
\* is kept.
ReallocKeepsBlock ==
    [][op.phase = "release" /\ live' # live =>
         \E b \in BagToSet(live') \ op.old : b.req = op.req]_vars

\* liballoc.h on liballoc_free: it frees the memory it is given.  So a new major
\* never lies on one that is in the list.
NewMajorApart ==
    [][At("next") /\ l_allocated' # l_allocated =>
         \A m \in DOMAIN majors :
            Extent(m) \cap {op'.maj + i : i \in 0 .. majors'[op'.maj].size - 1}
               = {}]_vars

\* liballoc.h on liballoc_alloc: "NULL if the pages were not allocated."
MajorsInHeap ==
    \A m \in DOMAIN majors : m + majors[m].size <= HeapLimit
=============================================================================
