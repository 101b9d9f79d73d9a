------------------------------- MODULE Vaddm -------------------------------
(***************************************************************************)
(* The manager of virtual addresses (kernel/arch/i386/vmm.c from line 173):*)
(* one bit for each page, and one for each super page of W words of page   *)
(* bits that says none of it is free.  W is the number of bits in a word   *)
(* (32): the code uses it for the words of a super page as well, and for   *)
(* the words of superpage_bitmap.                                          *)
(*                                                                         *)
(* Only kinit calls vmalloc and vfree, with interrupts off: a call is one  *)
(* step.                                                                   *)
(***************************************************************************)
EXTENDS Integers, FiniteSets

CONSTANTS
    W,
    LowPages,           \* pages of the first megabyte
    KernelPage,         \* page of KERNEL_VIRTUAL_BASE
    Requests,           \* sizes asked for
    MaxRanges,          \* bound: ranges held at a time
    Garbage             \* what superpage_bitmap may hold before it is written

Words == W * W * W
Pages == 0 .. W * Words - 1
SuperPages == 0 .. W * W - 1

ASSUME VaddmAssumption ==
    /\ W \in Nat \ {0, 1}
    /\ LowPages \in 1 .. W * W - 1
    /\ KernelPage \in Pages
    /\ Requests \subseteq Nat \ {0}
    /\ MaxRanges \in Nat
    /\ Garbage \subseteq SUBSET SuperPages

VARIABLES
    page_bitmap,        \* pages whose bit is set
    superpage_bitmap,   \* super pages whose bit is set
    held,               \* ranges the callers hold: [base, num]
    failed,             \* size of the last vmalloc if it found nothing, or 0
    unwritten           \* history: what superpage_bitmap held when it was not
                        \* yet written

addressVars == <<page_bitmap, superpage_bitmap>>
vars == <<addressVars, held, failed, unwritten>>

PagesOfWord(w) == w * W .. w * W + W - 1

SuperPage(page) == page \div (W * W)

WordFull(bits, w) == PagesOfWord(w) \subseteq bits

\* The W words looked at start with the word of the page, not with the first
\* of its super page.  Behind the last word there are zeros.
SuperRegionFull(bits, page) ==
    \A off \in 0 .. W - 1 : page \div W + off < Words
                             /\ WordFull(bits, page \div W + off)

\* vaddm_set_bit for the pages from base on.
SetBits(base, num) ==
    LET before(page) == page_bitmap \cup (base .. page)
        range == base .. base + num - 1
    IN  /\ page_bitmap' = page_bitmap \cup range
        /\ superpage_bitmap' =
              superpage_bitmap \cup
              {SuperPage(page) :
                  page \in {p \in range : SuperRegionFull(before(p), p)}}

\* Mutated form: the super page stays marked.
ClearBitsKeepSuper(base, num) ==
    /\ page_bitmap' = page_bitmap \ (base .. base + num - 1)
    /\ UNCHANGED superpage_bitmap

ClearBits(base, num) ==
    /\ page_bitmap' = page_bitmap \ (base .. base + num - 1)
    /\ superpage_bitmap' = superpage_bitmap
                           \ {SuperPage(page) : page \in base .. base + num - 1}

\* Where the search looks, in its order: at page x[2] for super page x[1].  The
\* number of each super page that is not full is taken for the number of a word
\* to start at, and the words end at W: from super page W on there is none.
Places == (0 .. W - 1) \X (0 .. W * W - 1)

Visited == {x \in Places : /\ x[1] \notin superpage_bitmap
                           /\ x[2] >= x[1] * W
                           /\ ~ WordFull(page_bitmap, x[2] \div W)}

Leq(x, y) == x[1] < y[1] \/ (x[1] = y[1] /\ x[2] <= y[2])

First(places) == CHOOSE x \in places : \A y \in places : Leq(x, y)

\* What num_free_bits counts when the search is at e: a page that is taken starts
\* the count again, one that is skipped does not.
RunAt(e) == {d \in Visited : /\ Leq(d, e)
                             /\ \A h \in Visited : Leq(d, h) /\ Leq(h, e)
                                                     => h[2] \notin page_bitmap}

Hits(num) == {e \in Visited : Cardinality(RunAt(e)) >= num}

\* vaddm_get_first_clear_bits: where the run ends, and where it started.
End(num) == First(Hits(num))
Start(num) == First(RunAt(End(num)))
Found(num) == Start(num)[2]

\* A region: its loop compares with the size, not with the end.
Region(base, size) == base .. size - 1

\* vaddm_init clears the page bits, not those of the super pages.
Init == /\ page_bitmap = Region(KernelPage, W * Words - KernelPage)
                         \cup Region(0, LowPages) \cup {0}
        /\ unwritten \in Garbage
        /\ superpage_bitmap = unwritten
        /\ held = {}
        /\ failed = 0

vmalloc(num) ==
    /\ \/ /\ Hits(num) # {}
          /\ SetBits(Found(num), num)
          /\ held' = held \cup {[base |-> Found(num), num |-> num]}
          /\ failed' = 0
       \/ /\ Hits(num) = {}
          /\ failed' = num
          /\ UNCHANGED <<addressVars, held>>
    /\ UNCHANGED unwritten

\* Mutated form: one page more is freed.
vfreeLong(range) == /\ ClearBits(range.base, range.num + 1)
                    /\ held' = held \ {range}
                    /\ failed' = 0
                    /\ UNCHANGED unwritten

vfree(range) == /\ ClearBits(range.base, range.num)
                /\ held' = held \ {range}
                /\ failed' = 0
                /\ UNCHANGED unwritten

Next == \/ \E num \in Requests : Cardinality(held) < MaxRanges /\ vmalloc(num)
        \/ \E range \in held : vfree(range)

Spec == Init /\ [][Next]_vars

-----------------------------------------------------------------------------
(* The calls that the search is good for.  A run of free pages is counted   *)
(* across words that are skipped and across super pages, so that a range of *)
(* several pages may be given out with pages in it that are taken.  A call  *)
(* fits if it asks for one page, or finds nothing, or all free pages that   *)
(* are looked at lie where none is taken any more, or the first gap is      *)
(* large enough.  Those of kinit (kernel.c:203-217) fit: 8, 16 and 4096     *)
(* pages one behind the other, then 16 and 8 in the gap of the first 24.    *)

Packed == \E end \in 0 .. KernelPage :
              /\ (end .. KernelPage - 1) \cap page_bitmap = {}
              /\ \A x \in Visited : x[2] < end => x[2] \in page_bitmap

FirstGapHolds(num) ==
    \E f \in 0 .. W * W - num :
        /\ (f .. f + num - 1) \cap page_bitmap = {}
        /\ \E x \in Visited : x[2] = f
        /\ \A x \in Visited : x[2] \notin page_bitmap => f <= x[2]

Fits(num) == \/ num = 1
             \/ Hits(num) = {}
             \/ Packed /\ W * W + num <= KernelPage
             \/ FirstGapHolds(num)

FittingNext ==
    \/ \E num \in Requests : Cardinality(held) < MaxRanges /\ Fits(num) /\ vmalloc(num)
    \/ \E range \in held : vfree(range)

FittingSpec == Init /\ [][FittingNext]_vars

-----------------------------------------------------------------------------
(* Properties.                                                             *)

PagesOf(r) == r.base .. r.base + r.num - 1

\* vmm.h: vmalloc "Allocates virtual addresses": each is held once, and while
\* it is, its bit is set, so that nobody else gets it.
AddressesHeldOnce ==
    /\ UNION {PagesOf(r) : r \in held} \subseteq page_bitmap
    /\ \A r, q \in held : r # q => PagesOf(r) \cap PagesOf(q) = {}

\* kernel.c:213 panics when vmalloc finds nothing.  A page is refused only when
\* all that the search reaches are taken: those from word x on, for each super
\* page x that was not marked before superpage_bitmap was first written.
FreePageFound ==
    failed = 1 => \A p \in 0 .. W * W - 1 :
                      (\E x \in (0 .. W - 1) \ unwritten : x * W <= p)
                          => p \in page_bitmap

-----------------------------------------------------------------------------
(* What the code does not keep.                                            *)

\* "VADDM Test failed (1-NULL)" (kernel.c:214) means that no page is free.
NoPageMissed == failed = 1 => 0 .. W * W - 1 \subseteq page_bitmap

\* vmm.h on vaddm_set_region: "Sets a region to not be allocated".  vaddm_init
\* does so for the kernel.
KernelKept == Pages \ 0 .. KernelPage - 1 \subseteq page_bitmap
=============================================================================
