----------------------------- MODULE Allocator -----------------------------
(***************************************************************************)
(* What a dynamic memory allocator promises its clients: blocks of which   *)
(* any two are disjoint.  A call that takes one may always fail.           *)
(***************************************************************************)
EXTENDS Naturals, Bags

VARIABLE blocks          \* what the clients hold: a bag of records with
                         \* the fields ptr and req

Area(b) == b.ptr .. b.ptr + b.req - 1

Init == blocks = EmptyBag

\* A block is taken only where no client's block lies.
Take == \E b \in BagToSet(blocks') :
           /\ blocks' = blocks (+) SetToBag({b})
           /\ \A c \in BagToSet(blocks) : Area(b) \cap Area(c) = {}

Give == \E b \in BagToSet(blocks) : blocks' = blocks (-) SetToBag({b})

\* A block becomes smaller where it is.
Shrink == \E b \in BagToSet(blocks) : \E n \in 0 .. b.req :
             blocks' = (blocks (-) SetToBag({b}))
                          (+) SetToBag({[b EXCEPT !.req = n]})

Next == Take \/ Give \/ Shrink

Spec == Init /\ [][Next]_blocks
=============================================================================
