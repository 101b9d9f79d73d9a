------------------------------- MODULE MCHeap -------------------------------
(* Instances of Heap for TLC.  One unit is 8 bytes: the headers are 24, the  *)
(* alignment 16, a page is 64 and a chunk 256 bytes long.                    *)
EXTENDS Heap

Sizes == {1, 5, 30}
=============================================================================
