------------------------------ MODULE MCVaddm ------------------------------
(* Instances of Vaddm for TLC: 81 pages, words of 3 bits.                    *)
EXTENDS Vaddm

Several == {1, 2, 12}
Unwritten == SUBSET {0, 1, 2}
=============================================================================
