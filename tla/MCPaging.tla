------------------------------ MODULE MCPaging ------------------------------
(***************************************************************************)
(* Instances of Paging for TLC: seven tables of eight pages.  The program's  *)
(* pages are in table 0, the names of the modules in 1, the kernel's own   *)
(* pages in 2, the heap from 3 on, the page of the PMM test in 6.  The    *)
(* low frames do not hold a piece of BigSize, as the 640 KiB below the     *)
(* hole do not hold 128 frames once vaddm_init has taken its own.          *)
(***************************************************************************)
EXTENDS Paging

LowFrames == 4 .. 30
ManyFrames == LowFrames \cup 32 .. 60
FewFrames == 4 .. 12 \cup 32 .. 60

Program == [frame |-> 70, cmdline |-> 71, offset |-> {1}, isTest |-> TRUE]
Other == [frame |-> 72, cmdline |-> 73, offset |-> {0}, isTest |-> FALSE]
\* kmalloc and kfree are called by ide_init before the modules, by process_create,
\* before the PMM test and after it; these three are enough.
HeapCalls == {<<"modules", 1>>, <<"process_create", 2>>, <<"idle_process", 0>>}

NoModule == <<>>
TwoModules == <<Program, Other>>
OtherFirst == <<Other, Program>>
=============================================================================
