---------------------------- MODULE MCScheduler ----------------------------
(***************************************************************************)
(* Instances of Scheduler for TLC.  As in kinit, the first process created *)
(* is the kernel's idle process, the second one may be a user process and  *)
(* the third is kmain.                                                     *)
(***************************************************************************)
EXTENDS Scheduler

CONSTANTS idle, test, kmain

MCProcs == {idle, test, kmain}
MCUserProcs == {test}

\* The boot of a machine with the test module, and one without it.
BootAll == <<idle, test, kmain>>
BootTwo == <<idle, kmain>>
BootIdle == <<idle>>

NoCalls == {}
AllCalls == Services
HeapCalls == {"kmalloc"}
=============================================================================
