---------------------------- MODULE RoundRobin ----------------------------
(***************************************************************************)
(* What the process scheduler promises: processes wait in one queue, a new *)
(* process joins at its tail, every dispatch sends the head to the tail    *)
(* and runs the new head.  Nothing else moves a process, so nobody is lost *)
(* or served twice in a round.                                             *)
(***************************************************************************)
EXTENDS Sequences, Integers

CONSTANTS Procs,    \* processes
          Nobody    \* what runs before the first dispatch

VARIABLES queue, running
vars == <<queue, running>>

InQueue(p) == \E i \in 1 .. Len(queue) : queue[i] = p

Init == queue = <<>> /\ running = Nobody

Admit(p) == /\ ~ InQueue(p)
            /\ queue' = Append(queue, p)
            /\ UNCHANGED running

Dispatch == /\ queue # <<>>
            /\ queue' = Append(Tail(queue), Head(queue))
            /\ running' = Head(queue')

Next == Dispatch \/ \E p \in Procs : Admit(p)

Spec == Init /\ [][Next]_vars
=============================================================================
