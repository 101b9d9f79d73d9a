------------------------------- MODULE MCPs2 -------------------------------
(* Machines for Ps2.  Bit 5 of a controller with two ports is set when the   *)
(* second is disabled and clear when it is enabled.                          *)
EXTENDS Ps2

Controller(first, enabled, test, ports, d1, d2) ==
    [config |-> {0, 2, 6}, first |-> first, enabled |-> enabled, test |-> test,
     ports |-> ports, device |-> [d \in Devices |-> IF d = DEV1 THEN d1 ELSE d2]]

Dual(d1, d2) == Controller(TRUE, FALSE, "55", Devices, d1, d2)
Single(d1) == Controller(FALSE, FALSE, "55", {DEV1}, d1, "none")

\* Bit 5 reads as set whatever the second port is.
Stuck(d1, d2) == Controller(TRUE, TRUE, "55", Devices, d1, d2)
StuckSingle(d1) == Controller(TRUE, TRUE, "55", {DEV1}, d1, "none")

\* Bit 5 is set only when the port is enabled: no controller does this, but
\* the code resets the second port of none other.
Inverted(d1, d2) == Controller(FALSE, TRUE, "55", Devices, d1, d2)

Answering ==
    {Dual(d1, d2) : d1 \in {"mf2", "at", "mouse"}, d2 \in {"mf2", "mouse", "none"}}
    \cup {Single(d1) : d1 \in {"mf2", "at"}}
    \cup {StuckSingle("mf2"), Stuck("mf2", "mouse"), Inverted("mouse", "mf2"),
          Inverted("mf2", "at")}
    \cup {Controller(TRUE, FALSE, "55", {}, "none", "none"),
          Controller(TRUE, FALSE, "FC", {DEV1}, "mf2", "none")}

NoKeyboard == {Dual("none", "none")}
=============================================================================
