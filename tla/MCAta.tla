------------------------------- MODULE MCAta -------------------------------
(* Small instances of Ata. *)
EXTENDS Ata

With(m0, s0, m1, s1, plan) ==
    [machine |-> (0 :> [master |-> m0, slave |-> s0]) @@ (1 :> [master |-> m1, slave |-> s1]),
     plan |-> plan]

Do(op, bus) == [op |-> op, bus |-> bus]

\* kernel.c:122-128.
KinitPlan == <<Do("ata_read", 0), Do("ata_read", 1), Do("atapi_read", 0), Do("atapi_read", 1)>>

\* A disk and a CD-ROM; the calls kinit does not make; a CD-ROM that may fail and be
\* asked again, or be sent another command; a slave that gives its type to the
\* master; a slave alone; no drive; a drive the driver does not know.
AllScenarios ==
    {With("ata", "none", "atapi", "none", KinitPlan),
     With("ata", "none", "none", "none",
          <<Do("ata_write", 0), Do("ata_command", 0)>>),
     With("none", "none", "atapi", "none", <<Do("atapi_read", 1), Do("atapi_read", 1)>>),
     With("none", "none", "atapi", "none", <<Do("atapi_read", 1), Do("ata_command", 1)>>),
     With("atapi", "ata", "none", "none", KinitPlan),
     With("none", "ata", "none", "none", KinitPlan),
     With("none", "none", "none", "none", KinitPlan),
     With("ata", "none", "other", "none", KinitPlan)}

\* A drive that answers the identification and is no drive the driver knows.
ForeignScenarios == {With("ata", "none", "other", "none", KinitPlan)}
DiskScenarios == {With("ata", "none", "none", "none", KinitPlan)}
BurnScenarios == {With("atapi", "none", "none", "none", <<Do("atapi_write", 0)>>)}
=============================================================================
