------------------------- MODULE MCMaintenanceLock -------------------------
(* Two runs that share the lock and one clean.                             *)
EXTENDS MaintenanceLock

CONSTANTS s1, s2, x1

TwoSharers == {s1, s2}
OneSharer == {s1}
OneCleaner == {x1}
=============================================================================
