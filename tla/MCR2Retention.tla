--------------------------- MODULE MCR2Retention ---------------------------
(* A small instance of R2Retention: one template that is rebuilt, one that  *)
(* was published under the legacy prefix and never again.                   *)
EXTENDS R2Retention

TwoTemplates == {"debian", "centos"}
OldTemplates == {"centos"}
NewTemplates == {"debian"}
TwoBuilds == [t \in TwoTemplates |-> IF t = "debian" THEN 2 ELSE 0]
SharedVarstore == [n \in 0 .. 2 |-> IF n = 0 THEN 0 ELSE 1]
SecondBare == {2}
BothPruners == {"job", "operator"}
=============================================================================
