------------------------------ MODULE MCNetSlot ------------------------------
(* Two runs of one node and one of its peer that use few slots, one after    *)
(* another, beside a restored template that may carry the MAC of the slot.   *)
EXTENDS NetSlot, TLC

CONSTANTS n1, n2, r1, r2, r3, f1

TwoNodes == {n1, n2}
ThreeRuns == {r1, r2, r3}
Peers == [r \in Run |-> IF r = r3 THEN n2 ELSE n1]
ATemplate == {f1}
FirstSlot == [f \in ATemplate |-> 0]
First == {r1}
=============================================================================
