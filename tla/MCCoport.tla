------------------------------ MODULE MCCoport ------------------------------
(***************************************************************************)
(* Coport on a small node: one run after another, two templates, two VMIDs. *)
(* Both templates suggest the first VMID, the range for conflicts begins    *)
(* there too.  One download at a time, two imports.                         *)
(*                                                                         *)
(* The preflight meets a node on which all is well, and every node that     *)
(* differs from it in one respect: a storage s1 of every type with any room *)
(* around the sizes that decide, temp space likewise, how a guest stands,   *)
(* what an artifact's URL answers, the tools (without pvesm also no s1),    *)
(* the bridge.                                                              *)
(***************************************************************************)
EXTENDS Coport, TLC

CONSTANTS t1, t2, s1, s2

MCOrder     == <<t1, t2>>
MCVmids     == 1..2
MCSuggested == t1 :> 1 @@ t2 :> 1
MCImage     == t1 :> 1 @@ t2 :> 2
MCVirtual   == t1 :> 2 @@ t2 :> 3
MCExtras    == t1 :> 1 @@ t2 :> 1

Roomy == [type |-> "lvmthin", images |-> TRUE, active |-> TRUE, free |-> 9]
Good  == [qm |-> TRUE, pvesm |-> TRUE, root |-> TRUE, bridge |-> TRUE,
          row      |-> [s \in {s1, s2} |-> Roomy],
          temp     |-> [free |-> 9, writable |-> TRUE],
          guest    |-> [v \in MCVmids |-> "stopped"],
          artifact |-> [t \in {t1, t2} |-> "published"]]

MCRows ==
    {NoRow, [Roomy EXCEPT !.images = FALSE], [Roomy EXCEPT !.active = FALSE]}
        \cup {[Roomy EXCEPT !.type = type, !.free = free] :
                type \in {"lvm", "lvmthin", "zfspool"}, free \in 1..7}
MCTemps == {[free |-> free, writable |-> TRUE] : free \in 0..3}
               \cup {[free |-> 9, writable |-> FALSE]}

MCNodes ==
    {Good, [Good EXCEPT !.qm = FALSE], [Good EXCEPT !.pvesm = FALSE],
     [Good EXCEPT !.pvesm = FALSE, !.row[s1] = NoRow],
     [Good EXCEPT !.root = FALSE], [Good EXCEPT !.bridge = FALSE]}
        \cup {[Good EXCEPT !.row[s1] = row] : row \in MCRows}
        \cup {[Good EXCEPT !.temp = temp] : temp \in MCTemps}
        \cup {[Good EXCEPT !.guest[v] = condition] : v \in MCVmids, condition \in Conditions}
        \cup {[Good EXCEPT !.artifact[t] = answer] : t \in {t1, t2}, answer \in Artifacts}
=============================================================================
