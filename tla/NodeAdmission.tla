---------------------------- MODULE NodeAdmission ----------------------------
(***************************************************************************)
(* What node-wide admission promises to the builds and verifications that  *)
(* share a Proxmox node, with no lease files, heartbeats or locks in it: a *)
(* set of admitted runs, never two of one recipe, never more memory or     *)
(* cores than the node has.  RunLease is shown to implement it.            *)
(***************************************************************************)
EXTENDS Demand

VARIABLE held   \* the admitted runs

Fits(r, S) ==
  /\ \A s \in S : Recipe[s] # Recipe[r]
  /\ \A res \in Resource : Used(res, S) + Need[res][r] <= Capacity[res]

Init == held = {}

Admit(r) ==
  /\ r \notin held
  /\ Fits(r, held)
  /\ held' = held \cup {r}

Free(r) ==
  /\ r \in held
  /\ held' = held \ {r}

Next == \E r \in Run : Admit(r) \/ Free(r)

Spec == Init /\ [][Next]_held

-----------------------------------------------------------------------------

TypeOK == held \subseteq Run

\* The admitted runs fit in the node, in every resource at once
\* (buildLeaseAdmissionScript sums the lease files before it admits).
CapacityRespected == \A res \in Resource : Used(res, held) <= Capacity[res]

\* Two runs of one recipe are never admitted together: they share the names of
\* their output files (same_recipe in buildLeaseAdmissionScript).
OneRunPerRecipe ==
  \A r, s \in held : Recipe[r] = Recipe[s] => r = s

=============================================================================
