------------------------------- MODULE Demand -------------------------------
(***************************************************************************)
(* What builds and verifications ask of a Proxmox node: every run is for   *)
(* one recipe, and the recipe's .pkr.hcl declares the memory and cores it  *)
(* takes (RecipeInfo in src/config.ts).                                    *)
(***************************************************************************)
EXTENDS Integers, FiniteSets

CONSTANTS
  Run,        \* cf processes that each build or verify one recipe
  Recipe,     \* Recipe[r]: the recipe run r is for
  Resource,   \* "memory" and "cpu"
  Need,       \* Need[res][r]: what the recipe declares
  Capacity    \* Capacity[res]: what the node can give out

ASSUME RunsFinite == IsFiniteSet(Run)

\* acquireRunLease refuses a recipe that declares less than 1 of either.
ASSUME NeedType == Need \in [Resource -> [Run -> Nat \ {0}]]
ASSUME CapacityType == Capacity \in [Resource -> Nat]

(***************************************************************************)
(* The units of a resource that the runs of S occupy: run r occupies the   *)
(* units <<r, 1>> .. <<r, Need[res][r]>>.  A run that needs more than the  *)
(* capacity is never admitted, so no admitted run's units are cut off.     *)
(***************************************************************************)
Units(res, S) ==
  {u \in S \X (1 .. Capacity[res]) : u[2] <= Need[res][u[1]]}

\* memory_used and cpu_used: the sum of the needs of the runs of S.
Used(res, S) == Cardinality(Units(res, S))

=============================================================================
