----------------------------- MODULE MCPipeline -----------------------------
(* Three recipes that need different things, and a second run of the first. *)
EXTENDS Pipeline

CONSTANTS p1, p2, p3, p4

Runs == {p1, p2, p3, p4}
\* p4 asks for the recipe of p1 once more.
RecipeOf == [j \in Runs |-> IF j = p4 THEN p1 ELSE j]
Resources == {"memory", "cpu"}
\* p2 is large in memory: it runs alone, and p3 may overtake it beside p1.
Needs == [res \in Resources |-> [j \in Runs |->
            IF j = p2 /\ res = "memory" THEN 3 ELSE 2]]
Budgets == [res \in Resources |-> 4]
=============================================================================
