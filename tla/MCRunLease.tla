----------------------------- MODULE MCRunLease -----------------------------
(* Small instances of RunLease: which runs there are and what they need.    *)
EXTENDS RunLease, TLC

CONSTANTS r1, r2, r3

Resources == {"memory", "cpu"}
Needs == [res \in Resources |-> [r \in Run |-> IF res = "memory" THEN 2 ELSE 1]]
NodeHas == [res \in Resources |-> 3]

\* Two runs of one recipe.
Twins == {r1, r2}
TwinRecipe == [r \in Twins |-> "debian"]
Twin == {r1}

\* Two recipes of which memory takes one at a time, and a run whose recipe does
\* not fit the budget of its environment: it is rejected after its sweep.
\* r2's budget is above what the node has.
Rivals == {r1, r2, r3}
RivalRecipe == [r \in Run |-> IF r = r2 THEN "windows" ELSE "debian"]
KeptRival == {r1}
OnlyByName == {{r1}}

Budgets == [res \in Resources |->
              [r \in Run |-> CASE r = r1 -> 3 [] r = r2 -> 4 [] OTHER -> 1]]
=============================================================================
