---------------------------- MODULE MCNodePrune -----------------------------
(* A small instance of NodePrune: two pipelines, two revisions.             *)
EXTENDS NodePrune, TLC

CONSTANTS b1, b2, h1, h2

TwoBuilds == {b1, b2}
TwoSnapshots == {h1, h2}
Alike == Permutations(TwoBuilds) \cup Permutations(TwoSnapshots)
=============================================================================
