----------------------------- MODULE MCStateTree -----------------------------
(***************************************************************************)
(* Instances of StateTree.  Requests of one kind are alike, so states that *)
(* differ by their names only are checked once.                            *)
(***************************************************************************)
EXTENDS StateTree, TLC

CONSTANTS x1, x2, x3, w1, f1, r1, r2

Alike == Permutations(Starts) \cup Permutations(Writes)
           \cup Permutations(Finishes) \cup Permutations(Rollbacks)
==============================================================================
