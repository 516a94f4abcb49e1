--------------------------- MODULE MCConflictReview ---------------------------
(* The memories of one key, equal in every signal but the time of their    *)
(* last update: they tie unless an update falls between their writes.      *)
EXTENDS ConflictReview

MCStanding == [m \in Memories |-> [i \in 1..4 |-> 0]]
MCTrust == [m \in Memories |-> 1]
=============================================================================
