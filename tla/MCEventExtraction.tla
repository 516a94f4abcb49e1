-------------------------- MODULE MCEventExtraction --------------------------
(***************************************************************************)
(* Small instances of EventExtraction: a step s2 below a step s1, events   *)
(* t1, t2 (tool results) and m1, m2, m3 (messages).                        *)
(***************************************************************************)
EXTENDS EventExtraction, TLC

CONSTANTS s1, s2, t1, t2, m1, m2, m3, r1, f1

MCSubtree == (s1 :> {s1, s2}) @@ (s2 :> {s2})

\* The branch of s2 is rolled back from its parent; f1 finishes s2 itself.
BranchStepOf ==
  [x \in Events \cup Rollbacks \cup Finishes |-> IF x \in {r1, m1} THEN s1 ELSE s2]

\* m1 is stated on the branch that is rolled back, the others beside it.
FactStepOf ==
  [x \in Events \cup Rollbacks \cup Finishes |-> IF x \in {r1, m1} THEN s2 ELSE s1]

MCKindOf == [e \in Events |-> IF e \in {m1, m2, m3} THEN "message" ELSE "tool_result"]

Lazily == [e \in Events |-> {"lazy"}]
Deferred == [e \in Events |-> {"lazy", "async"}]
FlushModes == [e \in Events |-> IF e = t1 THEN {"lazy", "sync_flush", "no_extract"} ELSE {"async"}]
FactModes == [e \in Events |-> IF e = m3 THEN {"async"} ELSE {"sync"}]
NoRequests == {}
WorkerSymmetry == Permutations(Workers)
==============================================================================
