--------------------------- MODULE StateTree_proofs ---------------------------
(***************************************************************************)
(* Proofs about StateTree, for any requests.                               *)
(***************************************************************************)
EXTENDS StateTree, TLAPS

-----------------------------------------------------------------------------
(* Branches and lineages.  Both are defined by the sets that contain them, *)
(* so nothing here needs induction over the tree.                          *)

HoldsChildren(S) == \A y \in nodes : ParentOf(y) \in S => y \in S
HoldsParents(S) == \A y \in S : ParentOf(y) \in nodes => ParentOf(y) \in S

LEMMA InBranch ==
  ASSUME NEW n, NEW x
  PROVE  x \in Branch(n) <=>
           /\ x \in nodes
           /\ \A S \in SUBSET nodes : n \in S /\ HoldsChildren(S) => x \in S
  BY DEF Branch, HoldsChildren

LEMMA InLineage ==
  ASSUME NEW n, NEW x
  PROVE  x \in Lineage(n) <=>
           /\ x \in nodes
           /\ \A S \in SUBSET nodes : n \in S /\ HoldsParents(S) => x \in S
  BY DEF Lineage, HoldsParents

\* The walk up from a node meets whatever the walk down reaches it from.
LEMMA BranchLineage ==
  ASSUME NEW x \in nodes, NEW y \in Branch(x)
  PROVE  x \in Lineage(y)
<1> SUFFICES ASSUME NEW S \in SUBSET nodes, y \in S, HoldsParents(S), x \notin S
             PROVE  FALSE
  BY InLineage
<1> DEFINE C == nodes \ S
<1>1. x \in C /\ C \in SUBSET nodes
  OBVIOUS
<1>2. HoldsChildren(C)
  BY DEF HoldsChildren, HoldsParents
<1>3. y \in C
  BY <1>1, <1>2, InBranch
<1>4. QED
  BY <1>3

LEMMA OwnBranch == ASSUME NEW x \in nodes PROVE x \in Branch(x)
  BY InBranch

\* A branch is connected: below its top every node has its parent in it.
LEMMA BranchConnected ==
  ASSUME NEW x \in nodes, NEW y \in Branch(x), y # x
  PROVE  ParentOf(y) \in Branch(x)
<1> SUFFICES ASSUME ParentOf(y) \notin Branch(x) PROVE FALSE
  OBVIOUS
<1>1. y \in nodes
  BY InBranch
<1>2. PICK S \in SUBSET nodes : x \in S /\ HoldsChildren(S) /\ ParentOf(y) \notin S
  <2>1. CASE ParentOf(y) \in nodes
    BY <2>1, InBranch
  <2>2. CASE ParentOf(y) \notin nodes
    <3>1. HoldsChildren(nodes)
      BY DEF HoldsChildren
    <3>2. QED
      BY <2>2, <3>1
  <2>3. QED
    BY <2>1, <2>2
<1> DEFINE T == S \ {y}
<1>3. T \in SUBSET nodes /\ x \in T
  BY <1>2
<1>4. HoldsChildren(T)
  BY <1>2 DEF HoldsChildren
<1>5. y \in T
  BY <1>3, <1>4, InBranch
<1>6. QED
  BY <1>5

-----------------------------------------------------------------------------
(* Types, and what a request knows at each of its steps.                   *)

Typed ==
  /\ TypeOK
  /\ \A s \in Starts : pc[s] \in {"idle", "node", "step", "done", "dead"}
  /\ \A u \in Updates : pc[u] \in {"step", "node"} => target[u] \in Starts
  /\ \A r \in Rollbacks : pc[r] # "idle" => target[r] \in Starts

\* The part of the tree a planned node relies on.
Planned ==
  /\ \A s \in Starts :
       /\ pc[s] = "idle" => recovers[s] = NoNode
       /\ pc[s] \in {"idle", "node"} => s \notin nodes
       /\ pc[s] \in {"step", "done"} => s \in nodes
       /\ s \in steps => s \in nodes
  /\ \A s \in Starts : pc[s] # "idle" =>
       /\ parent[s] \in nodes
       /\ depth[s] = depth[parent[s]] + 1
  /\ \A s \in Starts : recovers[s] # NoNode =>
       /\ recovers[s] \in Starts /\ recovers[s] \in nodes
       /\ parent[s] = parent[recovers[s]]
       /\ recovers[s] # s
       /\ recovers[recovers[s]] # s

LEMMA InitTyped == Init => Typed
  BY TreeConstants DEF Init, Typed, TypeOK, Nodes, Updates, Requests, NodeStatus, StepStatus

LEMMA FinishedIsNodeStatus ==
  ASSUME NEW was \in NodeStatus, NEW v \in StepStatus
  PROVE  FinishedStatus(was, v) \in NodeStatus
  BY DEF FinishedStatus, NodeStatus, StepStatus

LEMMA NextTyped == Typed /\ Planned /\ [Next]_vars => Typed'
<1> SUFFICES ASSUME Typed, Planned, [Next]_vars PROVE Typed'
  OBVIOUS
<1> USE TreeConstants DEF Typed, TypeOK, Nodes, Updates, Requests
<1>1. CASE StartRun
  BY <1>1 DEF StartRun, statuses, locals
<1>2. ASSUME NEW s \in Starts, ReadTree(s) PROVE Typed'
  <2>1. PICK p \in nodes, r \in Starts \cup {NoNode} : Plan(s, p, r)
    <3>1. Known \subseteq Starts /\ Known \subseteq nodes
      BY DEF Known, Planned
    <3>2. \A x \in Known : RecoveryParent(x) \in nodes
      BY DEF Known, RecoveryParent, Planned
    <3>3. QED
      BY <1>2, <3>1, <3>2 DEF ReadTree
  <2>2. p \in Nodes /\ depth[p] + 1 \in Nat
    BY <2>1
  <2>3. QED
    BY <1>2, <2>1, <2>2 DEF ReadTree, Plan, statuses, locals
<1>3. ASSUME NEW s \in Starts, AddNode(s) PROVE Typed'
  BY <1>3 DEF AddNode, locals, NodeStatus
<1>4. ASSUME NEW s \in Starts, AddStep(s) PROVE Typed'
  BY <1>4 DEF AddStep, tree, locals, StepStatus
<1>5. ASSUME NEW w \in Writes, BeginWrite(w) PROVE Typed'
  BY <1>5 DEF BeginWrite, ReadNode, Known, tree, statuses
<1>6. ASSUME NEW w \in Writes, WriteNode(w) PROVE Typed'
  BY <1>6 DEF WriteNode, tree, locals
<1>7. ASSUME NEW f \in Finishes, BeginFinish(f) PROVE Typed'
  BY <1>7 DEF BeginFinish, ReadNode, Known, tree, statuses
<1>8. ASSUME NEW f \in Finishes, FinishStepRow(f) PROVE Typed'
  BY <1>8 DEF FinishStepRow, tree, locals
<1>9. ASSUME NEW f \in Finishes, FinishNode(f) PROVE Typed'
  <2>1. FinishedStatus(copy[f], verdict[f]) \in NodeStatus
    BY FinishedIsNodeStatus
  <2>2. QED
    BY <1>9, <2>1 DEF FinishNode, tree, locals
<1>10. ASSUME NEW r \in Rollbacks, BeginRollback(r) PROVE Typed'
  BY <1>10 DEF BeginRollback, Known, tree, statuses
<1>11. ASSUME NEW r \in Rollbacks, ListBranch(r) PROVE Typed'
  <2>1. Branch(target[r]) \in SUBSET Nodes
    BY InBranch
  <2>2. QED
    BY <1>11, <2>1 DEF ListBranch, tree, statuses
<1>12. ASSUME NEW r \in Rollbacks, RollBackNode(r) PROVE Typed'
  <2>1. PICK n \in Nodes : /\ status' = [status EXCEPT ![n] = "rolled_back"]
                           /\ todo' = [todo EXCEPT ![r] = @ \ {n}]
                           /\ at' = [at EXCEPT ![r] = n]
    BY <1>12 DEF RollBackNode, NextMark
  <2>2. target[r] \in Starts /\ cut' = cut \cup {target[r]}
    BY <1>12 DEF RollBackNode
  <2>3. status' \in [Nodes -> NodeStatus] /\ todo' \in [Rollbacks -> SUBSET Nodes]
        /\ at' \in [Rollbacks -> Nodes \cup {NoNode}] /\ cut' \subseteq Starts
    BY <2>1, <2>2 DEF NodeStatus
  <2>4. pc' = [pc EXCEPT ![r] = "step"] /\ UNCHANGED <<tree, stepStatus, steps, target, copy, verdict, before>>
    BY <1>12 DEF RollBackNode
  <2>5. TypeOK'
    BY <2>3, <2>4 DEF tree
  <2>6. \A x \in Requests : x # r => pc'[x] = pc[x]
    BY <2>4
  <2>7. \A x \in Starts \cup Updates : x # r
    OBVIOUS
  <2>8. QED
    BY <2>2, <2>4, <2>5, <2>6, <2>7
<1>13. ASSUME NEW r \in Rollbacks, RollBackStep(r) PROVE Typed'
  BY <1>13 DEF RollBackStep, tree, locals, StepStatus
<1>14. ASSUME NEW x \in Requests, Die(x) PROVE Typed'
  BY <1>14 DEF Die, Live, tree, statuses, locals
<1>15. CASE UNCHANGED vars
  BY <1>15 DEF vars, tree, locals
<1>16. QED
  BY <1>1, <1>2, <1>3, <1>4, <1>5, <1>6, <1>7, <1>8, <1>9, <1>10, <1>11, <1>12,
     <1>13, <1>14, <1>15 DEF Next

LEMMA InitPlanned == Init => Planned
  BY TreeConstants DEF Init, Planned, Requests

\* Planned depends on the shape of the tree and where start requests stand.
LEMMA PlannedKept ==
  ASSUME Planned, UNCHANGED <<tree, steps>>, \A s \in Starts : pc'[s] = pc[s]
  PROVE  Planned'
  BY DEF Planned, tree

LEMMA NextPlanned == Typed /\ Planned /\ [Next]_vars => Planned'
<1> SUFFICES ASSUME Typed, Planned, [Next]_vars PROVE Planned'
  OBVIOUS
<1> USE TreeConstants
<1>T. /\ pc \in [Requests -> {"idle", "list", "node", "step", "done", "dead"}]
      /\ parent \in [Starts -> Nodes \cup {NoNode}] /\ depth \in [Nodes -> Nat]
      /\ recovers \in [Starts -> Starts \cup {NoNode}] /\ nodes \subseteq Nodes
      /\ steps \subseteq Starts
      /\ \A s \in Starts : pc[s] \in {"idle", "node", "step", "done", "dead"}
  BY DEF Typed, TypeOK
<1>1. CASE StartRun
  <2>1. \A s \in Starts : pc[s] = "idle" /\ recovers[s] = NoNode /\ s \notin steps
    BY <1>1, <1>T DEF StartRun, Planned
  <2>2. QED
    BY <1>1, <2>1 DEF StartRun, Planned, locals
<1>2. ASSUME NEW s \in Starts, ReadTree(s) PROVE Planned'
  <2>1. Known \subseteq Starts /\ \A x \in Known : x \in nodes /\ parent[x] \in nodes /\ x # s
    BY <1>2 DEF Known, Planned, ReadTree
  <2>2. PICK p \in nodes, r \in Starts \cup {NoNode} :
          /\ Plan(s, p, r)
          /\ r # NoNode => r \in nodes /\ r # s /\ p = parent[r]
    BY <1>2, <2>1 DEF ReadTree, RecoveryParent
  <2>3. /\ parent'[s] = p /\ depth'[s] = depth[p] + 1 /\ recovers'[s] = r
        /\ \A x \in Starts : x # s => parent'[x] = parent[x] /\ recovers'[x] = recovers[x]
        /\ \A x \in Nodes : x # s => depth'[x] = depth[x]
    BY <1>T, <2>2 DEF Plan, Nodes
  <2>4. nodes' = nodes /\ steps' = steps /\ s \notin nodes /\ recovers[s] = NoNode
        /\ \A x \in Starts : pc'[x] = IF x = s THEN "node" ELSE pc[x]
    BY <1>2, <1>T DEF ReadTree, Planned, Requests
  <2>5. \A x \in Starts : pc'[x] # "idle" =>
          parent'[x] \in nodes' /\ depth'[x] = depth'[parent'[x]] + 1
    <3>1. s \in Nodes /\ p \in Nodes /\ p # s /\ depth'[p] = depth[p]
      BY <1>T, <2>3, <2>4 DEF Nodes
    <3>2. ASSUME NEW x \in Starts, x # s, pc[x] # "idle"
          PROVE  parent'[x] \in nodes' /\ depth'[x] = depth'[parent'[x]] + 1
      <4>1. parent[x] \in nodes /\ depth[x] = depth[parent[x]] + 1
        BY <3>2 DEF Planned
      <4>2. parent[x] \in Nodes /\ parent[x] # s /\ x \in Nodes
        BY <1>T, <2>4, <4>1 DEF Nodes
      <4>3. QED
        BY <2>3, <2>4, <3>2, <4>1, <4>2
    <3>3. QED
      BY <2>3, <2>4, <3>1, <3>2
  <2>6. \A x \in Starts : recovers'[x] # NoNode =>
          /\ recovers'[x] \in Starts /\ recovers'[x] \in nodes'
          /\ parent'[x] = parent'[recovers'[x]]
          /\ recovers'[x] # x
    BY <2>2, <2>3, <2>4 DEF Planned
  <2>7. \A x \in Starts : recovers'[x] # NoNode => recovers'[recovers'[x]] # x
    <3>1. NoNode \notin Starts
      BY DEF Nodes
    <3>2. \A x \in Starts : recovers[x] # NoNode => recovers[x] # s
      BY <2>4 DEF Planned
    <3>3. CASE r = NoNode
      BY <2>3, <2>4, <3>1, <3>2, <3>3 DEF Planned
    <3>4. CASE r # NoNode
      <4>1. r \in Starts /\ r # s /\ recovers'[r] = recovers[r] /\ recovers[r] # s
        BY <2>2, <2>3, <3>1, <3>2, <3>4
      <4>2. ASSUME NEW x \in Starts, x # s, recovers[x] # NoNode
            PROVE  recovers'[recovers'[x]] # x
        <5>1. recovers[x] \in Starts /\ recovers[x] # s /\ recovers[recovers[x]] # x
          BY <4>2, <3>2 DEF Planned
        <5>2. QED
          BY <2>3, <4>2, <5>1
      <4>3. QED
        BY <2>3, <4>1, <4>2
    <3>5. QED
      BY <3>3, <3>4
  <2>8. \A x \in Starts :
          /\ pc'[x] = "idle" => recovers'[x] = NoNode
          /\ pc'[x] \in {"idle", "node"} => x \notin nodes'
          /\ pc'[x] \in {"step", "done"} => x \in nodes'
          /\ x \in steps' => x \in nodes'
    BY <2>3, <2>4 DEF Planned
  <2>9. QED
    BY <2>5, <2>6, <2>7, <2>8 DEF Planned
<1>3. ASSUME NEW s \in Starts, AddNode(s) PROVE Planned'
  BY <1>3, <1>T DEF AddNode, Planned, Requests
<1>4. ASSUME NEW s \in Starts, AddStep(s) PROVE Planned'
  BY <1>4, <1>T DEF AddStep, Planned, Requests, tree
<1>5. ASSUME NEW x \in Updates \cup Rollbacks, \A y \in Requests : y # x => pc'[y] = pc[y],
             UNCHANGED <<tree, steps>>
      PROVE  Planned'
  BY <1>5, PlannedKept DEF Requests
<1>6. ASSUME NEW w \in Writes, BeginWrite(w) \/ WriteNode(w) PROVE Planned'
  <2>1. UNCHANGED <<tree, steps>> /\ \A y \in Requests : y # w => pc'[y] = pc[y]
    BY <1>6, <1>T DEF BeginWrite, WriteNode
  <2>2. QED
    BY <1>5, <2>1 DEF Updates
<1>7. ASSUME NEW f \in Finishes, BeginFinish(f) \/ FinishStepRow(f) \/ FinishNode(f) PROVE Planned'
  <2>1. UNCHANGED <<tree, steps>> /\ \A y \in Requests : y # f => pc'[y] = pc[y]
    BY <1>7, <1>T DEF BeginFinish, FinishStepRow, FinishNode
  <2>2. QED
    BY <1>5, <2>1 DEF Updates
<1>8. ASSUME NEW r \in Rollbacks,
             BeginRollback(r) \/ ListBranch(r) \/ RollBackNode(r) \/ RollBackStep(r)
      PROVE  Planned'
  <2>1. UNCHANGED <<tree, steps>> /\ \A y \in Requests : y # r => pc'[y] = pc[y]
    BY <1>8, <1>T DEF BeginRollback, ListBranch, RollBackNode, RollBackStep
  <2>2. QED
    BY <1>5, <2>1
<1>9. ASSUME NEW x \in Requests, Die(x) PROVE Planned'
  <2>1. \A s \in Starts : pc'[s] = pc[s] \/ (pc[s] # "idle" /\ pc'[s] = "dead")
    BY <1>9, <1>T DEF Die, Live, Requests
  <2>2. QED
    BY <1>9, <2>1 DEF Die, Planned, tree
<1>10. CASE UNCHANGED vars
  BY <1>10, PlannedKept DEF vars
<1>11. QED
  BY <1>1, <1>2, <1>3, <1>4, <1>6, <1>7, <1>8, <1>9, <1>10 DEF Next

IInv == Typed /\ Planned

LEMMA InitIInv == Init => IInv
  BY InitTyped, InitPlanned DEF IInv

LEMMA NextIInv == IInv /\ [Next]_vars => IInv'
  BY NextTyped, NextPlanned DEF IInv

\* Every request leaves rows and request states of their types.
THEOREM TypeCorrect == Spec => []TypeOK
<1>1. IInv => TypeOK
  BY DEF IInv, Typed
<1>2. QED
  BY InitIInv, NextIInv, <1>1, PTL DEF Spec

\* Whatever requests overlap and wherever they die, the node rows are one
\* tree and every step has its node.
THEOREM AlwaysRooted == Spec => []Rooted
<1>1. IInv => Rooted
  <2> SUFFICES ASSUME IInv PROVE Rooted
    OBVIOUS
  <2>1. nodes \ {Root} \subseteq Starts /\ steps \subseteq Starts
    BY DEF IInv, Typed, TypeOK, Nodes
  <2>2. QED
    BY <2>1 DEF IInv, Planned, Rooted
<1>2. QED
  BY InitIInv, NextIInv, <1>1, PTL DEF Spec

\* The way up from a node passes through shallower nodes only.
LEMMA LineageRises ==
  ASSUME IInv, NEW x \in nodes, NEW y \in Lineage(x)
  PROVE  y = x \/ depth[y] < depth[x]
<1> DEFINE S == {z \in nodes : z = x \/ depth[z] < depth[x]}
<1>1. HoldsParents(S)
  <2> SUFFICES ASSUME NEW z \in S, ParentOf(z) \in nodes
               PROVE  depth[ParentOf(z)] < depth[x]
    BY DEF HoldsParents
  <2>1. nodes \subseteq Nodes /\ depth \in [Nodes -> Nat]
    BY DEF IInv, Typed, TypeOK
  <2>2. z \in Starts /\ ParentOf(z) = parent[z]
    BY <2>1, TreeConstants DEF ParentOf
  <2>3. depth[z] = depth[parent[z]] + 1
    BY <2>2 DEF IInv, Planned
  <2>4. depth[z] \in Nat /\ depth[x] \in Nat /\ depth[parent[z]] \in Nat
    BY <2>1, <2>2
  <2>5. QED
    BY <2>2, <2>3, <2>4
<1>2. y \in S
  BY <1>1, InLineage
<1>3. QED
  BY <1>2

\* A recovery, and a recovery of a recovery, stands beside the failed step:
\* its way up to the root does not pass the failed node.
THEOREM RecoveryStaysOutside == Spec => []RecoveryOutside
<1>1. IInv => RecoveryOutside
  <2> SUFFICES ASSUME IInv PROVE RecoveryOutside
    OBVIOUS
  <2>0. nodes \subseteq Nodes /\ nodes \ {Root} \subseteq Starts /\ depth \in [Nodes -> Nat]
    BY DEF IInv, Typed, TypeOK, Nodes
  <2>1. ASSUME NEW x \in nodes \ {Root}, recovers[x] # NoNode
        PROVE  recovers[x] \in Starts /\ recovers[x] \in nodes /\ recovers[x] # x
               /\ depth[recovers[x]] = depth[x] /\ recovers[recovers[x]] # x
    BY <2>0, <2>1 DEF IInv, Planned
  <2>2. ASSUME NEW x \in nodes \ {Root}, recovers[x] # NoNode
        PROVE  recovers[x] \notin Lineage(x)
    <3>1. depth[x] \in Nat
      BY <2>0
    <3>2. QED
      BY <2>1, <2>2, <3>1, LineageRises
  <2>3. ASSUME NEW x \in nodes \ {Root}, recovers[x] # NoNode,
               NEW y \in nodes \ {Root}, recovers[y] = x
        PROVE  recovers[x] \notin Lineage(y)
    <3>1. depth[y] = depth[x] /\ depth[recovers[x]] = depth[x] /\ depth[x] \in Nat
      BY <2>0, <2>1, <2>3, TreeConstants
    <3>2. recovers[x] # y
      BY <2>1, <2>3, TreeConstants
    <3>3. QED
      BY <3>1, <3>2, LineageRises
  <2>4. QED
    BY <2>2, <2>3 DEF RecoveryOutside
<1>2. QED
  BY InitIInv, NextIInv, <1>1, PTL DEF Spec

-----------------------------------------------------------------------------
(* Rolled back branches stay off the active path, given clients that are   *)
(* careful with updates.  A mark reaches the target of the rollback first, *)
(* because its branch is connected, and no update is there to undo it.     *)

CutInv ==
  /\ \A x \in cut : /\ x \in nodes /\ status[x] = "rolled_back"
                    /\ \E r \in Rollbacks : pc[r] # "idle" /\ target[r] = x
  /\ \A r \in Rollbacks : pc[r] # "idle" =>
       /\ target[r] \in nodes
       /\ \A u \in Updates : Live(u) => target[u] # target[r]
  /\ \A r \in Rollbacks : todo[r] \subseteq nodes
  /\ \A r \in Rollbacks : pc[r] = "step" => target[r] \in cut
  /\ \A r \in Rollbacks : pc[r] = "node" =>
       \/ target[r] \in cut
       \/ /\ target[r] \in todo[r]
          /\ \A x \in todo[r] : x # target[r] => ParentOf(x) \in todo[r]

LEMMA InitCut == Init => CutInv
  BY TreeConstants DEF Init, CutInv, Requests

LEMMA NextCut ==
  ASSUME "update" \in Careful
  PROVE  IInv /\ CutInv /\ [Next]_vars => CutInv'
<1> SUFFICES ASSUME IInv, CutInv, [Next]_vars PROVE CutInv'
  OBVIOUS
<1> USE TreeConstants
<1>T. /\ pc \in [Requests -> {"idle", "list", "node", "step", "done", "dead"}]
      /\ status \in [Nodes -> NodeStatus] /\ nodes \subseteq Nodes
      /\ parent \in [Starts -> Nodes \cup {NoNode}]
      /\ target \in [Updates \cup Rollbacks -> Starts \cup {NoNode}]
      /\ todo \in [Rollbacks -> SUBSET Nodes]
  BY DEF IInv, Typed, TypeOK
<1>K. Known \subseteq nodes
  BY DEF Known, IInv, Planned
\* Rows and rollbacks are left alone: a start request, or nothing.
<1>0. ASSUME UNCHANGED <<target, todo, cut>>,
             nodes \subseteq nodes',
             \A x \in nodes : status'[x] = status[x] /\ ParentOf(x)' = ParentOf(x),
             \A x \in Updates : Live(x)' => Live(x),
             \A r \in Rollbacks : pc'[r] = pc[r] \/ (pc[r] # "idle" /\ pc'[r] = "dead")
      PROVE  CutInv'
  <2>1. \A x \in cut' : /\ x \in nodes' /\ status'[x] = "rolled_back"
                        /\ \E r \in Rollbacks : pc'[r] # "idle" /\ target'[r] = x
    BY <1>0 DEF CutInv
  <2>2. \A r \in Rollbacks : pc'[r] # "idle" =>
          /\ target'[r] \in nodes'
          /\ \A u \in Updates : Live(u)' => target'[u] # target'[r]
    BY <1>0 DEF CutInv
  <2>3. \A r \in Rollbacks : todo'[r] \subseteq nodes'
    BY <1>0 DEF CutInv
  <2>4. \A r \in Rollbacks : pc'[r] = "step" => target'[r] \in cut'
    BY <1>0 DEF CutInv
  <2>5. \A r \in Rollbacks : pc'[r] = "node" =>
          \/ target'[r] \in cut'
          \/ /\ target'[r] \in todo'[r]
             /\ \A x \in todo'[r] : x # target'[r] => ParentOf(x)' \in todo'[r]
    BY <1>0 DEF CutInv
  <2>6. QED
    BY <2>1, <2>2, <2>3, <2>4, <2>5 DEF CutInv
<1>1. CASE StartRun
  BY <1>0, <1>1 DEF StartRun, statuses, locals, ParentOf, Live
<1>2. ASSUME NEW s \in Starts, ReadTree(s) PROVE CutInv'
  <2>1. s \notin nodes
    BY <1>2 DEF ReadTree, IInv, Planned
  <2>2. \A x \in Starts : x # s => parent'[x] = parent[x]
    BY <1>2, <1>T DEF ReadTree, Plan
  <2>3. \A x \in nodes : ParentOf(x)' = ParentOf(x)
    BY <2>1, <2>2 DEF ParentOf
  <2>4. \A x \in Updates \cup Rollbacks : pc'[x] = pc[x]
    BY <1>2, <1>T DEF ReadTree, Requests
  <2>5. QED
    BY <1>0, <1>2, <2>3, <2>4 DEF ReadTree, statuses, locals, Live
<1>3. ASSUME NEW s \in Starts, AddNode(s) PROVE CutInv'
  <2>1. s \notin nodes
    BY <1>3 DEF AddNode, IInv, Planned
  <2>2. \A x \in nodes : status'[x] = status[x] /\ ParentOf(x)' = ParentOf(x)
    BY <1>3, <1>T, <2>1 DEF AddNode, ParentOf
  <2>3. \A x \in Updates \cup Rollbacks : pc'[x] = pc[x]
    BY <1>3, <1>T DEF AddNode, Requests
  <2>4. QED
    BY <1>0, <1>3, <2>2, <2>3 DEF AddNode, locals, Live
<1>4. ASSUME NEW s \in Starts, AddStep(s) PROVE CutInv'
  <2>1. \A x \in Updates \cup Rollbacks : pc'[x] = pc[x]
    BY <1>4, <1>T DEF AddStep, Requests
  <2>2. QED
    BY <1>0, <1>4, <2>1 DEF AddStep, tree, locals, ParentOf, Live
<1>5. ASSUME NEW x \in Requests, Die(x) PROVE CutInv'
  <2>1. \A y \in Requests : pc'[y] = pc[y] \/ (Live(y) /\ pc'[y] = "dead")
    BY <1>5, <1>T DEF Die
  <2>2. /\ \A u \in Updates : Live(u)' => Live(u)
        /\ \A r \in Rollbacks : pc'[r] = pc[r] \/ (pc[r] # "idle" /\ pc'[r] = "dead")
    BY <2>1 DEF Live, Requests
  <2>3. QED
    BY <1>0, <1>5, <2>2 DEF Die, tree, statuses, locals, ParentOf
<1>6. CASE UNCHANGED vars
  BY <1>0, <1>6 DEF vars, tree, locals, ParentOf, Live
\* An update begins on a step that no rollback is about.
<1>7. ASSUME NEW u \in Updates, ReadNode(u), UNCHANGED <<tree, statuses, todo>>,
             NEW stage, pc' = [pc EXCEPT ![u] = stage]
      PROVE  CutInv'
  <2>1. PICK x \in Known : MayUpdate(x) /\ target' = [target EXCEPT ![u] = x]
    BY <1>7 DEF ReadNode
  <2>2. \A r \in Rollbacks : pc'[r] = pc[r] /\ target'[r] = target[r]
    BY <1>7, <2>1, <1>T DEF Requests
  <2>3. \A r \in Rollbacks : pc[r] # "idle" => x # target[r]
    <3> SUFFICES ASSUME NEW r \in Rollbacks, pc[r] # "idle", x = target[r] PROVE FALSE
      OBVIOUS
    <3>1. x \in Branch(target[r])
      BY <1>K, OwnBranch
    <3>2. Undone(x)
      BY <3>1 DEF Undone
    <3>3. QED
      BY <2>1, <3>2 DEF MayUpdate
  <2>4. \A v \in Updates : Live(v)' /\ v # u => Live(v) /\ target'[v] = target[v]
    BY <1>7, <2>1, <1>T DEF Live, Requests
  <2>5. target'[u] = x
    BY <2>1, <1>T
  <2>6. \A r \in Rollbacks : pc'[r] # "idle" =>
          /\ target'[r] \in nodes'
          /\ \A v \in Updates : Live(v)' => target'[v] # target'[r]
    BY <1>7, <2>2, <2>3, <2>4, <2>5 DEF CutInv, tree
  <2>7. \A y : ParentOf(y)' = ParentOf(y)
    BY <1>7 DEF tree, ParentOf
  <2>8. QED
    BY <1>7, <2>2, <2>6, <2>7 DEF CutInv, tree, statuses
\* An update writes the row of a step that no rollback is about.
<1>8. ASSUME NEW u \in Updates, Live(u), NEW st,
             status' = [status EXCEPT ![target[u]] = st] \/ status' = status,
             UNCHANGED <<tree, cut, target, todo>>,
             NEW stage, pc' = [pc EXCEPT ![u] = stage]
      PROVE  CutInv'
  <2>1. \A x \in cut : x # target[u]
    BY <1>8 DEF CutInv
  <2>2. \A x \in cut : x \in Nodes /\ status'[x] = status[x]
    BY <1>8, <1>T, <2>1 DEF CutInv
  <2>3. \A r \in Rollbacks : pc'[r] = pc[r]
    BY <1>8, <1>T DEF Requests
  <2>4. \A v \in Updates : Live(v)' => Live(v)
    BY <1>8, <1>T DEF Live, Requests
  <2>5. \A y : ParentOf(y)' = ParentOf(y)
    BY <1>8 DEF tree, ParentOf
  <2>6. QED
    BY <1>8, <2>2, <2>3, <2>4, <2>5 DEF CutInv, tree
<1>9. ASSUME NEW w \in Writes, BeginWrite(w) \/ WriteNode(w) PROVE CutInv'
  <2>1. CASE BeginWrite(w)
    BY <1>7, <2>1 DEF BeginWrite, Updates
  <2>2. CASE WriteNode(w)
    BY <1>8, <2>2 DEF WriteNode, Updates, Live, locals
  <2>3. QED
    BY <1>9, <2>1, <2>2
<1>10. ASSUME NEW f \in Finishes, BeginFinish(f) \/ FinishStepRow(f) \/ FinishNode(f) PROVE CutInv'
  <2>1. CASE BeginFinish(f)
    BY <1>7, <2>1 DEF BeginFinish, Updates
  <2>2. CASE FinishStepRow(f)
    BY <1>8, <2>2 DEF FinishStepRow, Updates, Live, locals
  <2>3. CASE FinishNode(f)
    BY <1>8, <2>3 DEF FinishNode, Updates, Live, locals
  <2>4. QED
    BY <1>10, <2>1, <2>2, <2>3
<1>11. ASSUME NEW r \in Rollbacks,
              BeginRollback(r) \/ ListBranch(r) \/ RollBackNode(r) \/ RollBackStep(r)
       PROVE  CutInv'
  <2>P. /\ tree' = tree /\ nodes' = nodes /\ \A y : ParentOf(y)' = ParentOf(y)
    BY <1>11 DEF BeginRollback, ListBranch, RollBackNode, RollBackStep, tree, ParentOf
  <2>O. \A x \in Requests : x # r => pc'[x] = pc[x]
    BY <1>11, <1>T DEF BeginRollback, ListBranch, RollBackNode, RollBackStep
  <2>U. \A u \in Updates : Live(u)' <=> Live(u)
    BY <2>O DEF Live, Requests
  <2>1. CASE BeginRollback(r)
    <3>1. PICK x \in Known : MayRollBack(x) /\ target' = [target EXCEPT ![r] = x]
      BY <2>1 DEF BeginRollback
    <3>2. target'[r] = x /\ \A y \in Updates \cup Rollbacks : y # r => target'[y] = target[y]
      BY <3>1, <1>T
    <3>3. \A u \in Updates : Live(u) => target[u] # x
      BY <1>K, <3>1, OwnBranch DEF MayRollBack
    <3>4. pc[r] = "idle" /\ pc'[r] = "list" /\ UNCHANGED <<statuses, todo>>
      BY <2>1, <1>T DEF BeginRollback, Requests
    <3>5. \A y \in cut' : /\ y \in nodes' /\ status'[y] = "rolled_back"
                          /\ \E c \in Rollbacks : pc'[c] # "idle" /\ target'[c] = y
      BY <2>P, <2>O, <3>2, <3>4 DEF CutInv, statuses, Requests
    <3>6. \A c \in Rollbacks : pc'[c] # "idle" =>
            /\ target'[c] \in nodes'
            /\ \A u \in Updates : Live(u)' => target'[u] # target'[c]
      BY <1>K, <2>P, <2>O, <2>U, <3>2, <3>3 DEF CutInv, Requests
    <3>7. QED
      BY <2>P, <2>O, <3>2, <3>4, <3>5, <3>6 DEF CutInv, statuses, Requests
  <2>2. CASE ListBranch(r)
    <3>1. /\ pc[r] = "list" /\ pc'[r] = "node" /\ UNCHANGED <<statuses, target>>
          /\ todo'[r] = Branch(target[r]) /\ \A c \in Rollbacks : c # r => todo'[c] = todo[c]
      BY <2>2, <1>T DEF ListBranch, Requests
    <3>2. target[r] \in nodes
      BY <3>1 DEF CutInv
    <3>3. /\ target[r] \in todo'[r] /\ todo'[r] \subseteq nodes
          /\ \A x \in todo'[r] : x # target[r] => ParentOf(x) \in todo'[r]
      BY <3>1, <3>2, OwnBranch, BranchConnected, InBranch
    <3>4. QED
      BY <2>P, <2>O, <2>U, <3>1, <3>3 DEF CutInv, statuses, Requests
  <2>3. CASE RollBackNode(r)
    <3>1. PICK x \in NextMark(r) : /\ status' = [status EXCEPT ![x] = "rolled_back"]
                                  /\ todo' = [todo EXCEPT ![r] = @ \ {x}]
      BY <2>3 DEF RollBackNode
    <3>2. pc[r] = "node" /\ pc'[r] = "step" /\ cut' = cut \cup {target[r]} /\ UNCHANGED target
      BY <2>3, <1>T DEF RollBackNode, Requests
    <3>3. target[r] \in cut \/ x = target[r]
      BY <3>1, <3>2 DEF CutInv, NextMark
    <3>4. x \in Nodes /\ status'[x] = "rolled_back"
          /\ \A y \in Nodes : y # x => status'[y] = status[y]
      BY <3>1, <1>T DEF NextMark
    <3>5. \A y \in cut' : /\ y \in nodes' /\ status'[y] = "rolled_back"
                          /\ \E c \in Rollbacks : pc'[c] # "idle" /\ target'[c] = y
      <4>1. ASSUME NEW y \in cut
            PROVE  /\ y \in nodes' /\ status'[y] = "rolled_back"
                   /\ \E c \in Rollbacks : pc'[c] # "idle" /\ target'[c] = y
        BY <1>T, <2>P, <2>O, <3>2, <3>4, <4>1 DEF CutInv, Requests
      <4>2. target[r] \in nodes'
        BY <2>P, <3>2 DEF CutInv
      <4>3. QED
        BY <3>2, <3>3, <3>4, <4>1, <4>2
    <3>6. \A c \in Rollbacks : todo'[c] \subseteq todo[c] /\ (c # r => todo'[c] = todo[c])
      BY <3>1, <1>T
    <3>7. QED
      BY <2>P, <2>O, <2>U, <3>2, <3>5, <3>6 DEF CutInv, Requests
  <2>4. CASE RollBackStep(r)
    <3>1. pc[r] = "step" /\ pc'[r] \in {"done", "node"} /\ UNCHANGED <<status, cut, target, todo>>
      BY <2>4, <1>T DEF RollBackStep, Requests, locals
    <3>2. QED
      BY <2>P, <2>O, <2>U, <3>1 DEF CutInv, Requests
  <2>5. QED
    BY <1>11, <2>1, <2>2, <2>3, <2>4
<1>12. QED
  BY <1>1, <1>2, <1>3, <1>4, <1>5, <1>6, <1>9, <1>10, <1>11 DEF Next

\* From its first write on, a rollback keeps its whole branch off the active
\* path, whoever dies and whatever is started below it, provided that no
\* write or finish of a step overlaps or follows a rollback of its branch.
THEOREM RolledBackStaysOff ==
  ASSUME "update" \in Careful
  PROVE  Spec => []RolledBackOffPath
<1>1. IInv /\ CutInv => RolledBackOffPath
  <2> SUFFICES ASSUME CutInv, NEW x \in cut, NEW y \in Branch(x), y \in ActivePath
               PROVE  FALSE
    BY DEF RolledBackOffPath
  <2>1. x \in Dead
    BY DEF CutInv, Dead
  <2>2. x \in Lineage(y)
    BY BranchLineage DEF CutInv
  <2>3. QED
    BY <2>1, <2>2 DEF ActivePath
<1>2. QED
  BY InitIInv, NextIInv, InitCut, NextCut, <1>1, PTL DEF Spec

-----------------------------------------------------------------------------
(* A branch that is being rolled back, or was, does not grow any more and  *)
(* nobody but rollbacks writes to it, given careful clients.  So what a    *)
(* rollback has marked stays marked.                                       *)

LEMMA BranchClosed ==
  ASSUME NEW n \in nodes
  PROVE  /\ Branch(n) \subseteq nodes
         /\ \A y \in nodes : ParentOf(y) \in Branch(n) => y \in Branch(n)
<1>1. Branch(n) \subseteq nodes
  BY InBranch
<1>2. ASSUME NEW y \in nodes, ParentOf(y) \in Branch(n)
      PROVE  y \in Branch(n)
  <2> SUFFICES ASSUME NEW S \in SUBSET nodes, n \in S, HoldsChildren(S)
               PROVE  y \in S
    BY InBranch
  <2>1. ParentOf(y) \in S
    BY <1>2, InBranch
  <2>2. QED
    BY <2>1 DEF HoldsChildren
<1>3. QED
  BY <1>1, <1>2

\* Whoever has the node above itself is in the branch of the node.
LEMMA LineageBranch ==
  ASSUME NEW y \in nodes, NEW x \in Lineage(y)
  PROVE  y \in Branch(x)
<1> SUFFICES ASSUME NEW S \in SUBSET nodes, x \in S, HoldsChildren(S), y \notin S
             PROVE  FALSE
  BY InBranch
<1> DEFINE C == nodes \ S
<1>1. y \in C /\ C \in SUBSET nodes
  OBVIOUS
<1>2. HoldsParents(C)
  BY DEF HoldsChildren, HoldsParents
<1>3. x \in C
  BY <1>1, <1>2, InLineage
<1>4. QED
  BY <1>3

LEMMA TreeGrows ==
  ASSUME IInv, [Next]_vars
  PROVE  /\ nodes \subseteq nodes'
         /\ \A y \in nodes : ParentOf(y)' = ParentOf(y)
         /\ nodes # {} => \A y \in nodes' \ nodes :
              y \in Starts /\ pc[y] = "node" /\ ParentOf(y)' = parent[y]
<1> USE TreeConstants
<1>1. CASE StartRun
  BY <1>1 DEF StartRun
<1>2. ASSUME NEW s \in Starts, ReadTree(s)
      PROVE  nodes' = nodes /\ \A y \in nodes : ParentOf(y)' = ParentOf(y)
  <2>1. s \notin nodes
    BY <1>2 DEF ReadTree, IInv, Planned
  <2>2. parent \in [Starts -> Nodes \cup {NoNode}]
    BY DEF IInv, Typed, TypeOK
  <2>3. \A y \in Starts : y # s => parent'[y] = parent[y]
    BY <1>2, <2>2 DEF ReadTree, Plan
  <2>4. QED
    BY <1>2, <2>1, <2>3 DEF ReadTree, ParentOf
<1>3. ASSUME NEW s \in Starts, AddNode(s)
      PROVE  nodes' = nodes \cup {s} /\ parent' = parent /\ pc[s] = "node"
  BY <1>3 DEF AddNode
<1>4. CASE \/ \E s \in Starts : AddStep(s)
           \/ \E w \in Writes : BeginWrite(w) \/ WriteNode(w)
           \/ \E f \in Finishes : BeginFinish(f) \/ FinishStepRow(f) \/ FinishNode(f)
           \/ \E r \in Rollbacks :
                BeginRollback(r) \/ ListBranch(r) \/ RollBackNode(r) \/ RollBackStep(r)
           \/ \E x \in Requests : Die(x)
           \/ UNCHANGED vars
  <2>1. tree' = tree
    BY <1>4 DEF AddStep, BeginWrite, WriteNode, BeginFinish, FinishStepRow, FinishNode,
       BeginRollback, ListBranch, RollBackNode, RollBackStep, Die, vars
  <2>2. QED
    BY <2>1 DEF tree, ParentOf
<1>5. CASE \E s \in Starts : ReadTree(s)
  BY <1>2, <1>5
<1>6. CASE \E s \in Starts : AddNode(s)
  BY <1>3, <1>6 DEF ParentOf
<1>7. QED
  BY <1>1, <1>4, <1>5, <1>6 DEF Next

Marked(r, x) ==
  \/ pc[r] # "done" /\ x \in todo[r]
  \/ /\ status[x] = "rolled_back"
     /\ \/ pc[r] = "step" /\ x = at[r]
        \/ x \in steps => stepStatus[x] = "rolled_back"

\* Nobody is at work below the target of a rollback.
Outside(r) ==
  /\ target[r] \in Known
  /\ \A u \in Updates : Live(u) => target[u] \notin Branch(target[r])
  /\ \A s \in Starts : Live(s) => parent[s] \notin Branch(target[r])

Marking(r) ==
  /\ pc[r] \in {"node", "step"} => todo[r] \subseteq Branch(target[r])
  /\ pc[r] = "step" => at[r] \in Branch(target[r])
  /\ pc[r] \in {"node", "step", "done"} => \A x \in Branch(target[r]) : Marked(r, x)

RollInv == \A r \in Rollbacks : pc[r] # "idle" => Outside(r) /\ Marking(r)

LEMMA InitRoll == Init => RollInv
  BY DEF Init, RollInv, Requests

LEMMA KnownNodes == ASSUME IInv PROVE Known \subseteq Starts /\ Known \subseteq nodes
  BY DEF Known, IInv, Planned

\* The steps of a branch that is rolled back have all been started.
LEMMA Started ==
  ASSUME IInv, NEW r \in Rollbacks, Outside(r), NEW x \in Branch(target[r])
  PROVE  x \in Starts /\ x \in nodes /\ ~Live(x)
<1>1. target[r] \in Starts /\ target[r] \in nodes
  BY KnownNodes DEF Outside
<1>2. x \in nodes
  BY <1>1, BranchClosed
<1>3. CASE x = target[r]
  BY <1>1, <1>3 DEF Outside, Known, Live
<1>4. CASE x # target[r]
  <2>1. ParentOf(x) \in Branch(target[r]) /\ ParentOf(x) \in nodes
    BY <1>1, <1>4, BranchConnected, BranchClosed
  <2>2. nodes \subseteq Nodes
    BY DEF IInv, Typed, TypeOK
  <2>3. x \in Starts /\ ParentOf(x) = parent[x]
    BY <2>1, <2>2, TreeConstants DEF ParentOf
  <2>4. QED
    BY <1>2, <2>1, <2>3 DEF Outside
<1>5. QED
  BY <1>3, <1>4

LEMMA BranchFrozen ==
  ASSUME IInv, [Next]_vars, NEW r \in Rollbacks, Outside(r), NEW n, n = target[r]
  PROVE  Branch(n)' = Branch(n)
<1>1. n \in nodes /\ nodes # {}
  BY KnownNodes DEF Outside
<1>2. ASSUME NEW x \in Branch(n)
      PROVE  x \in Branch(n)'
  <2>1. x \in nodes'
    BY <1>1, <1>2, BranchClosed, TreeGrows
  <2>2. ASSUME NEW S \in SUBSET nodes', n \in S, HoldsChildren(S)'
        PROVE  x \in S
    <3> DEFINE T == S \cap nodes
    <3>1. HoldsChildren(T)
      <4> SUFFICES ASSUME NEW y \in nodes, ParentOf(y) \in T PROVE y \in T
        BY DEF HoldsChildren
      <4>1. y \in nodes' /\ ParentOf(y)' \in S
        BY TreeGrows
      <4>2. QED
        BY <2>2, <4>1 DEF HoldsChildren
    <3>2. T \in SUBSET nodes /\ n \in T
      BY <1>1, <2>2
    <3>3. QED
      BY <1>2, <3>1, <3>2, InBranch
  <2>3. QED
    BY <2>1, <2>2 DEF Branch, HoldsChildren
<1>3. ASSUME NEW x \in Branch(n)'
      PROVE  x \in Branch(n)
  <2>1. Branch(n) \in SUBSET nodes' /\ n \in Branch(n)
    BY <1>1, BranchClosed, OwnBranch, TreeGrows
  <2>2. ASSUME NEW y \in nodes', ParentOf(y)' \in Branch(n)
        PROVE  y \in Branch(n)
    <3>1. CASE y \in nodes
      BY <1>1, <2>2, <3>1, BranchClosed, TreeGrows
    <3>2. CASE y \notin nodes
      <4>1. y \in Starts /\ Live(y) /\ parent[y] \in Branch(n)
        BY <1>1, <2>2, <3>2, TreeGrows DEF Live
      <4>2. QED
        BY <4>1 DEF Outside
    <3>3. QED
      BY <3>1, <3>2
  <2>3. QED
    BY <1>3, <2>1, <2>2 DEF Branch
<1>4. Branch(n) \subseteq nodes /\ Branch(n)' \subseteq nodes'
  BY <1>1, BranchClosed DEF Branch
<1>5. QED
  BY <1>2, <1>3, <1>4

\* In such a branch rows are only ever marked.
LEMMA OnlyMarks ==
  ASSUME IInv, RollInv, [Next]_vars, NEW r \in Rollbacks, pc[r] # "idle",
         NEW x \in Branch(target[r])
  PROVE  /\ status'[x] \in {status[x], "rolled_back"}
         /\ stepStatus'[x] \in {stepStatus[x], "rolled_back"}
         /\ x \in steps' => x \in steps
<1> USE TreeConstants
<1>T. /\ status \in [Nodes -> NodeStatus] /\ stepStatus \in [Starts -> StepStatus]
      /\ nodes \subseteq Nodes /\ steps \subseteq Starts
  BY DEF IInv, Typed, TypeOK
<1>O. Outside(r)
  BY DEF RollInv
<1>X. x \in Starts /\ x \in nodes /\ x \in Nodes /\ ~Live(x)
  BY <1>O, <1>T, Started
<1>U. \A u \in Updates : Live(u) => target[u] # x
  BY <1>O DEF Outside
<1>1. ASSUME NEW s \in Starts, AddNode(s)
      PROVE  status'[x] = status[x] /\ UNCHANGED <<stepStatus, steps>>
  <2>1. s # x
    BY <1>1, <1>X DEF AddNode, Live
  <2>2. QED
    BY <1>1, <1>T, <1>X, <2>1 DEF AddNode
<1>2. ASSUME NEW s \in Starts, AddStep(s)
      PROVE  status' = status /\ stepStatus'[x] = stepStatus[x] /\ (x \in steps' => x \in steps)
  <2>1. s # x
    BY <1>2, <1>X DEF AddStep, Live
  <2>2. QED
    BY <1>2, <1>T, <1>X, <2>1 DEF AddStep
<1>3. ASSUME NEW w \in Writes, WriteNode(w)
      PROVE  status'[x] = status[x] /\ UNCHANGED <<stepStatus, steps>>
  <2>1. target[w] # x
    BY <1>3, <1>U DEF WriteNode, Live, Updates
  <2>2. QED
    BY <1>3, <1>T, <1>X, <2>1 DEF WriteNode
<1>4. ASSUME NEW f \in Finishes, FinishStepRow(f)
      PROVE  status' = status /\ stepStatus'[x] = stepStatus[x] /\ steps' = steps
  <2>1. target[f] # x
    BY <1>4, <1>U DEF FinishStepRow, Live, Updates
  <2>2. QED
    BY <1>4, <1>T, <1>X, <2>1 DEF FinishStepRow
<1>5. ASSUME NEW f \in Finishes, FinishNode(f)
      PROVE  status'[x] = status[x] /\ UNCHANGED <<stepStatus, steps>>
  <2>1. target[f] # x
    BY <1>5, <1>U DEF FinishNode, Live, Updates
  <2>2. QED
    BY <1>5, <1>T, <1>X, <2>1 DEF FinishNode
<1>6. ASSUME NEW q \in Rollbacks, RollBackNode(q)
      PROVE  status'[x] \in {status[x], "rolled_back"} /\ UNCHANGED <<stepStatus, steps>>
  BY <1>6, <1>T, <1>X DEF RollBackNode
<1>7. ASSUME NEW q \in Rollbacks, RollBackStep(q)
      PROVE  stepStatus'[x] \in {stepStatus[x], "rolled_back"} /\ UNCHANGED <<status, steps>>
  BY <1>7, <1>T, <1>X DEF RollBackStep
<1>8. CASE \/ StartRun
           \/ \E s \in Starts : ReadTree(s)
           \/ \E w \in Writes : BeginWrite(w)
           \/ \E f \in Finishes : BeginFinish(f)
           \/ \E q \in Rollbacks : BeginRollback(q) \/ ListBranch(q)
           \/ \E y \in Requests : Die(y)
           \/ UNCHANGED vars
  <2>1. UNCHANGED <<status, stepStatus, steps>>
    BY <1>8 DEF StartRun, ReadTree, BeginWrite, BeginFinish, BeginRollback, ListBranch, Die,
       vars, statuses
  <2>2. QED
    BY <2>1
<1>9. CASE \E s \in Starts : AddNode(s) \/ AddStep(s)
  BY <1>1, <1>2, <1>9
<1>10. CASE \/ \E w \in Writes : WriteNode(w)
            \/ \E f \in Finishes : FinishStepRow(f) \/ FinishNode(f)
  BY <1>3, <1>4, <1>5, <1>10
<1>11. CASE \E q \in Rollbacks : RollBackNode(q) \/ RollBackStep(q)
  BY <1>6, <1>7, <1>11
<1>12. QED
  BY <1>8, <1>9, <1>10, <1>11 DEF Next

\* Known steps stay known.
LEMMA KnownGrows ==
  ASSUME IInv, [Next]_vars, NEW x \in Known
  PROVE  x \in Known'
<1> USE TreeConstants
<1>1. x \in Starts /\ pc[x] = "done" /\ pc \in [Requests -> {"idle", "list", "node", "step", "done", "dead"}]
  BY DEF Known, IInv, Typed, TypeOK
<1>2. pc'[x] = "done"
  BY <1>1 DEF Next, StartRun, ReadTree, AddNode, AddStep, BeginWrite, WriteNode, BeginFinish,
     FinishStepRow, FinishNode, BeginRollback, ListBranch, RollBackNode, RollBackStep, Die, Live,
     vars, locals, Requests, Updates
<1>3. QED
  BY <1>1, <1>2 DEF Known

\* Who begins an update or a start, begins it elsewhere.
LEMMA OutsideKept ==
  ASSUME {"update", "start"} \subseteq Careful, IInv, [Next]_vars,
         NEW r \in Rollbacks, pc[r] # "idle", Outside(r)
  PROVE  target'[r] = target[r] /\ Outside(r)'
<1> USE TreeConstants
<1>T. /\ pc \in [Requests -> {"idle", "list", "node", "step", "done", "dead"}]
      /\ target \in [Updates \cup Rollbacks -> Starts \cup {NoNode}]
      /\ parent \in [Starts -> Nodes \cup {NoNode}]
  BY DEF IInv, Typed, TypeOK
<1>1. target'[r] = target[r]
  <2>1. ASSUME NEW u \in Updates, ReadNode(u) PROVE target'[r] = target[r]
    BY <2>1, <1>T DEF ReadNode
  <2>2. ASSUME NEW q \in Rollbacks, BeginRollback(q) PROVE target'[r] = target[r]
    BY <2>2, <1>T DEF BeginRollback
  <2>3. CASE \/ \E w \in Writes : BeginWrite(w)
             \/ \E f \in Finishes : BeginFinish(f)
             \/ \E q \in Rollbacks : BeginRollback(q)
    BY <2>1, <2>2, <2>3 DEF BeginWrite, BeginFinish, Updates
  <2>4. CASE ~(\/ \E w \in Writes : BeginWrite(w)
               \/ \E f \in Finishes : BeginFinish(f)
               \/ \E q \in Rollbacks : BeginRollback(q))
    <3>1. target' = target
      BY <2>4 DEF Next, StartRun, ReadTree, AddNode, AddStep, WriteNode,
         FinishStepRow, FinishNode, ListBranch, RollBackNode, RollBackStep, Die, vars, locals
    <3>2. QED
      BY <3>1
  <2>5. QED
    BY <2>3, <2>4
<1>2. target'[r] \in Known'
  BY <1>1, KnownGrows DEF Outside
<1>n. PICK n : n = target[r]
  OBVIOUS
<1>3. Branch(n)' = Branch(n)
  BY <1>n, BranchFrozen
<1>4. Branch(target[r])' = Branch(n)
  BY <1>n, <1>1, <1>3 DEF Branch
<1>5. ASSUME NEW u \in Updates, Live(u)'
      PROVE  target'[u] \notin Branch(n)
  <2>1. ASSUME ReadNode(u)
        PROVE  target'[u] \notin Branch(n)
    <3>1. PICK x \in Known : MayUpdate(x) /\ target'[u] = x
      BY <2>1, <1>T DEF ReadNode
    <3>2. ~Undone(x)
      BY <3>1 DEF MayUpdate
    <3>3. QED
      BY <1>n, <3>1, <3>2 DEF Undone
  <2>2. ASSUME ~ReadNode(u)
        PROVE  Live(u) /\ target'[u] = target[u]
    <3>1. ASSUME NEW v \in Updates, ReadNode(v), NEW stage, pc' = [pc EXCEPT ![v] = stage]
          PROVE  Live(u) /\ target'[u] = target[u]
      <4>1. v # u
        BY <2>2, <3>1
      <4>2. target'[u] = target[u]
        BY <3>1, <4>1, <1>T DEF ReadNode
      <4>3. pc'[u] = pc[u]
        BY <3>1, <4>1, <1>T DEF Requests
      <4>4. QED
        BY <1>5, <4>2, <4>3 DEF Live
    <3>2. CASE \/ \E w \in Writes : BeginWrite(w)
               \/ \E f \in Finishes : BeginFinish(f)
      BY <3>1, <3>2 DEF BeginWrite, BeginFinish, Updates
    <3>3. ASSUME NEW q \in Rollbacks, BeginRollback(q)
          PROVE  Live(u) /\ target'[u] = target[u]
      BY <1>5, <3>3, <1>T DEF BeginRollback, Live, Requests
    <3>4. CASE ~(\/ \E w \in Writes : BeginWrite(w)
                 \/ \E f \in Finishes : BeginFinish(f)
                 \/ \E q \in Rollbacks : BeginRollback(q))
      BY <1>5, <3>4, <1>T DEF Next, StartRun, ReadTree, AddNode, AddStep, WriteNode,
         FinishStepRow, FinishNode, ListBranch, RollBackNode, RollBackStep, Die,
         Live, Updates, Requests, vars, locals
    <3>5. QED
      BY <3>2, <3>3, <3>4
  <2>3. QED
    BY <1>n, <2>1, <2>2 DEF Outside
<1>6. ASSUME NEW s \in Starts, Live(s)'
      PROVE  parent'[s] \notin Branch(n)
  <2>1. ASSUME ReadTree(s)
        PROVE  parent'[s] \notin Branch(n)
    <3>1. PICK p : MayStart(p) /\ parent'[s] = p
      BY <2>1, <1>T DEF ReadTree, Plan
    <3>2. ~Undone(p)
      BY <3>1 DEF MayStart
    <3>3. QED
      BY <1>n, <3>1, <3>2 DEF Undone
  <2>2. ASSUME ~ReadTree(s)
        PROVE  Live(s) /\ parent'[s] = parent[s]
    BY <1>6, <2>2, <1>T DEF Next, StartRun, ReadTree, Plan, AddNode, AddStep, BeginWrite, WriteNode,
       BeginFinish, FinishStepRow, FinishNode, BeginRollback, ListBranch, RollBackNode,
       RollBackStep, Die, Live, Updates, Requests, vars, tree
  <2>3. QED
    BY <1>n, <2>1, <2>2 DEF Outside
<1>7. QED
  BY <1>1, <1>2, <1>4, <1>5, <1>6 DEF Outside

\* A step of a rollback marks what it takes off its list.
LEMMA MarkingKept ==
  ASSUME {"update", "start"} \subseteq Careful, IInv, RollInv, [Next]_vars,
         NEW r \in Rollbacks, pc[r] # "idle"
  PROVE  Marking(r)'
<1> USE TreeConstants
<1>T. /\ pc \in [Requests -> {"idle", "list", "node", "step", "done", "dead"}]
      /\ status \in [Nodes -> NodeStatus] /\ stepStatus \in [Starts -> StepStatus]
      /\ todo \in [Rollbacks -> SUBSET Nodes] /\ at \in [Rollbacks -> Nodes \cup {NoNode}]
  BY DEF IInv, Typed, TypeOK
<1>O. Outside(r) /\ Marking(r)
  BY DEF RollInv
<1>n. PICK n : n = target[r]
  OBVIOUS
<1>1. Branch(n)' = Branch(n) /\ target'[r] = n
  BY <1>n, <1>O, BranchFrozen, OutsideKept
<1>2. Branch(target[r])' = Branch(n)
  BY <1>1 DEF Branch
<1>3. \A x \in Branch(n) : /\ x \in Starts /\ x \in Nodes
                           /\ status'[x] \in {status[x], "rolled_back"}
                           /\ stepStatus'[x] \in {stepStatus[x], "rolled_back"}
                           /\ x \in steps' => x \in steps
  <2>1. nodes \subseteq Nodes
    BY DEF IInv, Typed, TypeOK
  <2>2. QED
    BY <1>n, <1>O, <2>1, Started, OnlyMarks
<1>4. CASE ListBranch(r)
  <2>1. pc'[r] = "node" /\ todo'[r] = Branch(n)
    BY <1>4, <1>n, <1>T DEF ListBranch, Requests
  <2>2. QED
    BY <1>2, <2>1 DEF Marking, Marked
<1>5. CASE RollBackNode(r)
  <2>1. PICK x \in todo[r] : /\ status' = [status EXCEPT ![x] = "rolled_back"]
                             /\ todo'[r] = todo[r] \ {x} /\ at'[r] = x
    BY <1>5, <1>T DEF RollBackNode, NextMark
  <2>2. pc[r] = "node" /\ pc'[r] = "step"
    BY <1>5, <1>T DEF RollBackNode, Requests
  <2>3. x \in Branch(n) /\ todo[r] \subseteq Branch(n) /\ status'[x] = "rolled_back"
    BY <1>n, <1>O, <1>T, <2>1, <2>2, <1>3 DEF Marking
  <2>4. ASSUME NEW y \in Branch(n)
        PROVE  Marked(r, y)'
    <3>1. Marked(r, y)
      BY <1>n, <1>O, <2>2 DEF Marking
    <3>2. CASE y \in todo[r]
      BY <2>1, <2>2, <2>3, <3>2 DEF Marked
    <3>3. CASE y \notin todo[r]
      <4>1. status[y] = "rolled_back" /\ (y \in steps => stepStatus[y] = "rolled_back")
        BY <2>2, <3>1, <3>3 DEF Marked
      <4>2. QED
        BY <1>3, <4>1 DEF Marked
    <3>4. QED
      BY <3>2, <3>3
  <2>5. QED
    BY <1>2, <2>1, <2>2, <2>3, <2>4 DEF Marking
<1>6. CASE RollBackStep(r)
  <2>1. /\ pc[r] = "step" /\ pc'[r] = IF todo[r] = {} THEN "done" ELSE "node"
        /\ todo'[r] = todo[r] /\ at[r] \in Branch(n) /\ todo[r] \subseteq Branch(n)
    BY <1>6, <1>n, <1>O, <1>T DEF RollBackStep, Requests, Marking, locals
  <2>2. at[r] \in steps => stepStatus'[at[r]] = "rolled_back"
    BY <1>6, <1>T, <1>3, <2>1 DEF RollBackStep
  <2>3. ASSUME NEW y \in Branch(n)
        PROVE  Marked(r, y)'
    <3>1. Marked(r, y)
      BY <1>n, <1>O, <2>1 DEF Marking
    <3>2. CASE y \in todo[r]
      BY <2>1, <3>2 DEF Marked
    <3>3. CASE y \notin todo[r]
      <4>1. status[y] = "rolled_back"
            /\ (y = at[r] \/ (y \in steps => stepStatus[y] = "rolled_back"))
        BY <3>1, <3>3 DEF Marked
      <4>2. status'[y] = "rolled_back" /\ (y \in steps' => stepStatus'[y] = "rolled_back")
        BY <1>3, <2>2, <4>1
      <4>3. QED
        BY <4>2 DEF Marked
    <3>4. QED
      BY <3>2, <3>3
  <2>4. QED
    BY <1>2, <2>1, <2>3 DEF Marking
<1>7. CASE Die(r)
  BY <1>7, <1>T DEF Die, Marking, Requests
<1>8. CASE ~(ListBranch(r) \/ RollBackNode(r) \/ RollBackStep(r) \/ Die(r))
  <2>1. pc'[r] = pc[r] /\ todo'[r] = todo[r] /\ at'[r] = at[r]
    <3>1. ASSUME NEW q \in Rollbacks,
                 BeginRollback(q) \/ ListBranch(q) \/ RollBackNode(q) \/ RollBackStep(q)
          PROVE  pc'[r] = pc[r] /\ todo'[r] = todo[r] /\ at'[r] = at[r]
      <4>1. q # r
        BY <1>8, <3>1 DEF BeginRollback
      <4>2. CASE BeginRollback(q)
        BY <4>1, <4>2, <1>T DEF BeginRollback, Requests
      <4>3. CASE ListBranch(q)
        BY <4>1, <4>3, <1>T DEF ListBranch, Requests
      <4>4. CASE RollBackNode(q)
        BY <4>1, <4>4, <1>T DEF RollBackNode, Requests
      <4>5. CASE RollBackStep(q)
        BY <4>1, <4>5, <1>T DEF RollBackStep, Requests, locals
      <4>6. QED
        BY <3>1, <4>2, <4>3, <4>4, <4>5
    <3>2. ASSUME NEW y \in Requests, Die(y)
          PROVE  pc'[r] = pc[r] /\ todo'[r] = todo[r] /\ at'[r] = at[r]
      BY <1>8, <3>2, <1>T DEF Die, Requests, locals
    <3>3. CASE ~(\/ \E q \in Rollbacks : \/ BeginRollback(q) \/ ListBranch(q)
                                         \/ RollBackNode(q) \/ RollBackStep(q)
                 \/ \E y \in Requests : Die(y))
      BY <3>3, <1>T DEF Next, StartRun, ReadTree, AddNode, AddStep, BeginWrite, WriteNode,
         BeginFinish, FinishStepRow, FinishNode, Requests, Updates, vars, locals
    <3>4. QED
      BY <3>1, <3>2, <3>3
  <2>2. ASSUME NEW y \in Branch(n), pc[r] \in {"node", "step", "done"}
        PROVE  Marked(r, y)'
    <3>1. Marked(r, y)
      BY <1>n, <1>O, <2>2 DEF Marking
    <3>2. QED
      BY <1>3, <2>1, <3>1 DEF Marked
  <2>3. QED
    BY <1>n, <1>O, <1>2, <2>1, <2>2 DEF Marking
<1>9. QED
  BY <1>4, <1>5, <1>6, <1>7, <1>8

LEMMA NextRoll ==
  ASSUME {"update", "start"} \subseteq Careful
  PROVE  IInv /\ RollInv /\ [Next]_vars => RollInv'
<1> SUFFICES ASSUME IInv, RollInv, [Next]_vars, NEW r \in Rollbacks, pc'[r] # "idle"
             PROVE  Outside(r)' /\ Marking(r)'
  BY DEF RollInv
<1> USE TreeConstants
<1>T. /\ pc \in [Requests -> {"idle", "list", "node", "step", "done", "dead"}]
      /\ target \in [Updates \cup Rollbacks -> Starts \cup {NoNode}]
  BY DEF IInv, Typed, TypeOK
<1>1. CASE pc[r] # "idle"
  BY <1>1, OutsideKept, MarkingKept DEF RollInv
<1>2. CASE pc[r] = "idle"
  <2>1. BeginRollback(r)
    BY <1>2, <1>T DEF Next, StartRun, ReadTree, AddNode, AddStep, BeginWrite, WriteNode,
       BeginFinish, FinishStepRow, FinishNode, BeginRollback, ListBranch, RollBackNode,
       RollBackStep, Die, Live, Requests, Updates, vars, locals
  <2>2. PICK x \in Known : MayRollBack(x) /\ target' = [target EXCEPT ![r] = x]
    BY <2>1 DEF BeginRollback
  <2>3. target'[r] = x /\ pc'[r] = "list" /\ \A y \in Updates : target'[y] = target[y]
    BY <2>1, <2>2, <1>T DEF BeginRollback, Requests
  <2>4. \A y \in Starts \cup Updates : pc'[y] = pc[y]
    BY <2>1, <1>T DEF BeginRollback, Requests
  <2>5. nodes' = nodes /\ parent' = parent
    BY <2>1 DEF BeginRollback, tree
  <2>6. Branch(target[r])' = Branch(x)
    BY <2>3, <2>5 DEF Branch, ParentOf
  <2>7. /\ \A u \in Updates : Live(u) => target[u] \notin Branch(x)
        /\ \A s \in Starts : Live(s) => parent[s] \notin Branch(x)
    BY <2>2 DEF MayRollBack
  <2>8. Outside(r)'
    BY <2>3, <2>4, <2>5, <2>6, <2>7 DEF Outside, Known, Live
  <2>9. QED
    BY <2>3, <2>8 DEF Marking
<1>3. QED
  BY <1>1, <1>2

\* Whatever overlaps and whoever dies, a rollback that returned has marked
\* every node of its branch and every step, for clients that neither write
\* to nor start steps in a branch they have asked to roll back.
THEOREM RolledBackIsMarked ==
  ASSUME {"update", "start"} \subseteq Careful
  PROVE  Spec => []BranchRolledBack
<1>1. IInv /\ RollInv => BranchRolledBack
  <2> SUFFICES ASSUME RollInv, NEW r \in Rollbacks, pc[r] = "done",
                      NEW x \in nodes, target[r] \in Lineage(x)
               PROVE  status[x] = "rolled_back" /\ (x \in steps => stepStatus[x] = "rolled_back")
    BY DEF BranchRolledBack
  <2>1. x \in Branch(target[r])
    BY LineageBranch
  <2>2. QED
    BY <2>1 DEF RollInv, Marking, Marked
<1>2. QED
  BY InitIInv, NextIInv, InitRoll, NextRoll, <1>1, PTL DEF Spec

-----------------------------------------------------------------------------
(* Step and node agree.  An update holds the status its node really has,   *)
(* because it is alone; and while nobody died at the step, the two rows    *)
(* agree before it begins, and it is what sets them apart and joins them.  *)

Agrees(x) ==
  status[x] = IF stepStatus[x] = "cancelled" THEN "rolled_back" ELSE stepStatus[x]
Clean(x) == \A u \in Updates : pc[u] = "dead" => target[u] # x

\* AtWork, by branches.
Updated(x) == \E u \in Updates : pc[u] \notin {"idle", "done"} /\ target[u] = x
Undoing(x) == \E r \in Rollbacks : pc[r] \notin {"idle", "done"} /\ x \in Branch(target[r])
Busy(x) == Updated(x) \/ Undoing(x)

Alone(u) ==
  /\ pc[u] \in {"node", "step"} /\ (u \in Writes => pc[u] = "node")
  /\ target[u] \in Known /\ copy[u] = status[target[u]]
  /\ \A v \in Updates : Live(v) /\ target[v] = target[u] => v = u
  /\ u \in Finishes => verdict[u] \in Verdicts

Honest(u) ==
  IF pc[u] = "node" /\ u \in Finishes THEN stepStatus[target[u]] = verdict[u]
                                       ELSE Agrees(target[u])

AgreeInv ==
  /\ \A s \in Starts : /\ pc[s] = "step" => status[s] = "active"
                       /\ pc[s] = "done" => s \in steps
  /\ \A u \in Updates : Live(u) => Alone(u) /\ (Clean(target[u]) => Honest(u))
  /\ \A x \in Known : ~Busy(x) => Agrees(x)

LEMMA InitAgree == Init => AgreeInv
  BY TreeConstants DEF Init, AgreeInv, Known, Live, Requests, Updates

LEMMA AtWorkIsBusy == IInv /\ RollInv => \A x \in nodes : AtWork(x) <=> Busy(x)
<1> SUFFICES ASSUME IInv, RollInv, NEW x \in nodes
             PROVE  AtWork(x) <=> Busy(x)
  OBVIOUS
<1>1. ASSUME NEW r \in Rollbacks, pc[r] # "idle"
      PROVE  target[r] \in Lineage(x) <=> x \in Branch(target[r])
  <2>1. target[r] \in nodes
    BY <1>1, KnownNodes DEF RollInv, Outside
  <2>2. QED
    BY <2>1, BranchLineage, LineageBranch
<1>2. QED
  BY <1>1 DEF AtWork, Busy, Updated, Undoing

\* Whoever is at work on a step keeps it busy until it is done.
LEMMA UndoingKept ==
  ASSUME {"update", "start"} \subseteq Careful, IInv, RollInv, [Next]_vars,
         NEW r \in Rollbacks, pc[r] \notin {"idle", "done"}, NEW x \in Branch(target[r]),
         pc'[r] \notin {"idle", "done"}
  PROVE  Undoing(x)'
<1>n. PICK n : n = target[r]
  OBVIOUS
<1>1. Branch(n)' = Branch(n) /\ target'[r] = n
  BY <1>n, BranchFrozen, OutsideKept DEF RollInv
<1>2. Branch(target[r])' = Branch(n)
  BY <1>1 DEF Branch
<1>3. QED
  BY <1>n, <1>2 DEF Undoing

\* The step an update is about is left alone by everybody else.
LEMMA UpdatedAlone ==
  ASSUME IInv, RollInv, AgreeInv, [Next]_vars, NEW u \in Updates, Live(u), pc'[u] = pc[u]
  PROVE  /\ target'[u] = target[u] /\ copy'[u] = copy[u]
         /\ u \in Finishes => verdict'[u] = verdict[u]
         /\ status'[target[u]] = status[target[u]]
         /\ stepStatus'[target[u]] = stepStatus[target[u]]
<1> USE TreeConstants
<1>T. /\ pc \in [Requests -> {"idle", "list", "node", "step", "done", "dead"}]
      /\ status \in [Nodes -> NodeStatus] /\ stepStatus \in [Starts -> StepStatus]
      /\ target \in [Updates \cup Rollbacks -> Starts \cup {NoNode}]
      /\ copy \in [Updates -> NodeStatus] /\ verdict \in [Finishes -> StepStatus]
  BY DEF IInv, Typed, TypeOK
<1>A. Alone(u) /\ target[u] \in Starts /\ target[u] \in Nodes /\ target[u] \in nodes
  BY KnownNodes DEF AgreeInv, Alone, Nodes
<1>1. ASSUME NEW v \in Updates, ReadNode(v)
      PROVE  target'[u] = target[u] /\ copy'[u] = copy[u]
  <2>1. v # u
    BY <1>1 DEF ReadNode, Live
  <2>2. QED
    BY <1>1, <2>1, <1>T DEF ReadNode
<1>2. CASE \E w \in Writes : BeginWrite(w)
  BY <1>1, <1>2 DEF BeginWrite, Updates, statuses
<1>3. ASSUME NEW f \in Finishes, BeginFinish(f)
      PROVE  /\ target'[u] = target[u] /\ copy'[u] = copy[u] /\ UNCHANGED statuses
             /\ u \in Finishes => verdict'[u] = verdict[u]
  <2>1. f # u
    BY <1>3 DEF BeginFinish, ReadNode, Live
  <2>2. QED
    BY <1>1, <1>3, <2>1, <1>T DEF BeginFinish, Updates
<1>4. ASSUME NEW v \in Updates, pc[v] \in {"node", "step"}, pc'[v] # pc[v]
      PROVE  target[v] # target[u]
  BY <1>4, <1>A DEF Alone, Live
<1>5. ASSUME NEW w \in Writes, WriteNode(w)
      PROVE  status'[target[u]] = status[target[u]] /\ UNCHANGED <<stepStatus, locals>>
  <2>1. target[w] # target[u]
    BY <1>4, <1>5, <1>T DEF WriteNode, Updates, Requests
  <2>2. QED
    BY <1>5, <2>1, <1>T, <1>A DEF WriteNode
<1>6. ASSUME NEW f \in Finishes, FinishStepRow(f)
      PROVE  stepStatus'[target[u]] = stepStatus[target[u]] /\ UNCHANGED <<status, locals>>
  <2>1. target[f] # target[u]
    BY <1>4, <1>6, <1>T DEF FinishStepRow, Updates, Requests
  <2>2. QED
    BY <1>6, <2>1, <1>T, <1>A DEF FinishStepRow
<1>7. ASSUME NEW f \in Finishes, FinishNode(f)
      PROVE  status'[target[u]] = status[target[u]] /\ UNCHANGED <<stepStatus, locals>>
  <2>1. target[f] # target[u]
    BY <1>4, <1>7, <1>T DEF FinishNode, Updates, Requests
  <2>2. QED
    BY <1>7, <2>1, <1>T, <1>A DEF FinishNode
<1>8. ASSUME NEW s \in Starts, AddNode(s)
      PROVE  status'[target[u]] = status[target[u]] /\ UNCHANGED <<stepStatus, locals>>
  <2>1. s # target[u]
    BY <1>8, <1>A DEF AddNode, IInv, Planned
  <2>2. QED
    BY <1>8, <2>1, <1>T, <1>A DEF AddNode
<1>9. ASSUME NEW s \in Starts, AddStep(s)
      PROVE  stepStatus'[target[u]] = stepStatus[target[u]] /\ UNCHANGED <<status, locals>>
  <2>1. s # target[u]
    BY <1>9, <1>A DEF AddStep, Alone, Known
  <2>2. QED
    BY <1>9, <2>1, <1>T, <1>A DEF AddStep
<1>10. ASSUME NEW r \in Rollbacks, pc[r] # "idle"
       PROVE  target[u] \notin Branch(target[r])
  BY <1>10 DEF RollInv, Outside
<1>11. ASSUME NEW r \in Rollbacks, RollBackNode(r)
       PROVE  /\ status'[target[u]] = status[target[u]]
              /\ UNCHANGED <<stepStatus, target, copy, verdict>>
  <2>1. PICK x \in todo[r] : status' = [status EXCEPT ![x] = "rolled_back"]
    BY <1>11 DEF RollBackNode, NextMark
  <2>2. x # target[u]
    BY <1>10, <1>11, <2>1 DEF RollBackNode, RollInv, Marking
  <2>3. QED
    BY <1>11, <2>1, <2>2, <1>T, <1>A DEF RollBackNode
<1>12. ASSUME NEW r \in Rollbacks, RollBackStep(r)
       PROVE  stepStatus'[target[u]] = stepStatus[target[u]] /\ UNCHANGED <<status, locals>>
  <2>1. at[r] # target[u]
    BY <1>10, <1>12 DEF RollBackStep, RollInv, Marking
  <2>2. QED
    BY <1>12, <2>1, <1>T, <1>A DEF RollBackStep
<1>13. ASSUME NEW r \in Rollbacks, BeginRollback(r)
       PROVE  target'[u] = target[u] /\ UNCHANGED <<statuses, copy, verdict>>
  BY <1>13, <1>T DEF BeginRollback
<1>14. CASE \/ StartRun
            \/ \E s \in Starts : ReadTree(s)
            \/ \E r \in Rollbacks : ListBranch(r)
            \/ \E y \in Requests : Die(y)
            \/ UNCHANGED vars
  BY <1>14 DEF StartRun, ReadTree, ListBranch, Die, vars, statuses, locals
<1>15. CASE \/ \E w \in Writes : WriteNode(w)
            \/ \E f \in Finishes : BeginFinish(f) \/ FinishStepRow(f) \/ FinishNode(f)
  BY <1>3, <1>5, <1>6, <1>7, <1>15 DEF locals, statuses
<1>16. CASE \E s \in Starts : AddNode(s) \/ AddStep(s)
  BY <1>8, <1>9, <1>16 DEF locals
<1>17. CASE \E r \in Rollbacks : BeginRollback(r) \/ RollBackNode(r) \/ RollBackStep(r)
  BY <1>11, <1>12, <1>13, <1>17 DEF locals, statuses
<1>18. QED
  BY <1>2, <1>14, <1>15, <1>16, <1>17 DEF Next

LEMMA StartsAgree ==
  ASSUME IInv, RollInv, AgreeInv, [Next]_vars, NEW s \in Starts
  PROVE  /\ pc'[s] = "step" => status'[s] = "active"
         /\ pc'[s] = "done" => s \in steps'
<1> USE TreeConstants
<1>T. /\ pc \in [Requests -> {"idle", "list", "node", "step", "done", "dead"}]
      /\ status \in [Nodes -> NodeStatus] /\ nodes \subseteq Nodes
  BY DEF IInv, Typed, TypeOK
<1>1. CASE AddNode(s)
  BY <1>1, <1>T DEF AddNode, Nodes, Requests
<1>2. CASE AddStep(s)
  BY <1>2, <1>T DEF AddStep, Requests
<1>3. CASE ~(AddNode(s) \/ AddStep(s))
  <2>1. pc'[s] \in {"step", "done"} => pc'[s] = pc[s]
    BY <1>3, <1>T DEF Next, StartRun, ReadTree, AddNode, AddStep, BeginWrite, WriteNode,
       BeginFinish, FinishStepRow, FinishNode, BeginRollback, ListBranch, RollBackNode,
       RollBackStep, Die, Live, Requests, Updates, vars
  <2>2. steps \subseteq steps'
    BY DEF Next, StartRun, ReadTree, AddNode, AddStep, BeginWrite, WriteNode,
       BeginFinish, FinishStepRow, FinishNode, BeginRollback, ListBranch, RollBackNode,
       RollBackStep, Die, vars
  <2>3. ASSUME pc[s] = "step"
        PROVE  status'[s] = status[s]
    <3>1. s \in Nodes
      BY DEF Nodes
    <3>2. ASSUME NEW x \in Starts, AddNode(x) PROVE status'[s] = status[s]
      BY <1>3, <1>T, <3>1, <3>2 DEF AddNode
    <3>3. ASSUME NEW u \in Updates, Live(u) PROVE target[u] # s
      BY <2>3, <3>3 DEF AgreeInv, Alone, Known
    <3>4. ASSUME NEW w \in Writes, WriteNode(w) PROVE status'[s] = status[s]
      BY <1>T, <3>1, <3>3, <3>4 DEF WriteNode, Live, Updates
    <3>5. ASSUME NEW f \in Finishes, FinishNode(f) PROVE status'[s] = status[s]
      BY <1>T, <3>1, <3>3, <3>5 DEF FinishNode, Live, Updates
    <3>6. ASSUME NEW r \in Rollbacks, RollBackNode(r) PROVE status'[s] = status[s]
      <4>1. PICK x \in todo[r] : status' = [status EXCEPT ![x] = "rolled_back"]
        BY <3>6 DEF RollBackNode, NextMark
      <4>2. x \in Branch(target[r]) /\ Outside(r)
        BY <3>6 DEF RollBackNode, RollInv, Marking
      <4>3. x # s
        BY <2>3, <4>2, Started DEF Live
      <4>4. QED
        BY <1>T, <3>1, <4>1, <4>3
    <3>7. CASE ~(\/ \E x \in Starts : AddNode(x)
                 \/ \E w \in Writes : WriteNode(w)
                 \/ \E f \in Finishes : FinishNode(f)
                 \/ \E r \in Rollbacks : RollBackNode(r))
      BY <3>7 DEF Next, StartRun, ReadTree, AddStep, BeginWrite, BeginFinish, FinishStepRow,
         BeginRollback, ListBranch, RollBackStep, Die, vars, statuses
    <3>8. QED
      BY <3>2, <3>4, <3>5, <3>6, <3>7
  <2>4. QED
    BY <2>1, <2>2, <2>3 DEF AgreeInv
<1>4. QED
  BY <1>1, <1>2, <1>3

\* What a request is about does not change once it is under way.
LEMMA UpdateStages ==
  ASSUME IInv, AgreeInv, [Next]_vars, NEW u \in Updates
  PROVE  /\ pc[u] # "idle" => target'[u] = target[u] /\ (pc[u] = "done" => pc'[u] = "done")
         /\ pc[u] = "dead" => pc'[u] = "dead"
         /\ \/ pc'[u] = pc[u]
            \/ pc'[u] = "dead"
            \/ u \in Writes /\ (BeginWrite(u) \/ WriteNode(u))
            \/ u \in Finishes /\ (BeginFinish(u) \/ FinishStepRow(u) \/ FinishNode(u))
<1> USE TreeConstants
<1>T. /\ pc \in [Requests -> {"idle", "list", "node", "step", "done", "dead"}]
      /\ target \in [Updates \cup Rollbacks -> Starts \cup {NoNode}]
  BY DEF IInv, Typed, TypeOK
<1>1. ASSUME NEW v \in Updates, ReadNode(v), pc[u] # "idle"
      PROVE  target'[u] = target[u]
  <2>1. v # u
    BY <1>1 DEF ReadNode
  <2>2. QED
    BY <1>1, <2>1, <1>T DEF ReadNode
<1>2. CASE \E w \in Writes : BeginWrite(w)
  BY <1>1, <1>2, <1>T DEF BeginWrite, ReadNode, Updates, Requests
<1>3. CASE \E f \in Finishes : BeginFinish(f)
  BY <1>1, <1>3, <1>T DEF BeginFinish, ReadNode, Updates, Requests
<1>4. CASE \E w \in Writes : WriteNode(w)
  BY <1>4, <1>T DEF WriteNode, Updates, Requests, locals
<1>5. CASE \E f \in Finishes : FinishStepRow(f) \/ FinishNode(f)
  BY <1>5, <1>T DEF FinishStepRow, FinishNode, Updates, Requests, locals
<1>6. CASE \/ StartRun
           \/ \E s \in Starts : ReadTree(s) \/ AddNode(s) \/ AddStep(s)
           \/ UNCHANGED vars
  BY <1>6, <1>T DEF StartRun, ReadTree, AddNode, AddStep, Requests, vars, locals
<1>7. CASE \E r \in Rollbacks :
             BeginRollback(r) \/ ListBranch(r) \/ RollBackNode(r) \/ RollBackStep(r)
  BY <1>7, <1>T DEF BeginRollback, ListBranch, RollBackNode, RollBackStep, Requests, locals
<1>8. CASE \E y \in Requests : Die(y)
  BY <1>8, <1>T DEF Die, Live, Requests, locals
<1>9. QED
  BY <1>2, <1>3, <1>4, <1>5, <1>6, <1>7, <1>8 DEF Next

\* Two updates do not meet at a step.
LEMMA NoMeeting ==
  ASSUME {"update", "start"} \subseteq Careful, IInv, AgreeInv, [Next]_vars,
         NEW u \in Updates, Live(u), NEW v \in Updates, Live(v)', target'[v] = target[u]
  PROVE  v = u
<1>T. target \in [Updates \cup Rollbacks -> Starts \cup {NoNode}]
  BY DEF IInv, Typed, TypeOK
<1>1. CASE Live(v)
  <2>1. target'[v] = target[v]
    BY <1>1, UpdateStages DEF Live
  <2>2. QED
    BY <1>1, <2>1 DEF AgreeInv, Alone
<1>2. CASE ~Live(v)
  <2>1. ReadNode(v)
    BY <1>2, UpdateStages DEF Live, BeginWrite, BeginFinish, WriteNode, FinishStepRow, FinishNode
  <2>2. PICK x \in Known : MayUpdate(x) /\ target' = [target EXCEPT ![v] = x]
    BY <2>1 DEF ReadNode
  <2>3. x = target[u]
    BY <2>2, <1>T
  <2>4. QED
    BY <2>2, <2>3 DEF MayUpdate
<1>3. QED
  BY <1>1, <1>2

LEMMA CleanBefore ==
  ASSUME IInv, AgreeInv, [Next]_vars, NEW x, Clean(x)'
  PROVE  Clean(x)
  BY UpdateStages DEF Clean

LEMMA UpdatesAgree ==
  ASSUME {"update", "start"} \subseteq Careful, IInv, RollInv, AgreeInv, [Next]_vars,
         NEW u \in Updates, Live(u)'
  PROVE  Alone(u)' /\ (Clean(target[u])' => Honest(u)')
<1> USE TreeConstants
<1>T. /\ pc \in [Requests -> {"idle", "list", "node", "step", "done", "dead"}]
      /\ stepStatus \in [Starts -> StepStatus]
      /\ target \in [Updates \cup Rollbacks -> Starts \cup {NoNode}]
      /\ copy \in [Updates -> NodeStatus] /\ verdict \in [Finishes -> StepStatus]
  BY DEF IInv, Typed, TypeOK
<1>1. CASE pc'[u] = pc[u]
  <2>n. PICK x : x = target[u]
    OBVIOUS
  <2>1. Live(u) /\ Alone(u) /\ (Clean(x) => Honest(u)) /\ x \in Known
    BY <1>1, <2>n DEF Live, AgreeInv, Alone
  <2>2. /\ target'[u] = x /\ copy'[u] = copy[u] /\ (u \in Finishes => verdict'[u] = verdict[u])
        /\ status'[x] = status[x] /\ stepStatus'[x] = stepStatus[x]
    BY <1>1, <2>n, <2>1, UpdatedAlone
  <2>3. \A v \in Updates : Live(v)' /\ target'[v] = x => v = u
    BY <2>n, <2>1, NoMeeting
  <2>4. x \in Known'
    BY <2>1, KnownGrows
  <2>5. Alone(u)'
    BY <1>1, <2>n, <2>1, <2>2, <2>3, <2>4 DEF Alone
  <2>6. ASSUME Clean(target[u])'
        PROVE  Honest(u)'
    <3>1. Clean(x)'
      BY <2>2, <2>6 DEF Clean
    <3>2. Honest(u)
      BY <2>1, <3>1, CleanBefore
    <3>3. QED
      BY <1>1, <2>n, <2>2, <3>2 DEF Honest, Agrees
  <2>7. QED
    BY <2>5, <2>6
<1>2. CASE (u \in Writes /\ BeginWrite(u)) \/ (u \in Finishes /\ BeginFinish(u))
  <2>1. PICK x \in Known : /\ MayUpdate(x) /\ target' = [target EXCEPT ![u] = x]
                           /\ copy' = [copy EXCEPT ![u] = status[x]]
    BY <1>2 DEF BeginWrite, BeginFinish, ReadNode
  <2>2. /\ target'[u] = x /\ copy'[u] = status[x] /\ UNCHANGED statuses
        /\ pc'[u] = (IF u \in Writes THEN "node" ELSE "step") /\ pc[u] = "idle"
        /\ u \in Finishes => verdict'[u] \in Verdicts
    BY <1>2, <2>1, <1>T DEF BeginWrite, BeginFinish, ReadNode, Updates, Requests
  <2>3. \A v \in Updates \ {u} : pc'[v] = pc[v] /\ target'[v] = target[v]
    BY <1>2, <2>1, <1>T DEF BeginWrite, BeginFinish, Updates, Requests
  <2>4. \A v \in Updates : Live(v)' /\ target'[v] = x => v = u
    BY <2>1, <2>3 DEF MayUpdate, Live
  <2>5. x \in Known'
    BY <2>1, KnownGrows
  <2>6. Alone(u)'
    BY <2>2, <2>4, <2>5 DEF Alone, statuses
  <2>7. ASSUME Clean(target[u])'
        PROVE  Honest(u)'
    <3>1. Clean(x)
      <4>1. Clean(x)'
        BY <2>2, <2>7 DEF Clean
      <4>2. QED
        BY <4>1, CleanBefore
    <3>2. ~Updated(x)
      BY <2>1, <3>1 DEF Updated, Clean, MayUpdate, Live
    <3>3. ~Undoing(x)
      BY <2>1 DEF Undoing, MayUpdate, Undone
    <3>4. Agrees(x)
      BY <2>1, <3>2, <3>3 DEF AgreeInv, Busy
    <3>5. Agrees(x)'
      BY <2>2, <3>4 DEF Agrees, statuses
    <3>6. ~(pc'[u] = "node" /\ u \in Finishes)
      BY <2>2
    <3>7. Agrees(target[u])'
      BY <2>2, <3>5 DEF Agrees
    <3>8. QED
      BY <3>6, <3>7 DEF Honest
  <2>8. QED
    BY <2>6, <2>7
<1>3. CASE u \in Finishes /\ FinishStepRow(u)
  <2>n. PICK x : x = target[u]
    OBVIOUS
  <2>1. Live(u) /\ pc'[u] = "node" /\ u \notin Writes
    BY <1>3, <1>T DEF FinishStepRow, Live, Updates, Requests
  <2>2. Alone(u) /\ x \in Known /\ x \in Starts
    BY <2>n, <2>1 DEF AgreeInv, Alone, Known
  <2>3. UNCHANGED <<status, locals>> /\ stepStatus'[x] = verdict[u]
    BY <1>3, <2>n, <2>2, <1>T DEF FinishStepRow
  <2>4. \A v \in Updates : Live(v)' /\ target'[v] = x => v = u
    BY <2>n, <2>1, NoMeeting
  <2>5. x \in Known'
    BY <2>2, KnownGrows
  <2>6. Alone(u)'
    BY <2>n, <2>1, <2>2, <2>3, <2>4, <2>5 DEF Alone, locals
  <2>7. Honest(u)'
    BY <1>3, <2>n, <2>1, <2>3 DEF Honest, locals
  <2>8. QED
    BY <2>6, <2>7
<1>4. pc'[u] # "dead" /\ pc'[u] # "done"
  BY DEF Live
<1>5. ~(WriteNode(u) /\ u \in Writes) /\ ~(FinishNode(u) /\ u \in Finishes)
  BY <1>4, <1>T DEF WriteNode, FinishNode, Requests, Updates
<1>6. QED
  BY <1>1, <1>2, <1>3, <1>4, <1>5, UpdateStages

\* What stops being busy was left by the last one at work on it.
LEMMA LastAtWork ==
  ASSUME {"update", "start"} \subseteq Careful, IInv, RollInv, AgreeInv, [Next]_vars,
         NEW x \in Known, Busy(x), ~Busy(x)'
  PROVE  \/ \E u \in Updates : /\ Live(u) /\ target[u] = x /\ pc'[u] = "done"
         \/ \E r \in Rollbacks : /\ pc[r] \notin {"idle", "done"} /\ pc'[r] = "done"
                                 /\ x \in Branch(target[r])
<1> USE TreeConstants
<1>T. pc \in [Requests -> {"idle", "list", "node", "step", "done", "dead"}]
  BY DEF IInv, Typed, TypeOK
<1>1. CASE Updated(x)
  <2>1. PICK u \in Updates : pc[u] \notin {"idle", "done"} /\ target[u] = x
    BY <1>1 DEF Updated
  <2>2. target'[u] = x /\ pc'[u] \in {"idle", "done"}
    <3>1. target'[u] = x
      BY <2>1, UpdateStages
    <3>2. QED
      BY <3>1 DEF Busy, Updated
  <2>3. pc'[u] = "done" /\ pc[u] # "dead"
    BY <2>1, <2>2, <1>T, UpdateStages DEF BeginWrite, BeginFinish, ReadNode, WriteNode,
       FinishStepRow, FinishNode, Requests, Updates
  <2>4. QED
    BY <2>1, <2>3 DEF Live
<1>2. CASE Undoing(x)
  <2>1. PICK r \in Rollbacks : pc[r] \notin {"idle", "done"} /\ x \in Branch(target[r])
    BY <1>2 DEF Undoing
  <2>2. pc'[r] \in {"idle", "done"}
    BY <2>1, UndoingKept DEF Busy
  <2>3. pc'[r] # "idle"
    BY <2>1, <1>T DEF Next, StartRun, ReadTree, AddNode, AddStep, BeginWrite, WriteNode,
       BeginFinish, FinishStepRow, FinishNode, BeginRollback, ListBranch, RollBackNode,
       RollBackStep, Die, Live, Requests, Updates, vars
  <2>4. QED
    BY <2>1, <2>2, <2>3
<1>3. QED
  BY <1>1, <1>2 DEF Busy

\* Nobody writes to what is not busy.
LEMMA IdleUntouched ==
  ASSUME IInv, RollInv, AgreeInv, [Next]_vars, NEW x \in Known, ~Busy(x)
  PROVE  status'[x] = status[x] /\ stepStatus'[x] = stepStatus[x]
<1> USE TreeConstants
<1>T. status \in [Nodes -> NodeStatus] /\ stepStatus \in [Starts -> StepStatus]
  BY DEF IInv, Typed, TypeOK
<1>X. x \in Starts /\ x \in Nodes /\ x \in nodes /\ pc[x] = "done"
  BY KnownNodes DEF Known, Nodes
<1>1. \A s \in Starts : AddNode(s) \/ AddStep(s) => s # x
  BY <1>X DEF AddNode, AddStep
<1>2. \A u \in Updates : pc[u] \in {"node", "step"} => target[u] # x
  BY DEF Busy, Updated
<1>3. \A r \in Rollbacks : pc[r] \in {"node", "step"} => x \notin Branch(target[r])
  BY DEF Busy, Undoing
<1>4. ASSUME NEW s \in Starts, AddNode(s) \/ AddStep(s)
      PROVE  status'[x] = status[x] /\ stepStatus'[x] = stepStatus[x]
  BY <1>1, <1>4, <1>T, <1>X DEF AddNode, AddStep
<1>5. ASSUME NEW w \in Writes, WriteNode(w)
      PROVE  status'[x] = status[x] /\ stepStatus'[x] = stepStatus[x]
  BY <1>2, <1>5, <1>T, <1>X DEF WriteNode, Updates
<1>6. ASSUME NEW f \in Finishes, FinishStepRow(f) \/ FinishNode(f)
      PROVE  status'[x] = status[x] /\ stepStatus'[x] = stepStatus[x]
  BY <1>2, <1>6, <1>T, <1>X DEF FinishStepRow, FinishNode, Updates
<1>7. ASSUME NEW r \in Rollbacks, RollBackNode(r)
      PROVE  status'[x] = status[x] /\ stepStatus'[x] = stepStatus[x]
  <2>1. PICK y \in todo[r] : status' = [status EXCEPT ![y] = "rolled_back"]
    BY <1>7 DEF RollBackNode, NextMark
  <2>2. y # x
    BY <1>3, <1>7, <2>1 DEF RollBackNode, RollInv, Marking
  <2>3. QED
    BY <1>7, <2>1, <2>2, <1>T, <1>X DEF RollBackNode
<1>8. ASSUME NEW r \in Rollbacks, RollBackStep(r)
      PROVE  status'[x] = status[x] /\ stepStatus'[x] = stepStatus[x]
  <2>1. at[r] # x
    BY <1>3, <1>8 DEF RollBackStep, RollInv, Marking
  <2>2. QED
    BY <1>8, <2>1, <1>T, <1>X DEF RollBackStep
<1>9. CASE ~(\/ \E s \in Starts : AddNode(s) \/ AddStep(s)
             \/ \E w \in Writes : WriteNode(w)
             \/ \E f \in Finishes : FinishStepRow(f) \/ FinishNode(f)
             \/ \E r \in Rollbacks : RollBackNode(r) \/ RollBackStep(r))
  BY <1>9 DEF Next, StartRun, ReadTree, BeginWrite, BeginFinish, BeginRollback, ListBranch,
     Die, vars, statuses
<1>10. QED
  BY <1>4, <1>5, <1>6, <1>7, <1>8, <1>9

LEMMA KnownAgree ==
  ASSUME {"update", "start"} \subseteq Careful, "active" \notin Verdicts,
         IInv, RollInv, AgreeInv, [Next]_vars, NEW x \in Known', ~Busy(x)'
  PROVE  Agrees(x)'
<1> USE TreeConstants
<1>T. /\ pc \in [Requests -> {"idle", "list", "node", "step", "done", "dead"}]
      /\ status \in [Nodes -> NodeStatus] /\ stepStatus \in [Starts -> StepStatus]
      /\ verdict \in [Finishes -> StepStatus]
  BY DEF IInv, Typed, TypeOK
<1>X. x \in Starts /\ x \in Nodes /\ pc'[x] = "done"
  BY DEF Known, Nodes
<1>1. CASE x \notin Known
  <2>1. pc[x] # "done"
    BY <1>1, <1>X DEF Known
  <2>2. AddStep(x)
    BY <1>X, <2>1, <1>T DEF Next, StartRun, ReadTree, AddNode, AddStep, BeginWrite, WriteNode,
       BeginFinish, FinishStepRow, FinishNode, BeginRollback, ListBranch, RollBackNode,
       RollBackStep, Die, Live, Requests, Updates, vars
  <2>3. status[x] = "active"
    BY <1>X, <2>2 DEF AddStep, AgreeInv
  <2>4. QED
    BY <1>X, <2>2, <2>3, <1>T DEF AddStep, Agrees
<1>2. CASE x \in Known /\ ~Busy(x)
  <2>1. Agrees(x)
    BY <1>2 DEF AgreeInv
  <2>2. QED
    BY <1>2, <2>1, IdleUntouched DEF Agrees
<1>3. ASSUME x \in Known, NEW u \in Updates, Live(u), target[u] = x, pc'[u] = "done"
      PROVE  Agrees(x)'
  <2>1. Alone(u) /\ pc[u] # "done"
    BY <1>3 DEF AgreeInv, Live
  <2>2. Clean(x)
    <3> SUFFICES ASSUME NEW v \in Updates, pc[v] = "dead", target[v] = x PROVE FALSE
      BY DEF Clean
    <3>1. pc'[v] = "dead" /\ target'[v] = x
      BY UpdateStages
    <3>2. QED
      BY <3>1 DEF Busy, Updated
  <2>3. Honest(u)
    BY <1>3, <2>2 DEF AgreeInv
  <2>4. CASE u \in Writes /\ WriteNode(u)
    <3>1. u \notin Finishes
      BY <2>4
    <3>2. Agrees(x) /\ status'[x] = status[x] /\ stepStatus'[x] = stepStatus[x]
      BY <1>3, <1>X, <1>T, <2>1, <2>3, <2>4, <3>1 DEF Honest, WriteNode, Alone
    <3>3. QED
      BY <3>2 DEF Agrees
  <2>5. CASE u \in Finishes /\ FinishNode(u)
    <3>1. stepStatus'[x] = verdict[u] /\ status'[x] = FinishedStatus(copy[u], verdict[u])
      BY <1>3, <1>X, <1>T, <2>3, <2>5 DEF Honest, FinishNode
    <3>2. verdict[u] \in {"completed", "failed", "cancelled", "rolled_back"}
      BY <2>1, <2>5, <1>T DEF Alone, StepStatus
    <3>3. QED
      BY <3>1, <3>2 DEF Agrees, FinishedStatus
  <2>6. (u \in Writes /\ WriteNode(u)) \/ (u \in Finishes /\ FinishNode(u))
    BY <1>3, <2>1, <1>T, UpdateStages DEF BeginWrite, BeginFinish, FinishStepRow, Requests, Updates
  <2>7. QED
    BY <2>4, <2>5, <2>6
<1>4. ASSUME x \in Known, NEW r \in Rollbacks, pc[r] \notin {"idle", "done"}, pc'[r] = "done",
             x \in Branch(target[r])
      PROVE  Agrees(x)'
  <2>n. PICK n : n = target[r]
    OBVIOUS
  <2>1. Branch(n)' = Branch(n) /\ target'[r] = n
    BY <1>4, <2>n, BranchFrozen, OutsideKept DEF RollInv
  <2>2. x \in Branch(target[r])'
    BY <1>4, <2>n, <2>1 DEF Branch
  <2>3. Marked(r, x)'
    BY <1>4, <2>2, NextRoll DEF RollInv, Marking
  <2>4. x \in steps'
    BY <1>X, StartsAgree
  <2>5. status'[x] = "rolled_back" /\ stepStatus'[x] = "rolled_back"
    BY <1>4, <2>3, <2>4 DEF Marked
  <2>6. QED
    BY <2>5 DEF Agrees
<1>5. QED
  BY <1>1, <1>2, <1>3, <1>4, LastAtWork

LEMMA NextAgree ==
  ASSUME {"update", "start"} \subseteq Careful, "active" \notin Verdicts
  PROVE  IInv /\ RollInv /\ AgreeInv /\ [Next]_vars => AgreeInv'
<1> SUFFICES ASSUME IInv, RollInv, AgreeInv, [Next]_vars PROVE AgreeInv'
  OBVIOUS
<1>1. \A s \in Starts : /\ pc'[s] = "step" => status'[s] = "active"
                        /\ pc'[s] = "done" => s \in steps'
  BY StartsAgree
<1>2. \A u \in Updates : Live(u)' => Alone(u)' /\ (Clean(target[u])' => Honest(u)')
  BY UpdatesAgree
<1>3. \A x \in Known' : ~Busy(x)' => Agrees(x)'
  BY KnownAgree
<1>4. QED
  BY <1>1, <1>2, <1>3 DEF AgreeInv

\* A step and its node say the same once nobody is at work on them, unless
\* somebody died at it, for careful clients that finish no step as active.
THEOREM StepAndNodeAgree ==
  ASSUME {"update", "start"} \subseteq Careful, "active" \notin Verdicts
  PROVE  Spec => []StepNodeAgree
<1>1. IInv /\ RollInv /\ AgreeInv => StepNodeAgree
  <2> SUFFICES ASSUME IInv, RollInv, AgreeInv, NEW x \in Known, ~AtWork(x)
               PROVE  Agrees(x)
    BY DEF StepNodeAgree, Agrees
  <2>1. ~Busy(x)
    BY KnownNodes, AtWorkIsBusy
  <2>2. QED
    BY <2>1 DEF AgreeInv
<1>2. QED
  BY InitIInv, NextIInv, InitRoll, NextRoll, InitAgree, NextAgree, <1>1, PTL DEF Spec

===============================================================================
