------------------------------ MODULE StateTree ------------------------------
(***************************************************************************)
(* The execution state tree of one run: how requests grow it, finish its   *)
(* steps, roll branches back, and what is then left on the active path     *)
(* (apps/api/app/runtime/state_tree.py, and start_run, start_step,         *)
(* write_event, finish_step, rollback_branch of memory_runtime.py).        *)
(*                                                                         *)
(* A request is a sequence of transactions, each reading or writing one    *)
(* row, and other requests run in between.  Rows are written whole, from   *)
(* the copy the request read.  A step and its node are named by the        *)
(* start_step request that creates them.  Events, memories, texts and the  *)
(* path string of a node are left out: EventExtraction has the first two.  *)
(***************************************************************************)
EXTENDS Integers, FiniteSets

CONSTANTS
  Starts, Writes, Finishes, Rollbacks,  \* requests, by kind
  Verdicts,  \* statuses a client may finish a step with
  Root,      \* the root node of the run
  NoNode,
  Careful,   \* what clients take care of, see MayUpdate and MayStart
  MayDie     \* whether a process may die in the middle of a request

Nodes == Starts \cup {Root}
Updates == Writes \cup Finishes
Requests == Starts \cup Updates \cup Rollbacks
StepStatus == {"active", "completed", "failed", "cancelled", "rolled_back"}
NodeStatus == {"active", "completed", "failed", "rolled_back"}

ASSUME TreeConstants ==
  /\ Root \notin Starts /\ NoNode \notin Nodes
  /\ Starts \cap (Updates \cup Rollbacks) = {}
  /\ Writes \cap Finishes = {} /\ Updates \cap Rollbacks = {}
  /\ Verdicts \subseteq StepStatus
  /\ Careful \subseteq {"update", "start"} /\ MayDie \in BOOLEAN

VARIABLES
  nodes,      \* node rows; no row is ever deleted
  parent,     \* parent[x]: parent_id of x, known before its row is there
  depth,      \* depth[x]: its depth
  recovers,   \* recovers[x]: the step x is a recovery from
  status,     \* status[x]: status of the node row
  steps,      \* step rows
  stepStatus, \* stepStatus[x]: status of the step row
  pc,         \* pc[x]: where request x stands
  target,     \* target[x]: the step a write, finish or rollback is about
  copy,       \* copy[x]: the node status a write or finish has read
  verdict,    \* verdict[f]: the status finish f asks for
  todo,       \* todo[r]: nodes rollback r has still to mark
  at,         \* at[r]: the node rollback r has marked last
  cut,        \* history: steps whose rollback has begun to mark nodes
  before      \* history: before[r]: starts begun before rollback r

tree == <<nodes, parent, depth, recovers>>
statuses == <<status, stepStatus, cut>>
locals == <<target, copy, verdict, todo, at, before>>
vars == <<tree, status, stepStatus, cut, steps, pc, locals>>

Init ==
  /\ nodes = {} /\ steps = {} /\ cut = {}
  /\ parent = [x \in Starts |-> NoNode]
  /\ depth = [x \in Nodes |-> 0]
  /\ recovers = [x \in Starts |-> NoNode]
  /\ status = [x \in Nodes |-> "active"]
  /\ stepStatus = [x \in Starts |-> "active"]
  /\ pc = [x \in Requests |-> "idle"]
  /\ target = [x \in Updates \cup Rollbacks |-> NoNode]
  /\ copy = [x \in Updates |-> "active"]
  /\ verdict = [f \in Finishes |-> "completed"]
  /\ todo = [r \in Rollbacks |-> {}]
  /\ at = [r \in Rollbacks |-> NoNode]
  /\ before = [r \in Rollbacks |-> {}]

(***************************************************************************)
(* The pure part: state_tree.py                                            *)
(***************************************************************************)
ParentOf(x) == IF x \in Starts THEN parent[x] ELSE NoNode

\* Mutant of Branch: the children only.
ChildrenOnly(n) == {x \in nodes : x = n \/ ParentOf(x) = n}

\* The node and its descendants: what is in every set that holds the node
\* and, with a node, its children.
Branch(n) ==
  {x \in nodes : \A S \in SUBSET nodes :
     (n \in S /\ \A y \in nodes : ParentOf(y) \in S => y \in S) => x \in S}

\* The node and its ancestors: what is in every set that holds the node
\* and, with a node, its parent.
Lineage(n) ==
  {x \in nodes : \A S \in SUBSET nodes :
     (n \in S /\ \A y \in S : ParentOf(y) \in nodes => ParentOf(y) \in S) => x \in S}

Dead == {x \in nodes : status[x] \in {"failed", "rolled_back"}}
ActivePath == {x \in nodes : Lineage(x) \cap Dead = {}}

\* Mutant of FinishedStatus: a cancelled step keeps its node as it was.
KeepCancelled(was, v) == IF v \in {"completed", "failed"} THEN v ELSE was

\* apply_finish: a node has no status for cancelled.
FinishedStatus(was, v) ==
  CASE v \in {"completed", "failed"} -> v
    [] v \in {"cancelled", "rolled_back"} -> "rolled_back"
    [] OTHER -> was

(***************************************************************************)
(* Clients.  A client knows a step once its start_step returned.  One that *)
(* is careful with updates has one write or finish of a step in flight,    *)
(* and none in a branch it has asked to roll back.  One that is careful    *)
(* with starts does not start steps in such a branch.                      *)
(***************************************************************************)
Known == {x \in Starts : pc[x] = "done"}
Live(x) == pc[x] \notin {"idle", "done", "dead"}
Undone(x) == \E r \in Rollbacks : pc[r] # "idle" /\ x \in Branch(target[r])

MayUpdate(x) ==
  "update" \in Careful => ~Undone(x) /\ \A u \in Updates : Live(u) => target[u] # x

MayStart(x) == "start" \in Careful => ~Undone(x)

MayRollBack(x) ==
  /\ "update" \in Careful => \A u \in Updates : Live(u) => target[u] \notin Branch(x)
  /\ "start" \in Careful => \A s \in Starts : Live(s) => parent[s] \notin Branch(x)

(***************************************************************************)
(* start_run.  Nobody knows the run before its root is there.              *)
(***************************************************************************)
StartRun ==
  /\ nodes = {}
  /\ nodes' = {Root}
  /\ UNCHANGED <<parent, depth, recovers, statuses, steps, pc, locals>>

(***************************************************************************)
(* start_step: the node is added, then the step.                           *)
(***************************************************************************)
\* Mutant of RecoveryParent: the recovery is attached to the failed node.
RecoverUnder(x) == x

\* recovery_parent
RecoveryParent(x) == parent[x]

Plan(s, p, r) ==
  /\ MayStart(p)
  /\ parent' = [parent EXCEPT ![s] = p]
  /\ depth' = [depth EXCEPT ![s] = depth[p] + 1]
  /\ recovers' = [recovers EXCEPT ![s] = r]

ReadTree(s) ==
  /\ pc[s] = "idle" /\ Root \in nodes
  /\ \/ Plan(s, Root, NoNode)
     \/ \E x \in Known : Plan(s, x, NoNode)
     \/ \E x \in Known : Plan(s, RecoveryParent(x), x)
  /\ pc' = [pc EXCEPT ![s] = "node"]
  /\ UNCHANGED <<nodes, statuses, steps, locals>>

\* Mutant of AddNode: the step row comes first.
AddStepFirst(s) ==
  /\ pc[s] = "node"
  /\ steps' = steps \cup {s}
  /\ pc' = [pc EXCEPT ![s] = "step"]
  /\ UNCHANGED <<tree, statuses, locals>>

AddNode(s) ==
  /\ pc[s] = "node"
  /\ nodes' = nodes \cup {s}
  /\ status' = [status EXCEPT ![s] = "active"]
  /\ pc' = [pc EXCEPT ![s] = "step"]
  /\ UNCHANGED <<parent, depth, recovers, stepStatus, cut, steps, locals>>

AddStep(s) ==
  /\ pc[s] = "step"
  /\ steps' = steps \cup {s}
  /\ stepStatus' = [stepStatus EXCEPT ![s] = "active"]
  /\ pc' = [pc EXCEPT ![s] = "done"]
  /\ UNCHANGED <<tree, status, cut, locals>>

(***************************************************************************)
(* write_event and finish_step write the whole node row from the copy they *)
(* read first.  Neither looks at the status it finds.                      *)
(***************************************************************************)
ReadNode(u) ==
  /\ pc[u] = "idle"
  /\ \E x \in Known :
       /\ MayUpdate(x)
       /\ target' = [target EXCEPT ![u] = x]
       /\ copy' = [copy EXCEPT ![u] = status[x]]

BeginWrite(w) ==
  /\ ReadNode(w)
  /\ pc' = [pc EXCEPT ![w] = "node"]
  /\ UNCHANGED <<tree, statuses, steps, verdict, todo, at, before>>

WriteNode(w) ==
  /\ pc[w] = "node"
  /\ status' = [status EXCEPT ![target[w]] = copy[w]]
  /\ pc' = [pc EXCEPT ![w] = "done"]
  /\ UNCHANGED <<tree, stepStatus, cut, steps, locals>>

BeginFinish(f) ==
  /\ ReadNode(f)
  /\ \E v \in Verdicts : verdict' = [verdict EXCEPT ![f] = v]
  /\ pc' = [pc EXCEPT ![f] = "step"]
  /\ UNCHANGED <<tree, statuses, steps, todo, at, before>>

FinishStepRow(f) ==
  /\ pc[f] = "step"
  /\ stepStatus' = [stepStatus EXCEPT ![target[f]] = verdict[f]]
  /\ pc' = [pc EXCEPT ![f] = "node"]
  /\ UNCHANGED <<tree, status, cut, steps, locals>>

FinishNode(f) ==
  /\ pc[f] = "node"
  /\ status' = [status EXCEPT ![target[f]] = FinishedStatus(copy[f], verdict[f])]
  /\ pc' = [pc EXCEPT ![f] = "done"]
  /\ UNCHANGED <<tree, stepStatus, cut, steps, locals>>

(***************************************************************************)
(* rollback_branch: the branch is listed again after the buffers were      *)
(* drained, then marked from the target downwards, a node and its step at  *)
(* a time.                                                                 *)
(***************************************************************************)
BeginRollback(r) ==
  /\ pc[r] = "idle"
  /\ \E x \in Known :
       /\ MayRollBack(x)
       /\ target' = [target EXCEPT ![r] = x]
  /\ before' = [before EXCEPT ![r] = {s \in Starts : pc[s] # "idle"}]
  /\ pc' = [pc EXCEPT ![r] = "list"]
  /\ UNCHANGED <<tree, statuses, steps, copy, verdict, todo, at>>

ListBranch(r) ==
  /\ pc[r] = "list"
  /\ todo' = [todo EXCEPT ![r] = Branch(target[r])]
  /\ pc' = [pc EXCEPT ![r] = "node"]
  /\ UNCHANGED <<tree, statuses, steps, target, copy, verdict, at, before>>

\* Mutant of NextMark: descendants first.
LeavesFirst(r) == {x \in todo[r] : \A y \in todo[r] : ParentOf(y) # x}

NextMark(r) == {x \in todo[r] : ParentOf(x) \notin todo[r]}

RollBackNode(r) ==
  /\ pc[r] = "node"
  /\ \E x \in NextMark(r) :
       /\ status' = [status EXCEPT ![x] = "rolled_back"]
       /\ todo' = [todo EXCEPT ![r] = @ \ {x}]
       /\ at' = [at EXCEPT ![r] = x]
  /\ cut' = cut \cup {target[r]}
  /\ pc' = [pc EXCEPT ![r] = "step"]
  /\ UNCHANGED <<tree, stepStatus, steps, target, copy, verdict, before>>

\* A step row that is not there yet is passed over.
RollBackStep(r) ==
  /\ pc[r] = "step"
  /\ stepStatus' = IF at[r] \in steps
                     THEN [stepStatus EXCEPT ![at[r]] = "rolled_back"] ELSE stepStatus
  /\ pc' = [pc EXCEPT ![r] = IF todo[r] = {} THEN "done" ELSE "node"]
  /\ UNCHANGED <<tree, status, cut, steps, locals>>

Die(x) ==
  /\ MayDie /\ Live(x)
  /\ pc' = [pc EXCEPT ![x] = "dead"]
  /\ UNCHANGED <<tree, statuses, steps, locals>>

Next ==
  \/ StartRun
  \/ \E s \in Starts : ReadTree(s) \/ AddNode(s) \/ AddStep(s)
  \/ \E w \in Writes : BeginWrite(w) \/ WriteNode(w)
  \/ \E f \in Finishes : BeginFinish(f) \/ FinishStepRow(f) \/ FinishNode(f)
  \/ \E r \in Rollbacks :
       BeginRollback(r) \/ ListBranch(r) \/ RollBackNode(r) \/ RollBackStep(r)
  \/ \E x \in Requests : Die(x)

Spec == Init /\ [][Next]_vars

-----------------------------------------------------------------------------
TypeOK ==
  /\ nodes \subseteq Nodes /\ steps \subseteq Starts /\ cut \subseteq Starts
  /\ parent \in [Starts -> Nodes \cup {NoNode}]
  /\ depth \in [Nodes -> Nat]
  /\ recovers \in [Starts -> Starts \cup {NoNode}]
  /\ status \in [Nodes -> NodeStatus]
  /\ stepStatus \in [Starts -> StepStatus]
  /\ pc \in [Requests -> {"idle", "list", "node", "step", "done", "dead"}]
  /\ target \in [Updates \cup Rollbacks -> Starts \cup {NoNode}]
  /\ copy \in [Updates -> NodeStatus]
  /\ verdict \in [Finishes -> StepStatus]
  /\ todo \in [Rollbacks -> SUBSET Nodes]
  /\ at \in [Rollbacks -> Nodes \cup {NoNode}]
  /\ before \in [Rollbacks -> SUBSET Starts]

\* However requests interleave and wherever they die, the rows are one tree:
\* every node hangs from a node that is there, one level up, and no step is
\* without its node, which every later request relies on.
Rooted ==
  /\ steps \subseteq nodes
  /\ \A x \in nodes \ {Root} :
       parent[x] \in nodes /\ depth[x] = depth[parent[x]] + 1

\* "A recovery node attaches to the parent of the failed node, never under
\* the failed node": rolling the failed step back, now or later, does not
\* take its recovery along, nor a recovery of that recovery.
RecoveryOutside ==
  \A x \in nodes \ {Root} : recovers[x] # NoNode =>
    /\ recovers[x] \notin Lineage(x)
    /\ \A y \in nodes \ {Root} : recovers[y] = x => recovers[x] \notin Lineage(y)

\* "rolled_back: explicitly rolled back, no longer part of the active path":
\* from its first write on, a rollback takes its whole branch off the active
\* path, even when it dies half-way or steps are started below it.
RolledBackOffPath == \A x \in cut : Branch(x) \cap ActivePath = {}

\* "descendant state_nodes.status = rolled_back": a rollback that returned
\* has marked every node of its branch, and step, begun before it.
BranchRolledBack ==
  \A r \in Rollbacks : pc[r] = "done" =>
    \A x \in nodes \cap before[r] : target[r] \in Lineage(x) =>
      status[x] = "rolled_back" /\ (x \in steps => stepStatus[x] = "rolled_back")

\* Step and node are written by separate transactions; once nobody is at
\* work on a step, and unless someone died at it, they say the same.
AtWork(x) ==
  \/ \E u \in Updates : pc[u] \notin {"idle", "done"} /\ target[u] = x
  \/ \E r \in Rollbacks : pc[r] \notin {"idle", "done"} /\ target[r] \in Lineage(x)
StepNodeAgree ==
  \A x \in Known : ~AtWork(x) =>
    status[x] = IF stepStatus[x] = "cancelled" THEN "rolled_back" ELSE stepStatus[x]
==============================================================================
