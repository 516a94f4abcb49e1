------------------------------- MODULE RunPath -------------------------------
(***************************************************************************)
(* One run as its handlers share it: the status of the run, of the nodes   *)
(* on its path and of the branch of the memories written there, and the    *)
(* summaries made of them.  rollback_branch (runtime/memory_runtime.py)    *)
(* takes a step off the path; write_event may put its node back, and       *)
(* extraction may add a memory of it late or write one back as it was      *)
(* before, which is what StateTree and EventExtraction show.               *)
(***************************************************************************)
EXTENDS Server, Integers, Sequences, FiniteSets, FiniteSetsExt

CONSTANTS
  Steps,         \* numbered in path order
  Subtree,       \* Subtree[s]: s and its descendants
  Items,         \* memories extracted on the path, numbers
  NodeOf,        \* NodeOf[i]: the step i comes from
  Project        \* the items that are project.runtime memories; the others
                 \* are successful tool evidence

ASSUME RunPathConstants ==
  /\ Steps \subseteq Nat /\ Items \subseteq Nat /\ Project \subseteq Items
  /\ NodeOf \in [Items -> Steps]
  /\ Subtree \in [Steps -> SUBSET Steps] /\ \A s \in Steps : s \in Subtree[s]

VARIABLES
  outcome,       \* AgentRun.status
  node,          \* node[s]: status of the node of s
  branch,        \* branch[i]: branch_status of i, "none" before it is stored
  row,           \* the summaries of the run, as they were added
  job,           \* job[r]: the handler of request r
  budget,        \* bound: what else may happen to the run
  gone,          \* history: steps whose rollback has begun and has returned
  spoilt         \* history: nodes put back, and items added or put back, after
                 \* a rollback

Outcomes == {"running", "completed", "failed"}
Kinds == {"episodic", "procedural"}
SummaryRows ==
  [kind : Kinds, tells : Outcomes, from : SUBSET Items, leaf : SUBSET Steps,
   status : {"active", "superseded", "archived"}, off : SUBSET Steps,
   branch : {"completed", "failed", "rolled_back"}]

Waiting == [at |-> "idle", nodes |-> {}, todo |-> {}, items |-> {}, read |-> {},
            plan |-> <<>>, off |-> {}]

PathInit(present, most) ==
  /\ outcome = "running" /\ budget = most
  /\ node = [s \in Steps |-> "completed"]
  /\ branch = [i \in Items |-> IF i \in present THEN "completed" ELSE "none"]
  /\ row = <<>> /\ job = [r \in Requests |-> Waiting]
  /\ gone = [begun |-> {}, returned |-> {}]
  /\ spoilt = [nodes |-> {}, items |-> {}]

Doing(r, where) == job[r].at = where
Proceed(r, where) == job' = [job EXCEPT ![r].at = where]

(* active_path_node_ids: a rolled-back node takes its descendants along.   *)
OnPath == {s \in Steps : \A t \in Steps : s \in Subtree[t] => node[t] = "completed"}

(* update_memory under _preserved_lifecycle_fields.                        *)
Written(now, new) ==
  [new EXCEPT !.status = IF new.status = "active" THEN now.status ELSE new.status]

-----------------------------------------------------------------------------
(* rollback_branch: the nodes below the step are listed, ...               *)
BeginRollback(r, s) ==
  /\ Doing(r, "idle")
  /\ job' = [job EXCEPT ![r].at = "nodes", ![r].nodes = Subtree[s], ![r].todo = Subtree[s]]
  /\ gone' = [gone EXCEPT !.begun = gone.begun \cup Subtree[s]]
  /\ UNCHANGED <<outcome, node, branch, row, budget, spoilt>>

(* ... rolled back one by one, ...                                         *)
RollNode(r) ==
  /\ Doing(r, "nodes") /\ job[r].todo # {}
  /\ LET s == Min(job[r].todo)
     IN  /\ node' = [node EXCEPT ![s] = "rolled_back"]
         /\ job' = [job EXCEPT ![r].todo = job[r].todo \ {s}]
  /\ UNCHANGED <<outcome, branch, row, budget, gone, spoilt>>

(* ... the memories that come from them are listed, ...                    *)
ListOfBranch(r) ==
  LET below == job[r].nodes
  IN  /\ Doing(r, "nodes") /\ job[r].todo = {}
      /\ job' = [job EXCEPT ![r].at = "flip",
           ![r].items = {i \in Items : branch[i] # "none" /\ NodeOf[i] \in below},
           ![r].read = {[n |-> n, row |-> row[n]] :
                          n \in {k \in DOMAIN row : row[k].leaf \cap below # {}}}]
      /\ UNCHANGED <<outcome, node, branch, row, budget, gone, spoilt>>

(* ... and each is written back with its branch_status flipped.            *)
FlipItem(r) ==
  /\ Doing(r, "flip")
  /\ \E i \in job[r].items :
       /\ branch' = [branch EXCEPT ![i] = "rolled_back"]
       /\ job' = [job EXCEPT ![r].items = job[r].items \ {i}]
  /\ UNCHANGED <<outcome, node, row, budget, gone, spoilt>>

FlipSummary(r) ==
  /\ Doing(r, "flip")
  /\ \E x \in job[r].read :
       /\ row' = [row EXCEPT ![x.n] = Written(@, [x.row EXCEPT !.branch = "rolled_back"])]
       /\ job' = [job EXCEPT ![r].read = job[r].read \ {x}]
  /\ UNCHANGED <<outcome, node, branch, budget, gone, spoilt>>

EndRollback(r) ==
  /\ Doing(r, "flip") /\ job[r].items = {} /\ job[r].read = {}
  /\ Proceed(r, "done")
  /\ gone' = [gone EXCEPT !.returned = gone.returned \cup job[r].nodes]
  /\ UNCHANGED <<outcome, node, branch, row, budget, spoilt>>

Rollback(r, s) ==
  \/ BeginRollback(r, s) \/ RollNode(r) \/ ListOfBranch(r)
  \/ FlipItem(r) \/ FlipSummary(r) \/ EndRollback(r)

-----------------------------------------------------------------------------
(* What else happens to the run.                                           *)

(* An extraction stores its memory, whatever became of the node.           *)
AddItem ==
  /\ budget > 0 /\ budget' = budget - 1
  /\ \E i \in Items :
       /\ branch[i] = "none"
       /\ branch' = [branch EXCEPT ![i] = "completed"]
       /\ spoilt' = [spoilt EXCEPT
            !.items = IF NodeOf[i] \in gone.begun THEN spoilt.items \cup {i} ELSE spoilt.items]
  /\ UNCHANGED <<outcome, node, row, job, gone>>

(* A fold of the same fact writes an item back whole, as it was read       *)
(* before a rollback: update_memory does not protect branch_status.        *)
WriteItemBack ==
  /\ budget > 0 /\ budget' = budget - 1
  /\ \E i \in Items :
       /\ branch[i] = "rolled_back"
       /\ branch' = [branch EXCEPT ![i] = "completed"]
       /\ spoilt' = [spoilt EXCEPT !.items = spoilt.items \cup {i}]
  /\ UNCHANGED <<outcome, node, row, job, gone>>

(* write_event writes its node back as it was before a rollback.           *)
WriteNodeBack ==
  /\ budget > 0 /\ budget' = budget - 1
  /\ \E s \in Steps :
       /\ node[s] = "rolled_back"
       /\ node' = [node EXCEPT ![s] = "completed"]
       /\ spoilt' = [spoilt EXCEPT !.nodes = spoilt.nodes \cup {s}]
  /\ UNCHANGED <<outcome, branch, row, job, gone>>

(* A summary is archived, by an operator or by the maintenance scan.       *)
Archive ==
  /\ budget > 0 /\ budget' = budget - 1
  /\ \E n \in DOMAIN row :
       /\ row[n].status = "active"
       /\ row' = [row EXCEPT ![n].status = "archived"]
  /\ UNCHANGED <<outcome, node, branch, job, gone, spoilt>>

Elsewhere == AddItem \/ WriteItemBack \/ WriteNodeBack \/ Archive

(* What an earlier rollback cannot keep away: an item that was added late  *)
(* or put back, of a node that was put back too.                           *)
Escaped(i) == NodeOf[i] \in spoilt.nodes /\ i \in spoilt.items
=============================================================================
