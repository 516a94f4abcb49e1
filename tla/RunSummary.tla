----------------------------- MODULE RunSummary -----------------------------
(***************************************************************************)
(* What a finished run leaves behind: complete_run                         *)
(* (runtime/memory_runtime.py) sets its status and stores an episodic and, *)
(* if it succeeded, a procedural memory built by memory/summarizer.py; the *)
(* maintenance operations summary_refresh and procedural_refresh           *)
(* (memory/scheduler.py) make up for what is missing.  Runs with events    *)
(* only, the refresh skips the others.                                     *)
(***************************************************************************)
EXTENDS RunPath

VARIABLES
  refresh,       \* the refresh operation under way
  calm           \* history: no two makers have overlapped, none has died

Resting(kind) == [at |-> "idle", kind |-> kind, nodes |-> {}, read |-> {}, plan |-> <<>>,
                  off |-> {}]
SummaryInit == refresh = Resting("episodic") /\ calm = TRUE

Refreshing == refresh.at # "idle"
Making(r) == job[r].at \in {"nodes of run", "memories", "write", "supersede"}
OthersAtWork(r) == Refreshing \/ \E s \in Requests \ {r} : Making(s)

Has(kind) == \E n \in DOMAIN row : row[n].kind = kind /\ row[n].status = "active"
ActiveRows(kind) ==
  {[n |-> n, row |-> row[n]] :
     n \in {k \in DOMAIN row : row[k].kind = kind /\ row[k].status = "active"}}

-----------------------------------------------------------------------------
(* build_run_summary.                                                      *)

Leaf(nodes) == IF nodes = {} THEN {} ELSE {Max(nodes)}

(* _successful_tool_evidence: two tests, of the memory and of its node.    *)
ToolEvidence(nodes) ==
  {i \in Items \ Project : branch[i] = "completed" /\ NodeOf[i] \in nodes}

(* _positive_project_constraint: the first one, whatever its branch.       *)
ProjectConstraint ==
  LET stored == {i \in Project : branch[i] # "none"}
  IN  IF stored = {} THEN {} ELSE {Min(stored)}

Episodic(result, nodes, off) ==
  [kind |-> "episodic", tells |-> result, from |-> {}, leaf |-> Leaf(nodes),
   status |-> "active", off |-> off,
   branch |-> IF result = "completed" THEN "completed" ELSE "failed"]

(* _build_procedural                                                       *)
Procedural(nodes, off) ==
  [kind |-> "procedural", tells |-> "completed",
   from |-> ToolEvidence(nodes) \cup ProjectConstraint, leaf |-> Leaf(nodes),
   status |-> "active", off |-> off, branch |-> "completed"]

Distils(result, nodes) ==
  result = "completed" /\ nodes \cup ToolEvidence(nodes) \cup ProjectConstraint # {}

Summaries(result, nodes, off) ==
  <<Episodic(result, nodes, off)>> \o
    (IF Distils(result, nodes) THEN <<Procedural(nodes, off)>> ELSE <<>>)

-----------------------------------------------------------------------------
(* complete_run.                                                           *)

SetRun(r, result) ==
  /\ Doing(r, "idle")
  /\ outcome' = result
  /\ job' = [job EXCEPT ![r].at = "nodes of run", ![r].off = gone.returned]
  /\ calm' = (calm /\ ~OthersAtWork(r))
  /\ UNCHANGED <<node, branch, row, budget, gone, spoilt, refresh>>

ReadNodes(r) ==
  /\ Doing(r, "nodes of run")
  /\ job' = [job EXCEPT ![r].at = "memories", ![r].nodes = OnPath]
  /\ UNCHANGED <<outcome, node, branch, row, budget, gone, spoilt, refresh, calm>>

ReadMemories(r, result) ==
  /\ Doing(r, "memories")
  /\ job' = [job EXCEPT ![r].at = "write",
                        ![r].plan = Summaries(result, job[r].nodes, job[r].off)]
  /\ UNCHANGED <<outcome, node, branch, row, budget, gone, spoilt, refresh, calm>>

\* Mutant of ListPrior: a summary of another outcome is left alone.
ListPriorOfOutcome(r) ==
  /\ Doing(r, "write")
  /\ job' = [job EXCEPT ![r].at = "supersede",
       ![r].read = {x \in ActiveRows(Head(job[r].plan).kind) :
                      x.row.tells = Head(job[r].plan).tells}]
  /\ UNCHANGED <<outcome, node, branch, row, budget, gone, spoilt, refresh, calm>>

(* _supersede_run_summary_key: what is active under the key ...            *)
ListPrior(r) ==
  /\ Doing(r, "write")
  /\ job' = [job EXCEPT ![r].at = "supersede", ![r].read = ActiveRows(Head(job[r].plan).kind)]
  /\ UNCHANGED <<outcome, node, branch, row, budget, gone, spoilt, refresh, calm>>

(* ... is written back as superseded, ...                                  *)
SupersedePrior(r) ==
  /\ Doing(r, "supersede")
  /\ \E x \in job[r].read :
       /\ row' = [row EXCEPT ![x.n] = [x.row EXCEPT !.status = "superseded"]]
       /\ job' = [job EXCEPT ![r].read = job[r].read \ {x}]
  /\ UNCHANGED <<outcome, node, branch, budget, gone, spoilt, refresh, calm>>

(* ... and the new memory added.                                           *)
AddSummary(r) ==
  LET rest == Tail(job[r].plan)
  IN  /\ Doing(r, "supersede") /\ job[r].read = {}
      /\ row' = Append(row, Head(job[r].plan))
      /\ job' = [job EXCEPT ![r].plan = rest,
                            ![r].at = IF rest = <<>> THEN "done" ELSE "write"]
      /\ UNCHANGED <<outcome, node, branch, budget, gone, spoilt, refresh, calm>>

CompleteRun(r, result) ==
  \/ SetRun(r, result) \/ ReadNodes(r) \/ ReadMemories(r, result)
  \/ ListPrior(r) \/ SupersedePrior(r) \/ AddSummary(r)

(* A handler dies, wherever it is.                                         *)
Die(r) ==
  /\ budget > 0 /\ budget' = budget - 1
  /\ ~Doing(r, "done") /\ Proceed(r, "dead")
  /\ calm' = (calm /\ ~Making(r))
  /\ UNCHANGED <<outcome, node, branch, row, gone, spoilt, refresh>>

-----------------------------------------------------------------------------
(* _refresh_completed_run_memory, for one kind after the other.            *)

Shared == <<outcome, node, branch, job, budget, gone, spoilt>>
Other(kind) == CHOOSE k \in Kinds : k # kind
Rest == refresh' = Resting(Other(refresh.kind))

(* list_runs: completed runs only.                                         *)
ListRuns ==
  /\ refresh.at = "idle" /\ outcome = "completed"
  /\ refresh' = [refresh EXCEPT !.at = "check", !.off = gone.returned]
  /\ calm' = (calm /\ \A r \in Requests : ~Making(r))
  /\ UNCHANGED <<Shared, row>>

\* Mutant of CheckMemory: a memory of any status will do.
CheckMemoryOfAnyStatus ==
  /\ refresh.at = "check"
  /\ \/ (\E n \in DOMAIN row : row[n].kind = refresh.kind) /\ Rest
     \/ (\A n \in DOMAIN row : row[n].kind # refresh.kind)
        /\ refresh' = [refresh EXCEPT !.at = "nodes"]
  /\ UNCHANGED <<Shared, row, calm>>

(* _has_run_memory                                                         *)
CheckMemory ==
  /\ refresh.at = "check"
  /\ \/ Has(refresh.kind) /\ Rest
     \/ ~Has(refresh.kind) /\ refresh' = [refresh EXCEPT !.at = "nodes"]
  /\ UNCHANGED <<Shared, row, calm>>

RefreshNodes ==
  /\ refresh.at = "nodes"
  /\ refresh' = [refresh EXCEPT !.at = "build", !.nodes = OnPath]
  /\ UNCHANGED <<Shared, row, calm>>

RefreshBuild ==
  LET built == Summaries("completed", refresh.nodes, refresh.off)
      candidates == {s \in {built[n] : n \in DOMAIN built} : s.kind = refresh.kind}
  IN  /\ refresh.at = "build"
      /\ \/ candidates = {} /\ Rest
         \/ \E s \in candidates :
              refresh' = [refresh EXCEPT !.at = "recheck", !.plan = <<s>>]
      /\ UNCHANGED <<Shared, row, calm>>

Recheck ==
  /\ refresh.at = "recheck"
  /\ \/ Has(refresh.kind) /\ Rest
     \/ ~Has(refresh.kind) /\ refresh' = [refresh EXCEPT !.at = "list"]
  /\ UNCHANGED <<Shared, row, calm>>

(* _supersede_active_memory_key: only rows that are still as they were.    *)
RefreshList ==
  /\ refresh.at = "list"
  /\ refresh' = [refresh EXCEPT !.at = "supersede", !.read = ActiveRows(refresh.kind)]
  /\ UNCHANGED <<Shared, row, calm>>

RefreshSupersede ==
  /\ refresh.at = "supersede"
  /\ \E x \in refresh.read :
       /\ refresh' = [refresh EXCEPT !.read = refresh.read \ {x}]
       /\ row' = [row EXCEPT ![x.n] =
            IF row[x.n].status = "active" THEN [@ EXCEPT !.status = "superseded"] ELSE @]
  /\ UNCHANGED <<Shared, calm>>

RefreshAdd ==
  /\ refresh.at = "supersede" /\ refresh.read = {}
  /\ row' = Append(row, Head(refresh.plan))
  /\ Rest
  /\ UNCHANGED <<Shared, calm>>

RefreshStep ==
  \/ ListRuns \/ CheckMemory \/ RefreshNodes \/ RefreshBuild \/ Recheck
  \/ RefreshList \/ RefreshSupersede \/ RefreshAdd

(* The worker dies; the operation starts over with the next run of it.     *)
RefreshDies ==
  /\ budget > 0 /\ budget' = budget - 1
  /\ Refreshing /\ refresh' = Resting("episodic")
  /\ calm' = FALSE
  /\ UNCHANGED <<outcome, node, branch, row, job, gone, spoilt>>

-----------------------------------------------------------------------------
(* Properties.                                                             *)

(* While completions and refreshes of the run have not overlapped or died  *)
(* half-way, there is at most one active memory of each kind, and the      *)
(* episodic one tells how the run ended last ("so the operation is         *)
(* idempotent", complete_run; "mirror the run outcome", summarizer.py).    *)
OneSummary ==
  calm /\ ~Refreshing /\ (\A r \in Requests : ~Making(r)) =>
    /\ \A k \in Kinds : Cardinality(ActiveRows(k)) <= 1
    /\ \A x \in ActiveRows("episodic") : x.row.tells = outcome

(* Tool evidence of a step whose rollback had returned before the summary  *)
(* was begun is not distilled into a procedure, even if its node was put   *)
(* back, or the evidence was stored late or put back: only if both marks   *)
(* were undone (_successful_tool_evidence looks at the memory and at the   *)
(* node).  The project memory a procedure names is not held to it:         *)
(* _positive_project_constraint takes one whatever became of its branch.   *)
FailureStaysOut ==
  \A n \in DOMAIN row : \A i \in row[n].from \ Project :
    NodeOf[i] \in row[n].off => Escaped(i)
=============================================================================
