------------------------------ MODULE ApiServer ------------------------------
(***************************************************************************)
(* The API server: RequestGate lets requests through to their handlers,    *)
(* of which complete_run, rollback_branch and the history fold of          *)
(* retrieve_context work on one run, beside the maintenance operations     *)
(* that refresh its summaries.  The handler of a request runs when the     *)
(* gate has let it pass, and the answer is given when it is done.          *)
(***************************************************************************)
EXTENDS RequestGate, RunSummary, HistoryFold

ASSUME ServerConstants ==
  /\ GateConstants /\ IsFiniteSet(Steps)
  /\ \A w \in Workloads : \A r \in Requests :
       w.asked[r].result \in Outcomes /\ w.asked[r].step \in Steps

run == <<outcome, node, branch, row, job, budget, gone, spoilt, refresh, calm, fold>>
vars == <<gate, run>>

RunOps == {"complete_run", "rollback_branch", "retrieve_context"}
Op(r) == setup.asked[r].op

Init ==
  /\ \E w \in Workloads : GateInitWith(w) /\ PathInit(w.present, w.budget)
  /\ SummaryInit /\ FoldInit

(* A step of the gate.  The answer to a request about the run waits for    *)
(* its handler, and a request that fails takes its handler with it.        *)
GateStep(r) ==
  LET about == Op(r) \in RunOps /\ req[r].at = "work"
  IN  \/ /\ Step(r) /\ (about => req'[r].at = "answered" /\ Doing(r, "done"))
         /\ UNCHANGED run
      \/ /\ about /\ HandlerFails(r) /\ Die(r) /\ UNCHANGED fold

Handle(r) ==
  LET asked == setup.asked[r]
  IN  /\ req[r].at = "work"
      /\ \/ asked.op = "complete_run" /\ CompleteRun(r, asked.result) /\ UNCHANGED fold
         \/ asked.op = "rollback_branch" /\ Rollback(r, asked.step)
            /\ UNCHANGED <<refresh, calm, fold>>
         \/ asked.op = "retrieve_context" /\ RetrieveHistory(r)
            /\ UNCHANGED <<refresh, calm>>
      /\ UNCHANGED gate

(* Maintenance runs are started over the admin API, by nobody else: Celery *)
(* beat is off by default and its message is refused by the task.          *)
Maintained == setup.settings.admin
Maintain == Maintained /\ RefreshStep /\ UNCHANGED <<gate, fold>>

Next ==
  \/ Tick /\ UNCHANGED run
  \/ \E r \in Requests : GateStep(r) \/ Handle(r)
  \/ Maintain
  \/ Elsewhere /\ UNCHANGED <<refresh, calm, fold, gate>>
  \/ RefreshDies /\ UNCHANGED <<fold, gate>>

Spec == Init /\ [][Next]_vars

-----------------------------------------------------------------------------
(* The tables and handlers are well formed (RequestGate, RunPath).         *)
TypeOK ==
  /\ GateTypeOK
  /\ outcome \in Outcomes /\ branch \in [Items -> {"none", "completed", "rolled_back"}]
  /\ node \in [Steps -> {"completed", "rolled_back"}]
  /\ \A n \in DOMAIN row : row[n] \in SummaryRows
  /\ \A r \in Requests : fold[r].facts \cup fold[r].pairs \subseteq Project

(* If administrators keep refresh operations coming to their end, a        *)
(* completed run gets its episodic memory, also if the completion died     *)
(* half-way or the memory was archived, unless the run is set to another   *)
(* outcome (summary_refresh).                                              *)
RefreshesRecur == []<><<Maintain /\ ~Refreshing'>>_vars

SummarisedEventually ==
  RefreshesRecur =>
    (outcome = "completed") ~> (Has("episodic") \/ outcome # "completed")

(* What a rollback had taken away is not used again, unless both its marks *)
(* were undone: its tool evidence in a procedure distilled later           *)
(* (RunSummary), its facts in a history folded later (HistoryFold).        *)
BranchStaysOut == FailureStaysOut /\ FoldStaysOnPath
=============================================================================
