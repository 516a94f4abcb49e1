---------------------------- MODULE AdmissionGate ----------------------------
(***************************************************************************)
(* The layered policy that decides which memories may enter a context      *)
(* (retrieval/gate.py) and the notices made of failed and outdated ones    *)
(* (retrieval/negative_evidence.py).                                       *)
(*                                                                         *)
(* A memory is a record: its workspace (home), status and branch, the node *)
(* that produced it, whether it is secret by sensitivity or by flag, its   *)
(* other risk flags, whether its text holds a secret nobody flagged        *)
(* (leaks), whether it has expired, and whether it is only weakly related  *)
(* to the query (weak).  Scores are left out.                              *)
(***************************************************************************)
EXTENDS Naturals, FiniteSets, FiniteSetsExt

Strategies == {"baseline_0", "baseline_1", "variant_1", "variant_2", "variant_3",
               "long_context"}
RiskFlags == {"destructive_command", "tool_sensitive", "production_env"}
GateStatuses == {"active", "pinned", "conflicted", "quarantined", "deleted",
                 "superseded", "dormant", "archived"}
Branches == {"active", "completed", "failed", "rolled_back"}

Ablations == {"baseline_1", "long_context"}
Learning == {"variant_2", "variant_3"}

(* GateConfig.for_strategy and what the settings add to it.                *)
Config(strategy, staleWarning, floor) ==
  [hard |-> strategy \notin Ablations,
   risk |-> strategy \notin Ablations,
   allowFailed |-> strategy \in Ablations \cup {"variant_1"},
   learn |-> strategy \in Learning,
   stale |-> staleWarning /\ strategy \in Learning,
   floor |-> floor /\ strategy \in Learning]

Failed(m) == m.branch \in {"failed", "rolled_back"}
Unsafe(m) == m.secret \/ m.flags # {}

Accept == [decision |-> "accept", reason |-> "none"]
Warn == [decision |-> "warn", reason |-> "none"]
Reject(why) == [decision |-> "reject", reason |-> why]
Degrade(why) == [decision |-> "degrade", reason |-> why]

(* Failed and rolled-back attempts: learnt from, or kept out.              *)
FailedVerdict(m, cfg) ==
  LET failed == m.branch = "failed"
  IN  IF ~ cfg.learn THEN Reject(IF failed THEN "failed_branch" ELSE "rolled_back")
      ELSE IF Unsafe(m)
      THEN Reject(IF failed THEN "failed_branch_sanitized" ELSE "rolled_back_sanitized")
      ELSE Degrade(IF failed THEN "failed_branch_degraded" ELSE "rolled_back_degraded")

(* The safety floor, which no strategy switches off.                       *)
FloorVerdict(m) ==
  IF m.secret THEN Reject("secret")
  ELSE IF "destructive_command" \in m.flags THEN Reject("destructive_command")
  ELSE IF "tool_sensitive" \in m.flags THEN Reject("tool_sensitive")
  ELSE Accept

RiskVerdict(m, cfg) ==
  IF m.expired
  THEN IF cfg.stale /\ ~ Unsafe(m) THEN Degrade("stale_outdated") ELSE Reject("stale")
  ELSE IF "production_env" \in m.flags \/ m.status = "conflicted" THEN Warn
  ELSE Accept

\* Mutant of Verdict: the floor belongs to the hard policy.
VerdictFloorWithHard(m, cfg, here) ==
  IF m.status = "quarantined" THEN Reject("invalid_status")
  ELSE IF cfg.floor /\ m.weak /\ m.status # "pinned" THEN Reject("below_relevance_floor")
  ELSE IF cfg.hard /\ m.home # here THEN Reject("workspace_mismatch")
  ELSE IF cfg.hard /\ m.status = "deleted" THEN Reject("invalid_status")
  ELSE IF cfg.hard /\ Failed(m) /\ ~ cfg.allowFailed THEN FailedVerdict(m, cfg)
  ELSE IF cfg.hard /\ FloorVerdict(m) # Accept THEN FloorVerdict(m)
  ELSE IF cfg.risk THEN RiskVerdict(m, cfg)
  ELSE Accept

(* evaluate, layer by layer; the first that objects decides.               *)
Verdict(m, cfg, here) ==
  IF m.status = "quarantined" THEN Reject("invalid_status")
  ELSE IF cfg.floor /\ m.weak /\ m.status # "pinned" THEN Reject("below_relevance_floor")
  ELSE IF cfg.hard /\ m.home # here THEN Reject("workspace_mismatch")
  ELSE IF cfg.hard /\ m.status = "deleted" THEN Reject("invalid_status")
  ELSE IF cfg.hard /\ Failed(m) /\ ~ cfg.allowFailed THEN FailedVerdict(m, cfg)
  ELSE IF FloorVerdict(m) # Accept THEN FloorVerdict(m)
  ELSE IF cfg.risk THEN RiskVerdict(m, cfg)
  ELSE Accept

Admitted(v) == v.decision \in {"accept", "warn"}

-----------------------------------------------------------------------------
(* build_negative_evidence: how a memory that was kept out is shown.       *)

Sanitized(v) == v.reason \in {"failed_branch_sanitized", "rolled_back_sanitized"}

EvidenceMode(m, v) ==
  IF v.decision = "degrade" /\ v.reason = "stale_outdated"
  THEN IF m.leaks THEN "withheld_notice" ELSE "outdated_warning"
  ELSE IF ~ Failed(m) THEN "none"
  ELSE IF v.decision = "degrade"
  THEN IF Unsafe(m) \/ m.leaks THEN "sanitized_notice" ELSE "raw_failed_attempt"
  ELSE IF Sanitized(v) THEN "sanitized_notice"
  ELSE "none"

(* dedupe_negative_evidence: one notice per state node, three at most.     *)
(* Which of a node's memories speaks for it depends on scores and types.   *)
NoticeChoices(S, node) ==
  LET perNode == {N \in SUBSET S : \A m, n \in N : node[m] = node[n] => m = n}
      full == {N \in perNode : Cardinality(N) = Cardinality({node[m] : m \in S})}
  IN  IF Cardinality({node[m] : m \in S}) <= 3 THEN full
      ELSE {N \in perNode : Cardinality(N) = 3}
=============================================================================
