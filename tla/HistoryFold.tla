----------------------------- MODULE HistoryFold -----------------------------
(***************************************************************************)
(* What retrieve_context puts before its answer: the events on the active  *)
(* path folded into a summary (_maybe_fold_history, runtime/               *)
(* memory_runtime.py) by a summarizer provider, whose answer is validated  *)
(* (memory/summarizer_provider.py).  It may retain no fact that was not    *)
(* handed to it, and its prose may state no other as key=value; what else  *)
(* the prose says is not looked at, and not modelled.  Any failure or      *)
(* timeout means no fold.                                                  *)
(***************************************************************************)
EXTENDS RunPath

CONSTANT Threshold    \* compaction_history_token_threshold, in steps

VARIABLE fold         \* fold[r]: the folded history request r returned

NoFold == [made |-> FALSE, facts |-> {}, pairs |-> {}]
FoldInit == fold = [r \in Requests |-> NoFold]

Quiet == <<outcome, node, branch, row, budget, gone, spoilt>>

(* _fold_history_impl: the nodes on the active path, ...                   *)
ReadPath(r) ==
  /\ Doing(r, "idle")
  /\ job' = [job EXCEPT ![r].at = IF OnPath = {} THEN "done" ELSE "events",
                        ![r].nodes = OnPath, ![r].off = gone.returned]
  /\ UNCHANGED <<Quiet, fold>>

(* ... their events, if they are worth a summary, ...                      *)
ReadEvents(r) ==
  /\ Doing(r, "events")
  /\ \/ Cardinality(job[r].nodes) < Threshold /\ Proceed(r, "done")
     \/ Cardinality(job[r].nodes) >= Threshold /\ Proceed(r, "facts")
  /\ UNCHANGED <<Quiet, fold>>

\* Mutant of Retained: the branch of the memory is not looked at.
RetainedByNode(nodes) == {i \in Project : branch[i] # "none" /\ NodeOf[i] \in nodes}

(* ... and the facts to retain (_history_retained_facts).                  *)
Retained(nodes) == {i \in Project : branch[i] = "completed" /\ NodeOf[i] \in nodes}

ReadFacts(r) ==
  /\ Doing(r, "facts")
  /\ job' = [job EXCEPT ![r].at = "provider", ![r].items = Retained(job[r].nodes)]
  /\ UNCHANGED <<Quiet, fold>>

(* What a provider may answer: the facts it retains, those its prose       *)
(* states as key=value pairs (up to the first blank of a value), whether   *)
(* it kept the source ids, and whether it is over the budget.              *)
Replies ==
  [facts : SUBSET Project, pairs : SUBSET Project, sources : BOOLEAN, long : BOOLEAN]

(* _validate_result                                                        *)
Valid(reply, known) ==
  /\ reply.facts = known
  /\ reply.pairs \subseteq known
  /\ reply.sources

(* RuleSummarizerProvider names every fact.                                *)
RuleReply(known) == [facts |-> known, pairs |-> known, sources |-> TRUE, long |-> FALSE]

(* A valid answer is cut to the budget and becomes a block; any other      *)
(* raises, and no history is folded.                                       *)
Fold(r) ==
  /\ Doing(r, "provider") /\ Proceed(r, "done")
  /\ \E reply \in Replies \cup {RuleReply(job[r].items)} :
       \/ /\ Valid(reply, job[r].items)
          /\ \E pairs \in IF reply.long THEN SUBSET reply.pairs ELSE {reply.pairs} :
               fold' = [fold EXCEPT ![r] = [made |-> TRUE, facts |-> reply.facts, pairs |-> pairs]]
       \/ ~Valid(reply, job[r].items) /\ UNCHANGED fold
  /\ UNCHANGED Quiet

(* The time limit around the whole of it, or a failed read.                *)
FoldTimesOut(r) ==
  /\ job[r].at \in {"events", "facts", "provider"} /\ Proceed(r, "done")
  /\ UNCHANGED <<Quiet, fold>>

RetrieveHistory(r) ==
  ReadPath(r) \/ ReadEvents(r) \/ ReadFacts(r) \/ Fold(r) \/ FoldTimesOut(r)

-----------------------------------------------------------------------------
(* A folded history retains, and states as key=value, only facts of steps  *)
(* that were on the path when the request began: what a rollback had taken *)
(* away before is not in it, whatever the provider answers, unless its     *)
(* node was put back and the fact was stored late or put back too          *)
(* (_history_retained_facts, _validate_result).  Free wording of the prose *)
(* is not spoken of: nothing in the code checks it.                        *)
FoldStaysOnPath ==
  \A r \in Requests : fold[r].made =>
    \A i \in fold[r].facts \cup fold[r].pairs : NodeOf[i] \in job[r].off => Escaped(i)
=============================================================================
