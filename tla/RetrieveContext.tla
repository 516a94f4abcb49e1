--------------------------- MODULE RetrieveContext ---------------------------
(***************************************************************************)
(* RetrievalController.retrieve (retrieval/controller.py): candidates are  *)
(* selected, widened along cues and the provenance graph, judged by        *)
(* AdmissionGate, packed by ContextPacker, and what happened is logged.    *)
(* Each read of the repository is a transaction of its own, so memories    *)
(* change between the reads of one request; packing has no await and runs  *)
(* undisturbed.  The time limit covers everything up to the packing, not   *)
(* the logging.  Replay (observability/replay.py) does the same again from *)
(* the logs of a request and writes nothing: it is a function of the state.*)
(*                                                                         *)
(* Block 0 is the state of the run, block m the text of memory m, block    *)
(* NoticeOf[m] the notice made of it.  Scores are left out: the numbers of *)
(* the memories stand for their order by relevance, and nothing is said of *)
(* the numbers replay compares.                                            *)
(***************************************************************************)
EXTENDS AdmissionGate, ContextPacker

CONSTANTS
  Memories,      \* numbers from 1
  NoticeOf,      \* NoticeOf[m]: the block of a notice about m
  Traits,        \* Traits[m]: what never changes of a memory
  Here,          \* the workspace of the requests
  Requests,
  StrategiesOf,  \* StrategiesOf[r]: the strategies r may ask for
  Budgets,       \* token budgets of requests
  Hits,          \* the memories that match the query
  Leads,         \* Leads[m]: the memories found by the cues in m's text
  Always,        \* project memories, relevant to every query
  Disputes,      \* pairs of members of open conflicts
  TopK, MaxHops, GraphHops,       \* top_k, multi_hop_hops, graph_max_hops
  StaleWarning, Floor,            \* settings
  Changes        \* bound: how often a memory may change

ASSUME RetrievalConstants ==
  /\ Memories \subseteq Nat \ {0} /\ IsFiniteSet(Memories)
  /\ NoticeOf \in [Memories -> Nat \ (Memories \cup {0})]
  /\ Blocks = {0} \cup Memories \cup {NoticeOf[m] : m \in Memories}
  /\ 0 \in Protected /\ Facts \subseteq Memories
  /\ Hits \cup Always \subseteq Memories /\ Leads \in [Memories -> SUBSET Memories]
  /\ StrategiesOf \in [Requests -> SUBSET Strategies] /\ Budgets \subseteq Nat
  /\ MaxHops \in Nat /\ Changes \in Nat /\ Disputes \subseteq SUBSET Memories

VARIABLES
  row,      \* row[m]: status, branch, successor and age of memory m
  graph,    \* the edges merged into the graph store
  req,      \* req[r]: where request r is and what it knows
  access,   \* access[r]: its access log
  gateLog,  \* gateLog[r][m]: the decision logged for candidate m
  dropLog,  \* dropLog[r]: the blocks its compaction log says were dropped
  bumps,    \* bumps[m]: access_count
  fit,      \* history: fit[r]: the memories fit for r since it began, see Fit
  calm,     \* history: the requests nothing has changed since they selected
  changes

logs == <<access, gateLog, dropLog, bumps>>
history == <<fit, calm, changes>>
vars == <<row, graph, req, logs, history, packer>>

Statuses == {"active", "pinned", "conflicted", "quarantined"}
Rows == [status : GateStatuses, branch : Branches, by : Memories \cup {0},
         expired : BOOLEAN]
Unseen == [status |-> "deleted", branch |-> "active", by |-> 0, expired |-> FALSE]
NoDecision == [decision |-> "none", reason |-> "none"]

Asked == [at : {"idle", "select", "hop", "gate", "pack", "access", "gates",
                "compaction", "bump", "returned", "timed_out", "failed"},
          strategy : Strategies, budget : Nat, hop : 0..MaxHops,
          found : SUBSET Memories, fresh : SUBSET Memories, seen : [Memories -> Rows],
          todo : SUBSET Memories, blocks : SUBSET Blocks, dropped : SUBSET Blocks]

Init ==
  /\ row = [m \in Memories |-> [status |-> "active", branch |-> "active", by |-> 0,
                                expired |-> FALSE]]
  /\ graph = {}
  /\ req = [r \in Requests |->
              [at |-> "idle", strategy |-> "baseline_0", budget |-> 0, hop |-> 0,
               found |-> {}, fresh |-> {}, seen |-> [m \in Memories |-> Unseen], todo |-> {},
               blocks |-> {}, dropped |-> {}]]
  /\ access = [r \in Requests |-> "none"]
  /\ gateLog = [r \in Requests |-> [m \in Memories |-> NoDecision]]
  /\ dropLog = [r \in Requests |-> {}]
  /\ bumps = [m \in Memories |-> 0]
  /\ fit = [r \in Requests |-> {}] /\ calm = {} /\ changes = 0
  /\ PackInit

At(r, where) == req[r].at = where
Goto(r, where) == req' = [req EXCEPT ![r].at = where]
Reading(r) == req[r].at \in {"select", "hop", "gate"}

(* What a request may show as fact: rows that may be retrieved, and where  *)
(* failures are learnt from no failed attempts.                            *)
Fit(strategy, x) ==
  x.status \in Statuses /\ (strategy \in Learning => ~ Failed(x))

-----------------------------------------------------------------------------
(* Selection.                                                              *)

(* _RETRIEVABLE_STATUSES, and the workspace of the request.                *)
Retrievable(rows) ==
  {m \in Memories : Traits[m].home = Here /\ rows[m].status \in Statuses}

(* provenance_edges: a superseded memory and its successor, and the        *)
(* members of a conflict, are neighbours.                                  *)
Edges(rows) == {{m, rows[m].by} : m \in {n \in Memories : rows[n].by # 0}} \cup Disputes

(* _bfs_relatedness                                                        *)
Within(edges, seeds) ==
  LET reach[h \in 0..GraphHops] ==
        IF h = 0 THEN seeds
        ELSE reach[h - 1] \cup UNION {e \in edges : e \cap reach[h - 1] # {}}
  IN  reach[GraphHops]

TopRanked(S) == {m \in S : Cardinality({n \in S : n < m}) < TopK}

(* _expand_graph_neighbors: a neighbour is added if it may be retrieved.   *)
Linked(rows, edges, found) == Within(edges, found) \cap Retrievable(rows)

\* Mutant of Chosen: neighbours need not be retrievable.
ChosenWithRetired(rows, edges, hits) ==
  LET found == Retrievable(rows) \cap (hits \cup Always)
  IN  TopRanked(found \cup (Within(edges, found) \cap Memories))

(* _select_candidates: what matches, and what the graph links to it, best  *)
(* first.                                                                  *)
Chosen(rows, edges, hits) ==
  LET found == Retrievable(rows) \cap (hits \cup Always)
  IN  TopRanked(found \cup Linked(rows, edges, found))

(* derive_hop_cues and the loop of _select_candidates_multi_hop: the cues  *)
(* of what was found last lead to more, as far as the token budget goes.   *)
Fitting(new, room) ==
  {S \in SUBSET new :
     \A n \in new : n \in S <=> TokensOf({k \in S : k < n} \cup {n}) <= room}

Widened(known, fresh, tokens, rows, edges) ==
  LET cued == UNION {Leads[m] : m \in fresh}
  IN  IF cued = {} \/ TokensOf(known) >= tokens THEN {{}}
      ELSE Fitting(Chosen(rows, edges, cued) \ known, tokens - TokensOf(known))

MultiHop(strategy) == MaxHops > 0 /\ strategy \in Learning

Read(seen, rows, S) == [m \in Memories |-> IF m \in S THEN rows[m] ELSE seen[m]]

-----------------------------------------------------------------------------
(* Judgement.                                                              *)

Memory(m, r) ==
  [home |-> Traits[m].home, secret |-> Traits[m].secret, flags |-> Traits[m].flags,
   leaks |-> Traits[m].leaks, weak |-> Traits[m].weak,
   status |-> r.status, branch |-> r.branch, expired |-> r.expired]

Judged(m, r, strategy) ==
  Verdict(Memory(m, r), Config(strategy, StaleWarning, Floor), Here)
VerdictOf(q, m) == Judged(m, q.seen[m], q.strategy)
ModeOf(q, m) == EvidenceMode(Memory(m, q.seen[m]), VerdictOf(q, m))

Accepted(q) == {m \in q.found : Admitted(VerdictOf(q, m))}
Notices(q) ==
  NoticeChoices({m \in q.found : ModeOf(q, m) # "none"},
                [m \in Memories |-> Traits[m].node])

-----------------------------------------------------------------------------
(* Operations of a request.                                                *)

Begin(r, s, b) ==
  /\ At(r, "idle")
  /\ req' = [req EXCEPT ![r].strategy = s, ![r].budget = b,
                        ![r].at = IF s = "baseline_0" THEN "access" ELSE "select"]
  /\ fit' = [fit EXCEPT ![r] = {m \in Memories : Fit(s, row[m])}]
  /\ UNCHANGED <<row, graph, logs, calm, changes, packer>>

Select(r) ==
  LET q == req[r]
      edges == graph \cup Edges(row)
      S == IF q.strategy = "long_context" THEN Retrievable(row)
           ELSE Chosen(row, edges, Hits)
  IN  /\ At(r, "select")
      /\ req' = [req EXCEPT ![r].found = S, ![r].fresh = S, ![r].seen = Read(q.seen, row, S),
                            ![r].at = IF MultiHop(q.strategy) THEN "hop" ELSE "gate"]
      /\ graph' = IF q.strategy = "long_context" THEN graph ELSE edges
      /\ calm' = calm \cup {r}
      /\ UNCHANGED <<row, logs, fit, changes, packer>>

(* A hop reads the memories anew.                                          *)
Hop(r) ==
  LET q == req[r]
      edges == graph \cup Edges(row)
  IN  /\ At(r, "hop")
      /\ \E S \in Widened(q.found, q.fresh, q.budget, row, edges) :
           req' = [req EXCEPT
             ![r].found = q.found \cup S, ![r].fresh = S,
             ![r].seen = Read(q.seen, row, S), ![r].hop = q.hop + 1,
             ![r].at = IF S = {} \/ q.hop + 1 = MaxHops THEN "gate" ELSE "hop"]
      /\ graph' = edges
      /\ UNCHANGED <<row, logs, history, packer>>

(* The candidates are judged; long_context has as many tokens as it needs. *)
Gate(r) ==
  LET q == req[r]
  IN  /\ At(r, "gate")
      /\ \E N \in Notices(q) :
           LET S == {0} \cup Accepted(q) \cup {NoticeOf[m] : m \in N}
           IN  StartPacking(S, IF q.strategy = "long_context"
                               THEN High(q.budget, TokensOf(S)) ELSE q.budget)
      /\ Goto(r, "pack")
      /\ UNCHANGED <<row, graph, logs, history>>

Packed(r) ==
  /\ At(r, "pack") /\ phase = "done"
  /\ req' = [req EXCEPT ![r].at = "access", ![r].budget = budget,
                        ![r].blocks = kept, ![r].dropped = Dropped]
  /\ phase' = "idle" /\ budget' = 0 /\ given' = {} /\ kept' = {} /\ size' = Tokens
  /\ used' = 0 /\ told' = {} /\ spare' = [fact |-> 0, notice |-> 0]
  /\ UNCHANGED <<row, graph, logs, history, todo>>

\* Mutant of Timeout: what has been found so far is logged.
TimeoutLogged(r) ==
  /\ req[r].at \in {"select", "hop", "gate"}
  /\ access' = [access EXCEPT ![r] = "timeout"]
  /\ gateLog' = [gateLog EXCEPT ![r] =
                   [m \in Memories |-> IF m \in req[r].found THEN VerdictOf(req[r], m)
                                       ELSE NoDecision]]
  /\ Goto(r, "timed_out")
  /\ UNCHANGED <<row, graph, dropLog, bumps, history, packer>>

(* The caller gets an empty context.                                       *)
Timeout(r) ==
  /\ req[r].at \in {"select", "hop", "gate"}
  /\ access' = [access EXCEPT ![r] = "timeout"]
  /\ Goto(r, "timed_out")
  /\ UNCHANGED <<row, graph, gateLog, dropLog, bumps, history, packer>>

(* _persist_trace: the access log, a gate log for each candidate, then     *)
(* what packing dropped.                                                   *)
LogAccess(r) ==
  /\ At(r, "access")
  /\ access' = [access EXCEPT ![r] = "full"]
  /\ req' = [req EXCEPT ![r].at = "gates", ![r].todo = req[r].found]
  /\ UNCHANGED <<row, graph, gateLog, dropLog, bumps, history, packer>>

\* Mutant of LogGate: candidates that were rejected are not logged.
LogAccepted(r) ==
  /\ At(r, "gates")
  /\ IF req[r].todo = {}
     THEN Goto(r, "compaction") /\ UNCHANGED gateLog
     ELSE \E m \in First(req[r].todo) :
            /\ gateLog' = IF m \in Accepted(req[r])
                          THEN [gateLog EXCEPT ![r][m] = VerdictOf(req[r], m)]
                          ELSE gateLog
            /\ req' = [req EXCEPT ![r].todo = req[r].todo \ {m}]
  /\ UNCHANGED <<row, graph, access, dropLog, bumps, history, packer>>

LogGate(r) ==
  /\ At(r, "gates")
  /\ IF req[r].todo = {}
     THEN Goto(r, "compaction") /\ UNCHANGED gateLog
     ELSE \E m \in First(req[r].todo) :
            /\ gateLog' = [gateLog EXCEPT ![r][m] = VerdictOf(req[r], m)]
            /\ req' = [req EXCEPT ![r].todo = req[r].todo \ {m}]
  /\ UNCHANGED <<row, graph, access, dropLog, bumps, history, packer>>

LogDropped(r) ==
  /\ At(r, "compaction")
  /\ dropLog' = [dropLog EXCEPT ![r] = IF Reserve(req[r].budget) > 0
                                       THEN req[r].dropped ELSE {}]
  /\ req' = [req EXCEPT ![r].at = "bump", ![r].todo = Accepted(req[r])]
  /\ UNCHANGED <<row, graph, access, gateLog, bumps, history, packer>>

\* Mutant of Bump: only memories that were packed count as accessed.
BumpPacked(r) ==
  /\ At(r, "bump")
  /\ IF req[r].todo = {} THEN Goto(r, "returned") /\ UNCHANGED bumps
     ELSE \E m \in First(req[r].todo) :
            /\ bumps' = IF m \in req[r].blocks
                        THEN [bumps EXCEPT ![m] = bumps[m] + 1] ELSE bumps
            /\ req' = [req EXCEPT ![r].todo = req[r].todo \ {m}]
  /\ UNCHANGED <<row, graph, access, gateLog, dropLog, history, packer>>

(* _bump_access_counts, and the context is returned.                       *)
Bump(r) ==
  /\ At(r, "bump")
  /\ IF req[r].todo = {} THEN Goto(r, "returned") /\ UNCHANGED bumps
     ELSE \E m \in First(req[r].todo) :
            /\ bumps' = [bumps EXCEPT ![m] = bumps[m] + 1]
            /\ req' = [req EXCEPT ![r].todo = req[r].todo \ {m}]
  /\ UNCHANGED <<row, graph, access, gateLog, dropLog, history, packer>>

(* A write of the log fails, or the process dies: the caller gets nothing. *)
Fail(r) ==
  /\ req[r].at \in {"access", "gates", "compaction", "bump"}
  /\ Goto(r, "failed")
  /\ UNCHANGED <<row, graph, logs, history, packer>>

-----------------------------------------------------------------------------
(* What others do to the memories meanwhile.  A row is moved by audited    *)
(* transitions, a retired one may be pinned, and by copies read earlier    *)
(* that are written back whole: any status may follow any other, only that *)
(* none but a pinned row becomes active (transition_memory_status,         *)
(* _preserved_lifecycle_fields), and its branch may go either way.         *)
Changed(m, new) ==
  /\ changes < Changes /\ new # row[m]
  /\ row' = [row EXCEPT ![m] = new]
  /\ fit' = [r \in Requests |-> IF Reading(r) /\ Fit(req[r].strategy, new)
                                THEN fit[r] \cup {m} ELSE fit[r]]
  /\ changes' = changes + 1 /\ calm' = {}
  /\ UNCHANGED <<graph, req, logs, packer>>

SetStatus(m, s) ==
  /\ s # "superseded" /\ (s = "active" => row[m].status = "pinned")
  /\ Changed(m, [row[m] EXCEPT !.status = s, !.by = 0])
Supersede(m, n) == n # m /\ Changed(m, [row[m] EXCEPT !.status = "superseded", !.by = n])
SetBranch(m, b) == Changed(m, [row[m] EXCEPT !.branch = b])
Expire(m) == Changed(m, [row[m] EXCEPT !.expired = TRUE])

Request(r) ==
  \/ \E s \in StrategiesOf[r], b \in Budgets : Begin(r, s, b)
  \/ Select(r) \/ Hop(r) \/ Gate(r) \/ Timeout(r)
  \/ LogAccess(r) \/ LogGate(r) \/ LogDropped(r) \/ Bump(r) \/ Fail(r)

Others(m) ==
  \/ \E s \in GateStatuses : SetStatus(m, s)
  \/ \E n \in Memories : Supersede(m, n)
  \/ \E b \in Branches : SetBranch(m, b)
  \/ Expire(m)

Packing == PackStep /\ UNCHANGED <<row, graph, req, logs, history>>

Next ==
  \/ phase = "idle" /\ \E r \in Requests : Request(r)
  \/ phase = "idle" /\ \E m \in Memories : Others(m)
  \/ Packing
  \/ \E r \in Requests : Packed(r)

Spec == Init /\ [][Next]_vars

-----------------------------------------------------------------------------
(* replay_access: the request is run again on the memories as they are,    *)
(* and compared with what its logs say.                                    *)

Again(r) ==
  LET q == req[r]
      edges == graph \cup Edges(row)
      first == IF q.strategy = "baseline_0" THEN {}
               ELSE IF q.strategy = "long_context" THEN Retrievable(row)
               ELSE Chosen(row, edges, Hits)
      hops[h \in 0..MaxHops] ==
        IF h = 0 THEN [found |-> first, fresh |-> first]
        ELSE LET h0 == hops[h - 1]
                 S == UNION Widened(h0.found, h0.fresh, q.budget, row, edges)
             IN  [found |-> h0.found \cup S, fresh |-> S]
  IN  IF MultiHop(q.strategy) THEN hops[MaxHops].found ELSE first

Logged(r) == {m \in Memories : gateLog[r][m] # NoDecision}

(* _diff_candidates and _diff_scores_and_gate, but for orders and scores.  *)
DecisionDrift(r) ==
  {m \in Again(r) \cup Logged(r) :
     \/ m \notin Again(r) \/ m \notin Logged(r)
     \/ Judged(m, row[m], req[r].strategy) # gateLog[r][m]}

(* What pack_context is given: the memories whose text it packs, and how   *)
(* the others are noticed.  Blocks, tokens and what is dropped follow.     *)
PackInput(S, rows, verdicts) ==
  [texts |-> {m \in S : Admitted(verdicts[m])},
   notices |-> [m \in S |-> EvidenceMode(Memory(m, rows[m]), verdicts[m])]]

Given(q) == PackInput(q.found, q.seen, [m \in Memories |-> VerdictOf(q, m)])
Rebuilt(r) == PackInput(Logged(r), row, gateLog[r])
Replayed(r) ==
  PackInput(Again(r), row, [m \in Memories |-> Judged(m, row[m], req[r].strategy)])

(* _diff_context_blocks packs anew what the logs tell; _diff_token_usage   *)
(* and _diff_compaction_logs compare with what was packed then.            *)
ContextDrift(r) == Rebuilt(r) # Replayed(r) \/ Given(req[r]) # Replayed(r)

-----------------------------------------------------------------------------
TypeOK ==
  /\ PackTypeOK
  /\ row \in [Memories -> Rows] /\ graph \subseteq SUBSET Memories
  /\ req \in [Requests -> Asked]
  /\ access \in [Requests -> {"none", "full", "timeout"}]
  /\ DOMAIN gateLog = Requests /\ dropLog \in [Requests -> SUBSET Blocks]
  /\ bumps \in [Memories -> Nat] /\ fit \in [Requests -> SUBSET Memories]
  /\ calm \subseteq Requests /\ changes \in 0..Changes

(* Whatever the strategy, no context shows the text of a memory that was   *)
(* quarantined, secret, destructive or tool sensitive when it was read, or *)
(* of another workspace; a notice shows text only if nothing in it is      *)
(* unsafe.                                                                 *)
SafeContext ==
  \A r \in Requests, m \in Memories :
    LET q == req[r]
    IN  /\ m \in q.blocks =>
             /\ Traits[m].home = Here /\ ~ Traits[m].secret
             /\ Traits[m].flags \cap {"destructive_command", "tool_sensitive"} = {}
             /\ q.seen[m].status # "quarantined"
        /\ NoticeOf[m] \in q.blocks /\ ModeOf(q, m) \in {"raw_failed_attempt", "outdated_warning"} =>
             ~ Traits[m].leaks /\ ~ Unsafe(Traits[m])

(* What is retired when a request begins and until it is answered never    *)
(* reaches its context, by any hop or link; nor is told as fact, where     *)
(* failures are learnt from, what all that time has failed or may not be   *)
(* retrieved.  A memory that others pin or put back meanwhile may be shown *)
(* (_RETRIEVABLE_STATUSES, AdmissionGate.evaluate).                        *)
RetiredStaysOut ==
  \A r \in Requests : req[r].blocks \cap Memories \subseteq fit[r]

(* A context that was returned is fully logged: its access, a decision on  *)
(* every candidate, what was dropped; each memory it accepted was counted. *)
(* A request that timed out has an access log and nothing else.            *)
ServedIsLogged ==
  /\ \A r \in Requests :
       /\ At(r, "returned") =>
            /\ access[r] = "full" /\ Logged(r) = req[r].found
            /\ req[r].blocks \cap Memories \subseteq
                 {m \in Memories : Admitted(gateLog[r][m])}
            /\ Reserve(req[r].budget) > 0 => dropLog[r] = req[r].dropped
       /\ At(r, "timed_out") =>
            access[r] = "timeout" /\ Logged(r) = {} /\ dropLog[r] = {}
  /\ \A m \in Memories :
       bumps[m] >= Cardinality({r \in Requests : At(r, "returned") /\ m \in Accepted(req[r])})

(* If nothing has changed since a request selected, its replay agrees with *)
(* its logs and with what was packed: no candidate is added, removed or    *)
(* judged otherwise, and packing is given the same texts and notices       *)
(* (replay_access).                                                        *)
ReplayAgrees ==
  \A r \in calm : At(r, "returned") => DecisionDrift(r) = {} /\ ~ ContextDrift(r)
=============================================================================
