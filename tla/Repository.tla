----------------------------- MODULE Repository -----------------------------
(***************************************************************************)
(* What a repository does for its callers (runtime/repository.py): every   *)
(* call of the protocol takes effect at once, as in InMemoryRepository,    *)
(* and is answered, or is refused for a reason and leaves nothing behind.  *)
(* Four things go beyond that class.  The store may fail.  It may have a   *)
(* schema, and refuse what the class takes (SchemaRefuses): an event or a  *)
(* log entry whose identifier is taken, a row of a run that is not there,  *)
(* a write that met another one.  Of a row that exists, a call may leave a *)
(* column alone that held the wanted value at some moment since the call   *)
(* began (`held').  Rows that the order of a list does not tell apart come *)
(* in any order; of two equal log entries one is kept.                     *)
(*                                                                         *)
(* A row is a record of the columns that some method looks at; `body'      *)
(* stands for the others.  Identifiers and times are numbers.  Quota       *)
(* limits are written by RequestGate's upsert; here they are read and      *)
(* deleted.                                                                *)
(***************************************************************************)
EXTENDS Tables

CONSTANTS
  Workloads,   \* the calls made at once, by number, and the rows stored before
  MaxPage      \* MAX_ADMIN_PAGE_SIZE

VARIABLES
  db,       \* db[t]: the rows of table t
  asked,    \* asked[c]: what call c wants
  answer,   \* answer[c]: what it got
  held,     \* held[c]: columns that held what c wants, since c began
  overwritten,  \* the events that a later append of their identifier replaced
  faults    \* failures of the store
vars == <<db, asked, answer, held, overwritten, faults>>

-----------------------------------------------------------------------------
(* The tables: the filters and the order of the list method, whether it    *)
(* pages, the columns no two rows may share, and for guarded updates the   *)
(* columns that keep their value and those that must not differ.           *)

Plain == [filters |-> {}, order |-> <<>>, paged |-> FALSE, unique |-> {}, kept |-> {}, fixed |-> {}]
Listing(filters, order) == [Plain EXCEPT !.filters = filters, !.order = order]
Paging(filters) == [Listing(filters, <<"created", "id">>) EXCEPT !.paged = TRUE]

Runs         == Listing({"ws"}, <<"created">>)
Steps        == Listing({"run"}, <<"created">>)
Events       == Listing({"run"}, <<"no">>)
Nodes        == Listing({"run"}, <<"depth", "created">>)
Memories     == Listing({"ws", "run"}, <<"created">>)
Versions     == [Listing({"memory"}, <<"no", "created", "id">>) EXCEPT !.unique = {"memory", "no"}]
Audits       == Paging({"ws", "memory"})
Signals      == Listing({"ws", "id"}, <<"ws", "id">>)
Conflicts    == [Paging({"ws", "members", "status"}) EXCEPT
                   !.kept = {"ws", "subject", "members", "detector", "created"}]
Maintenances == [Paging({"ws"}) EXCEPT
                   !.kept = {"ws", "requester", "reason", "operations", "dry", "created"}]
Attempts     == [Paging({"run"}) EXCEPT !.unique = {"run", "operation"}, !.kept = {"created"},
                                        !.fixed = {"run", "ws", "operation"}]
AdminAudits  == Paging({"ws"})
Limits       == Paging({"ws", "principal", "unit"})
Members      == Paging({"ws"})
AccessLogs   == Listing({"ws"}, <<"created">>)
GateLogs     == Listing({"access"}, <<"created", "id">>)
Profile      == Listing({"run", "access"}, <<>>)
Compactions  == Listing({"access", "run", "ws"}, <<"created", "id">>)
Cases        == Listing({}, <<"id">>)
Results      == Listing({}, <<"case", "strategy", "created">>)
EvalCases    == Listing({}, <<"id">>)
EvalRuns     == Listing({"ws"}, <<"created">>)
EvalResults  == Listing({"run"}, <<"run", "case", "created">>)
Keys         == [Paging({"ws"}) EXCEPT !.unique = {"prefix"}]

Catalogue ==
  [runs |-> Runs, steps |-> Steps, events |-> Events, nodes |-> Nodes, memories |-> Memories,
   versions |-> Versions, audits |-> Audits, signals |-> Signals, conflicts |-> Conflicts,
   maintenances |-> Maintenances, attempts |-> Attempts, admin_audits |-> AdminAudits,
   limits |-> Limits, members |-> Members, access_logs |-> AccessLogs, gate_logs |-> GateLogs,
   profile |-> Profile, compactions |-> Compactions, cases |-> Cases, results |-> Results,
   eval_cases |-> EvalCases, eval_runs |-> EvalRuns, eval_results |-> EvalResults, keys |-> Keys]

-----------------------------------------------------------------------------

Waiting(c) == answer[c].is = "waiting"
Reply(c, is, rows) ==
  /\ answer' = [answer EXCEPT ![c] = [is |-> is, rows |-> rows]]
  /\ held' = [held EXCEPT ![c] = {}]
  /\ UNCHANGED asked
Answer(c, is, rows) == Reply(c, is, rows) /\ UNCHANGED <<overwritten, faults>>
Is(c, op) == Waiting(c) /\ asked[c].op = op

Shape(c) == Catalogue[asked[c].table]
Rows(c) == db[asked[c].table]
Row(c) == asked[c].row
Write(c, row) == db' = [db EXCEPT ![asked[c].table] = Stored(@, row)]

(* The row call c writes over, and what it makes of it.                    *)
SameMember(r, s) == r.ws = s.ws /\ r.principal = s.principal
Prior(c) ==
  IF asked[c].op = "enrol" THEN {r \in Rows(c) : SameMember(r, Row(c))} ELSE WithId(Rows(c), Row(c).id)
Kept(c) ==
  CASE asked[c].op = "enrol"  -> {"id", "by", "created"}
    [] asked[c].op = "update" -> Shape(c).kept
    [] OTHER                  -> {}
Made(c, before, cols) ==
  [col \in DOMAIN before |-> IF col \in cols THEN before[col] ELSE Row(c)[col]]

(* Take note of the columns that hold the wanted value now, or that there  *)
(* is no row.                                                              *)
Facts(c) ==
  CASE asked[c].op \in {"put", "enrol"} /\ Prior(c) = {} -> {"absent"}
    [] asked[c].op \in {"put", "update", "enrol"} /\ Prior(c) # {} ->
         UNION {{col \in DOMAIN b : Made(c, b, Kept(c))[col] = b[col]} : b \in Prior(c)}
    [] asked[c].op = "revoke" -> IF \E r \in WithId(Rows(c), asked[c].id) : r.revoked = 0
                                 THEN {"live"} ELSE {}
    [] OTHER -> {}
Notice(c) ==
  /\ Waiting(c)
  /\ held' = [held EXCEPT ![c] = @ \cup Facts(c)]
  /\ UNCHANGED <<db, asked, answer, overwritten, faults>>

(* The store fails.                                                        *)
Fail(c) ==
  /\ Waiting(c) /\ faults' = faults + 1
  /\ Reply(c, "refused", <<>>) /\ UNCHANGED <<db, overwritten>>

(* A rule of the class is broken (Refusable), or a key of a schema: a row  *)
(* needs its run, none is added twice, and another call may have added or  *)
(* deleted the row that a call had looked for (SchemaRefuses).             *)
Differs(c, before) == \E col \in Shape(c).fixed : Row(c)[col] # before[col]
Orphan(c) == asked[c].table \in {"steps", "events", "nodes"} /\ WithId(db.runs, Row(c).run) = {}
Overtaken(c) == "absent" \in held[c] /\ Prior(c) # {}
Deleted(c) == held[c] # {} /\ \E d \in DOMAIN asked : asked[d].op = "remove" /\ ~Waiting(d)
Refusable(c) ==
  CASE asked[c].op = "put"        -> Repeats(Row(c)) \/ ~Fits(Rows(c), Shape(c).unique, Row(c))
    [] asked[c].op = "update"     -> \A b \in Prior(c) : Differs(c, b)
    [] asked[c].op = "transition" -> \A b \in Prior(c) : b.status # asked[c].from
    [] asked[c].op = "list"       -> Shape(c).paged /\ ~PageOK(asked[c].offset, asked[c].limit, MaxPage)
    [] OTHER                      -> FALSE
SchemaRefuses(c) ==
  CASE asked[c].op = "put"    -> Overtaken(c) \/ Orphan(c)
    [] asked[c].op = "enrol"  -> Overtaken(c) \/ Deleted(c)
    [] asked[c].op = "append" -> Prior(c) # {} \/ Orphan(c)
    [] asked[c].op = "log"    -> Prior(c) # {}
    [] OTHER                  -> FALSE
Refuse(c) ==
  /\ Waiting(c) /\ (Refusable(c) \/ SchemaRefuses(c))
  /\ Answer(c, "refused", <<>>) /\ UNCHANGED db

(* add_*, upsert_*, and the update_* that are the same: by id.             *)
Overwrite(c) ==
  \E b \in Prior(c), cols \in SUBSET held[c] :
    LET row == Made(c, b, Kept(c) \cup cols)
    IN  Fits(Rows(c), Shape(c).unique, row) /\ Write(c, row) /\ Answer(c, "ok", <<>>)
Insert(c) ==
  /\ Prior(c) = {} /\ Fits(Rows(c), Shape(c).unique, Row(c))
  /\ Write(c, Row(c)) /\ Answer(c, "ok", <<>>)
Put(c) == Is(c, "put") /\ ~Repeats(Row(c)) /\ (Insert(c) \/ Overwrite(c))

(* update_memory_conflict, update_maintenance_run, update_maintenance_...  *)
Update(c) ==
  /\ Is(c, "update")
  /\ \A b \in Prior(c) : ~Differs(c, b)
  /\ Overwrite(c)

(* upsert_workspace_membership: by workspace and principal.                *)
Enrol(c) == Is(c, "enrol") /\ (Insert(c) \/ Overwrite(c))

(* add_gate_log, add_profile_event: the lists grow, whatever they hold.    *)
Log(c) ==
  /\ Is(c, "log") /\ Answer(c, "ok", <<>>)
  /\ db' = [db EXCEPT ![asked[c].table] = @ \cup {Row(c)}]

(* append_event: the next number of the run, which counts all appends.  An *)
(* event appended again replaces the one with its identifier.              *)
AppendEvent(c) ==
  LET numbered == {e \in db.events \cup overwritten : e.run = Row(c).run}
      event == [Row(c) EXCEPT !.no = Cardinality(numbered) + 1]
  IN  /\ Is(c, "append")
      /\ Write(c, event) /\ overwritten' = overwritten \cup Prior(c)
      /\ Reply(c, "ok", <<event>>) /\ UNCHANGED faults

(* Memories, with their versions.                                          *)
NextNumber(m) == Cardinality({v \in db.versions : v.memory = m}) + 1
Keep(c, before, after, audits) ==
  db' = [db EXCEPT !.memories = Stored(@, after), !.audits = @ \cup audits,
                   !.versions = WithVersion(@, c, before, after, NextNumber(after.id))]
Amend(c) ==
  /\ Is(c, "amend") /\ Answer(c, "ok", <<>>)
  /\ \/ Prior(c) = {} /\ Write(c, Row(c))
     \/ \E b \in Prior(c) : Keep(c, b, Amended(b, Row(c)), {})
Transition(c) ==
  /\ Is(c, "transition") /\ Answer(c, "ok", <<>>)
  /\ \E b \in Prior(c) : /\ b.status = asked[c].from
                         /\ Keep(c, b, Transitioned(b, Row(c)), {asked[c].audit})
Bump(c) ==
  /\ Is(c, "bump") /\ Answer(c, "ok", <<>>)
  /\ db' = [db EXCEPT !.memories = {IF m.id = asked[c].id THEN [m EXCEPT !.access = @ + 1] ELSE m : m \in @}]

(* API keys.  The first revocation counts, unless both find the key live.  *)
Revoke(c) ==
  /\ Is(c, "revoke")
  /\ IF WithId(db.keys, asked[c].id) = {} THEN Answer(c, "absent", <<>>) /\ UNCHANGED db
     ELSE /\ Answer(c, "ok", <<>>)
          /\ \E k \in WithId(db.keys, asked[c].id) :
               \/ k.revoked # 0 /\ UNCHANGED db
               \/ (k.revoked = 0 \/ "live" \in held[c]) /\ Write(c, [k EXCEPT !.revoked = asked[c].at])
MarkUsed(c) ==
  /\ Is(c, "mark") /\ Answer(c, "ok", <<>>)
  /\ db' = [db EXCEPT !.keys = {IF k.id = asked[c].id THEN [k EXCEPT !.used = asked[c].at] ELSE k : k \in @}]

Remove(c) ==
  /\ Is(c, "remove") /\ Answer(c, "ok", <<>>)
  /\ db' = [db EXCEPT ![asked[c].table] = @ \ WithId(@, asked[c].id)]

(* get_*, workspace_for_*: one row or none.                                *)
Get(c) ==
  /\ Is(c, "get") /\ UNCHANGED db
  /\ LET found == Selected(Rows(c), asked[c].where)
     IN  IF found = {} THEN Answer(c, "absent", <<>>)
         ELSE \E r \in found : Answer(c, "ok", <<r>>)

List(c) ==
  LET where == Filtered(asked[c].where, Shape(c).filters)
      found == Arranged(Selected(Rows(c), where), Shape(c).order)
  IN  /\ Is(c, "list") /\ UNCHANGED db
      /\ IF Shape(c).paged
         THEN /\ PageOK(asked[c].offset, asked[c].limit, MaxPage)
              /\ \E rows \in found : Answer(c, "ok", Page(rows, asked[c].offset, asked[c].limit))
         ELSE \E rows \in found : Answer(c, "ok", rows)

(* list_candidate_memories: the chosen ids of a workspace, and whole types. *)
Candidates(c) ==
  /\ Is(c, "candidates") /\ UNCHANGED db
  /\ LET here == {m \in db.memories : m.ws \in asked[c].ws}
         chosen == {m \in here : m.id \in asked[c].ids} \cup {m \in here : m.type \in asked[c].types}
     IN  \E rows \in Arranged(chosen, <<"created">>) : Answer(c, "ok", rows)

-----------------------------------------------------------------------------

Init ==
  \E w \in Workloads :
    /\ db = w.tables /\ asked = w.calls
    /\ answer = [c \in DOMAIN w.calls |-> [is |-> "waiting", rows |-> <<>>]]
    /\ held = [c \in DOMAIN w.calls |-> {}]
    /\ overwritten = {} /\ faults = 0

Next ==
  \E c \in DOMAIN asked :
    \/ Notice(c) \/ Refuse(c) \/ Fail(c) \/ Put(c) \/ Update(c) \/ Enrol(c) \/ Log(c) \/ AppendEvent(c)
    \/ Amend(c) \/ Transition(c) \/ Bump(c) \/ Revoke(c) \/ MarkUsed(c)
    \/ Remove(c) \/ Get(c) \/ List(c) \/ Candidates(c)

Spec == Init /\ [][Next]_vars
=============================================================================
