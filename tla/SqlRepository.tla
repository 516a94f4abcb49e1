---------------------------- MODULE SqlRepository ----------------------------
(***************************************************************************)
(* The SQL repository (storage/sql_repository.py over storage/orm.py): the *)
(* calls of Repository as the transactions they are, at READ COMMITTED.    *)
(* session.merge reads a row and then inserts it, or updates the columns   *)
(* that differ from what it read; an ordinary update of a memory and a     *)
(* lifecycle transition lock the row first, an append locks the numbering  *)
(* of its run; the rest, as adding to a log, is one statement.  The flush and the commit that   *)
(* follows it at once are one step.  A failure of the database ends a      *)
(* transaction at any point before its commit.                             *)
(***************************************************************************)
EXTENDS FiniteSetsExt, Tables

CONSTANTS
  Workloads,   \* the calls made at once, by number, and the rows stored before
  MaxPage,     \* MAX_ADMIN_PAGE_SIZE
  MaxFaults    \* bound on failures of the database

VARIABLES
  db,       \* db[t]: the committed rows of table t
  asked,    \* asked[c]: what call c wants
  answer,   \* answer[c]: what it got
  tx,       \* tx[c]: how far its transaction is, the row it read, the number it took
  faults
sqlVars == <<db, asked, answer, tx, faults>>

-----------------------------------------------------------------------------
(* What the conversions to and from the ORM carry of each table.           *)

RunColumns         == {"id", "ws", "created", "body"}
StepColumns        == {"id", "ws", "run", "created", "body"}
EventColumns       == {"id", "run", "no", "body"}
NodeColumns        == {"id", "run", "depth", "created", "body"}
MemoryColumns      == {"id", "ws", "run", "type", "body", "status", "life", "by", "access", "created"}
VersionColumns     == {"id", "memory", "no", "created", "snapshot"}
AuditColumns       == {"id", "ws", "memory", "created", "body"}
SignalColumns      == {"id", "ws", "body"}
ConflictColumns    == {"id", "ws", "subject", "members", "detector", "created",
                       "status", "explanation", "resolved"}
MaintenanceColumns == {"id", "ws", "requester", "reason", "operations", "dry", "created",
                       "status", "body"}
AttemptColumns     == {"id", "run", "ws", "operation", "created", "status", "body"}
AdminAuditColumns  == {"id", "ws", "created", "body"}
LimitColumns       == {"id", "ws", "principal", "unit", "created", "body"}
MemberColumns      == {"id", "ws", "principal", "by", "created", "role", "updated"}
AccessLogColumns   == {"id", "ws", "created", "body"}
GateLogColumns     == {"id", "access", "created", "body"}
ProfileColumns     == {"id", "run", "access", "created", "body"}
CompactionColumns  == {"id", "access", "run", "ws", "created", "body"}
CaseColumns        == {"id", "body"}
ResultColumns      == {"id", "case", "strategy", "created", "body"}
EvalCaseColumns    == {"id", "body"}
EvalRunColumns     == {"id", "ws", "created", "body"}
EvalResultColumns  == {"id", "run", "case", "created", "body"}
KeyColumns         == {"id", "ws", "prefix", "created", "revoked", "used", "body"}

(* The uniqueness rules of the schema, and the references to agent_runs.   *)
EventIndex   == {"run", "no"}
VersionIndex == {"memory", "no"}
KeyIndex     == {"prefix"}
AttemptIndex == {"run", "operation"}
MemberIndex  == {"ws", "principal"}

(* The queries: what the statement of the list method can filter on, its   *)
(* order, whether it has LIMIT and OFFSET; what a guarded update compares  *)
(* and what it assigns.                                                    *)
Table(columns, filters, order) ==
  [columns |-> columns, filters |-> filters, order |-> order, paged |-> FALSE,
   unique |-> {}, refers |-> FALSE, compared |-> {}, assigned |-> {}]
Paged(columns, filters) ==
  [Table(columns, filters, <<"created", "id">>) EXCEPT !.paged = TRUE]

Runs         == Table(RunColumns, {"ws"}, <<"created">>)
Steps        == [Table(StepColumns, {"run"}, <<"created">>) EXCEPT !.refers = TRUE]
Events       == [Table(EventColumns, {"run"}, <<"no">>) EXCEPT !.refers = TRUE, !.unique = EventIndex]
Nodes        == [Table(NodeColumns, {"run"}, <<"depth", "created">>) EXCEPT !.refers = TRUE]
Memories     == Table(MemoryColumns, {"ws", "run"}, <<"created">>)
Versions     == [Table(VersionColumns, {"memory"}, <<"no", "created", "id">>) EXCEPT !.unique = VersionIndex]
Audits       == Paged(AuditColumns, {"ws", "memory"})
Signals      == Table(SignalColumns, {"ws", "id"}, <<"id">>)
Conflicts    == [Paged(ConflictColumns, {"ws", "members", "status"}) EXCEPT
                   !.assigned = {"status", "explanation", "resolved"}]
Maintenances == [Paged(MaintenanceColumns, {"ws"}) EXCEPT !.assigned = {"status", "body"}]
Attempts     == [Paged(AttemptColumns, {"run"}) EXCEPT !.unique = AttemptIndex,
                   !.compared = {"run", "ws", "operation"}, !.assigned = {"status", "body"}]
AdminAudits  == Paged(AdminAuditColumns, {"ws"})
Limits       == Paged(LimitColumns, {"ws", "principal", "unit"})
Members      == [Paged(MemberColumns, {"ws"}) EXCEPT !.unique = MemberIndex]
AccessLogs   == Table(AccessLogColumns, {"ws"}, <<"created">>)
GateLogs     == Table(GateLogColumns, {"access"}, <<"created", "id">>)
Profile      == Table(ProfileColumns, {"run", "access"}, <<"created">>)
Compactions  == Table(CompactionColumns, {"access", "run", "ws"}, <<"created", "id">>)
Cases        == Table(CaseColumns, {}, <<"id">>)
Results      == Table(ResultColumns, {}, <<"case", "strategy", "created">>)
EvalCases    == Table(EvalCaseColumns, {}, <<"id">>)
EvalRuns     == Table(EvalRunColumns, {"ws"}, <<"created">>)
EvalResults  == Table(EvalResultColumns, {"run"}, <<"run", "case", "created">>)
Keys         == [Paged(KeyColumns, {"ws"}) EXCEPT !.unique = KeyIndex]

Schema ==
  [runs |-> Runs, steps |-> Steps, events |-> Events, nodes |-> Nodes, memories |-> Memories,
   versions |-> Versions, audits |-> Audits, signals |-> Signals, conflicts |-> Conflicts,
   maintenances |-> Maintenances, attempts |-> Attempts, admin_audits |-> AdminAudits,
   limits |-> Limits, members |-> Members, access_logs |-> AccessLogs, gate_logs |-> GateLogs,
   profile |-> Profile, compactions |-> Compactions, cases |-> Cases, results |-> Results,
   eval_cases |-> EvalCases, eval_runs |-> EvalRuns, eval_results |-> EvalResults, keys |-> Keys]

-----------------------------------------------------------------------------
(* What is stored, and asked for by calls of which `open' are under way.   *)

IsRow(t, row) == row = [col \in Schema[t].columns |-> row[col]]
TableOK(tables, t) ==
  /\ \A r, s \in tables[t] : r.id = s.id => r = s
  /\ \A r \in tables[t] :
       /\ IsRow(t, r) /\ Fits(tables[t], Schema[t].unique, r)
       /\ Schema[t].refers => WithId(tables.runs, r.run) # {}

(* The tables whose rows are added and never merged or read by id.         *)
Logs == {"gate_logs", "profile"}
CallOK(call) ==
  /\ call.op \in {"put", "log", "append", "amend", "transition", "enrol", "update"} =>
       IsRow(call.table, call.row)
  /\ call.op = "transition" => IsRow("audits", call.audit)
  /\ \/ call.op = "put" /\ call.table \in (DOMAIN Schema) \ ({"limits", "members"} \cup Logs)
     \/ call.op = "log" /\ call.table \in Logs
     \/ call.op = "append" /\ call.table = "events"
     \/ call.op \in {"amend", "transition", "bump", "candidates"} /\ call.table = "memories"
     \/ call.op = "enrol" /\ call.table = "members"
     \/ call.op = "update" /\ call.table \in {"conflicts", "maintenances", "attempts"}
     \/ call.op = "revoke" /\ call.table = "keys" /\ call.at # 0
     \/ call.op = "mark" /\ call.table = "keys"
     \/ call.op = "remove" /\ call.table \in {"limits", "members"}
     \/ call.op = "get" /\ call.table \in (DOMAIN Schema) \ Logs
     \/ /\ call.op = "list" /\ call.table \in DOMAIN Schema
        /\ call.table = "signals" =>
             "ws" \in DOMAIN call.where /\ \E ws \in call.where.ws : ws \in Nat /\ call.where.ws = {ws}

(* Numbers are given by appends and updates alone: add_event and           *)
(* add_memory_version have no callers beside them.                         *)
Doing(calls, ops) == {c \in DOMAIN calls : calls[c].op \in ops}
PutRows(calls, t) == {calls[c].row : c \in {c \in Doing(calls, {"put"}) : calls[c].table = t}}
Numbers(rows) == IsFiniteSet(rows) /\ {r.no : r \in rows} = 1..Cardinality(rows)
NumbersOK(tables, calls, open) ==
  /\ Doing(calls, {"append"}) # {} =>
       /\ PutRows(calls, "events") = {}
       /\ \A run \in {e.run : e \in tables.events} : Numbers({e \in tables.events : e.run = run})
  /\ Doing(calls, {"amend", "transition"}) # {} =>
       /\ PutRows(calls, "versions") = {}
       /\ \A m \in {v.memory : v \in tables.versions} : Numbers({v \in tables.versions : v.memory = m})
       /\ \A v \in tables.versions : v.id \notin Doing(calls, {"amend", "transition"}) \cap open

(* A row keeps what identifies it: at most one column of an index is ever  *)
(* written anew, and none that a guarded update compares.  Enrolments have *)
(* identifiers and times of their own, and a memory to update is stored or *)
(* not known to anyone else.                                               *)
Alike(rows, t) ==
  /\ \E x \in Schema[t].columns : \A r, s \in rows :
       r.id = s.id => \A col \in Schema[t].unique \ {x} : r[col] = s[col]
  /\ \A r, s \in rows : r.id = s.id => \A col \in Schema[t].compared : r[col] = s[col]
IdentityOK(tables, calls, open) ==
  /\ \A t \in DOMAIN Schema : Alike(tables[t] \cup PutRows(calls, t), t)
  /\ \A e \in PutRows(calls, "events") :
       Fits(tables.events \cup PutRows(calls, "events"), EventIndex, e)
  /\ \A c \in Doing(calls, {"enrol"}) \cap open :
       \A r \in tables.members \cup {calls[d].row : d \in Doing(calls, {"enrol"}) \ {c}} :
         r.id # calls[c].row.id /\ r.updated # calls[c].row.updated
  /\ \A c \in Doing(calls, {"transition"}) \cap open :
       \A r \in tables.audits \cup PutRows(calls, "audits")
              \cup {calls[d].audit : d \in Doing(calls, {"transition"}) \ {c}} :
         r.id # calls[c].audit.id
  /\ \A c \in Doing(calls, {"amend"}) \cap open :
       \/ WithId(tables.memories, calls[c].row.id) # {}
       \/ \A d \in Doing(calls, {"put", "amend"}) \ {c} :
            calls[d].table = "memories" => calls[d].row.id # calls[c].row.id

WorkOK(tables, calls, open) ==
  /\ tables = [t \in DOMAIN Schema |-> tables[t]]
  /\ \A t \in DOMAIN Schema : TableOK(tables, t)
  /\ \A c \in DOMAIN calls : CallOK(calls[c])
  /\ NumbersOK(tables, calls, open) /\ IdentityOK(tables, calls, open)

ASSUME SqlConstants ==
  /\ MaxPage \in Nat \ {0} /\ MaxFaults \in Nat
  /\ \A w \in Workloads :
       DOMAIN w.calls \subseteq Nat \ {0} /\ WorkOK(w.tables, w.calls, DOMAIN w.calls)

-----------------------------------------------------------------------------
(* Transactions.                                                           *)

Idle == [at |-> "start", seen |-> {}, no |-> 0, tries |-> 0]
Over == [Idle EXCEPT !.at = "done"]

Is(c, ops, stage) == asked[c].op \in ops /\ tx[c].at = stage
Answer(c, is, rows) ==
  /\ answer' = [answer EXCEPT ![c] = [is |-> is, rows |-> rows]]
  /\ tx' = [tx EXCEPT ![c] = Over]
  /\ UNCHANGED <<asked, faults>>
Refuse(c) == Answer(c, "refused", <<>>) /\ UNCHANGED db
Reach(c, stage, seen) ==
  /\ tx' = [tx EXCEPT ![c].at = stage, ![c].seen = seen]
  /\ UNCHANGED <<db, asked, answer, faults>>

Shape(c) == Schema[asked[c].table]
Rows(c) == db[asked[c].table]
Row(c) == asked[c].row
Write(c, row) == db' = [db EXCEPT ![asked[c].table] = Stored(@, row)]

(* A row lock is held from the locking read to the end of the transaction. *)
Locked(m) == \E d \in DOMAIN tx : /\ asked[d].op \in {"amend", "transition"}
                                  /\ tx[d].at \in {"locked", "numbered"} /\ Row(d).id = m
Numbering(run) == \E d \in DOMAIN tx : /\ asked[d].op = "append"
                                       /\ tx[d].at \in {"locked", "numbered"} /\ Row(d).run = run
Free(c, id) == asked[c].table = "memories" => ~Locked(id)

Allowed(c, row) ==
  /\ Fits(Rows(c), Shape(c).unique, row)
  /\ Shape(c).refers => WithId(db.runs, row.run) # {}

(* What call c makes of the row it read.                                   *)
Assigned(c) ==
  CASE asked[c].op = "enrol"  -> Shape(c).columns \ {"id", "by", "created"}
    [] asked[c].op = "update" -> Shape(c).assigned
    [] asked[c].op = "revoke" -> {"revoked"}
    [] OTHER                  -> Shape(c).columns
Target(c, before) ==
  IF asked[c].op = "revoke" THEN [before EXCEPT !.revoked = asked[c].at]
  ELSE [col \in DOMAIN before |-> IF col \in Assigned(c) THEN Row(c)[col] ELSE before[col]]
Changes(before, after) == {col \in DOMAIN before : before[col] # after[col]}
Updated(row, before, after) ==
  [col \in DOMAIN row |-> IF col \in Changes(before, after) THEN after[col] ELSE row[col]]

(* The read of merge, of the upserts and of the guarded updates.           *)
Merge(c) ==
  /\ (Is(c, {"put"}, "start") /\ ~Repeats(Row(c))) \/ Is(c, {"amend"}, "absent")
  /\ Reach(c, "found", WithId(Rows(c), Row(c).id))
RejectRepeats(c) == Is(c, {"put"}, "start") /\ Repeats(Row(c)) /\ Refuse(c)
FindMember(c) ==
  /\ Is(c, {"enrol"}, "start")
  /\ Reach(c, "found", {r \in db.members : r.ws = Row(c).ws /\ r.principal = Row(c).principal})
Guarded(c) ==
  LET rows == WithId(Rows(c), Row(c).id)
      same == rows # {} /\ \A r \in rows, col \in Shape(c).compared : r[col] = Row(c)[col]
  IN  Is(c, {"update"}, "start") /\ IF same THEN Reach(c, "found", rows) ELSE Refuse(c)
FindKey(c) ==
  LET keys == WithId(db.keys, asked[c].id)
  IN  /\ Is(c, {"revoke"}, "start")
      /\ IF keys = {} THEN Answer(c, "absent", <<>>) /\ UNCHANGED db
         ELSE IF \E k \in keys : k.revoked # 0 THEN Answer(c, "ok", <<>>) /\ UNCHANGED db
         ELSE Reach(c, "found", keys)

(* The flush: INSERT, UPDATE of what differs, or nothing; and the commit.  *)
FlushInsert(c) ==
  LET row == Restrict(Row(c), Shape(c).columns)
  IN  /\ tx[c].at = "found" /\ tx[c].seen = {}
      /\ IF WithId(Rows(c), row.id) = {} /\ Allowed(c, row)
         THEN Write(c, row) /\ Answer(c, "ok", <<>>)
         ELSE Refuse(c)
FlushUpdate(c) ==
  /\ tx[c].at = "found"
  /\ \E b \in tx[c].seen :
       LET now == WithId(Rows(c), b.id)
           after == Target(c, b)
       IN  IF Changes(b, after) = {} THEN Answer(c, "ok", <<>>) /\ UNCHANGED db
           ELSE /\ Free(c, b.id)
                /\ IF \E r \in now : Allowed(c, Updated(r, b, after))
                   THEN \E r \in now : Write(c, Updated(r, b, after)) /\ Answer(c, "ok", <<>>)
                   ELSE Refuse(c)

(* add_gate_log, add_profile_event: an INSERT.                             *)
LogRow(c) ==
  LET row == Restrict(Row(c), Shape(c).columns)
  IN  /\ Is(c, {"log"}, "start")
      /\ IF WithId(Rows(c), row.id) = {} /\ Allowed(c, row)
         THEN Write(c, row) /\ Answer(c, "ok", <<>>)
         ELSE Refuse(c)

(* append_event: lock the numbering of the run, read, insert; three tries. *)
Tries == 3
LockRun(c) ==
  /\ Is(c, {"append"}, "start") /\ ~Numbering(Row(c).run)
  /\ Reach(c, "locked", {})
ReadMax(c) ==
  /\ Is(c, {"append"}, "locked")
  /\ LET last == Max({0} \cup {e.no : e \in {e \in db.events : e.run = Row(c).run}})
     IN  tx' = [tx EXCEPT ![c].at = "numbered", ![c].no = last + 1]
  /\ UNCHANGED <<db, asked, answer, faults>>
Numbered(c) == [Restrict(Row(c), Shape(c).columns) EXCEPT !.no = tx[c].no]
Insertable(c) == WithId(db.events, Row(c).id) = {} /\ Allowed(c, Numbered(c))
InsertEvent(c) ==
  /\ Is(c, {"append"}, "numbered") /\ Insertable(c)
  /\ Write(c, Numbered(c)) /\ Answer(c, "ok", <<Numbered(c)>>)
\* Mutant of Collide: the attempts are not counted.
CollideForEver(c) ==
  /\ Is(c, {"append"}, "numbered") /\ ~Insertable(c)
  /\ tx' = [tx EXCEPT ![c] = Idle]
  /\ UNCHANGED <<db, asked, answer, faults>>
Collide(c) ==
  /\ Is(c, {"append"}, "numbered") /\ ~Insertable(c)
  /\ IF tx[c].tries + 1 = Tries THEN Refuse(c)
     ELSE /\ tx' = [tx EXCEPT ![c] = [Idle EXCEPT !.tries = tx[c].tries + 1]]
          /\ UNCHANGED <<db, asked, answer, faults>>

\* Mutant of LockRow: without with_for_update.
LockRowWithoutForUpdate(c) ==
  LET rows == WithId(db.memories, Row(c).id)
      stale == \A m \in rows : m.status # asked[c].from
  IN  /\ Is(c, {"amend", "transition"}, "start")
      /\ IF asked[c].op = "transition" /\ stale THEN Refuse(c)
         ELSE Reach(c, IF rows = {} THEN "absent" ELSE "locked", rows)

(* update_memory and transition_memory_with_audit: lock, number, write.    *)
LockRow(c) ==
  LET rows == WithId(db.memories, Row(c).id)
      stale == \A m \in rows : m.status # asked[c].from
  IN  /\ Is(c, {"amend", "transition"}, "start") /\ ~Locked(Row(c).id)
      /\ IF asked[c].op = "transition" /\ stale THEN Refuse(c)
         ELSE Reach(c, IF rows = {} THEN "absent" ELSE "locked", rows)
After(c, before) ==
  IF asked[c].op = "amend" THEN Amended(before, Row(c)) ELSE Transitioned(before, Row(c))
NumberVersion(c) ==
  LET last == Max({0} \cup {v.no : v \in {v \in db.versions : v.memory = Row(c).id}})
  IN  /\ Is(c, {"amend", "transition"}, "locked")
      /\ tx' = [tx EXCEPT ![c].at = "numbered", ![c].no = last + 1]
      /\ UNCHANGED <<db, asked, answer, faults>>
WriteMemory(c) ==
  /\ Is(c, {"amend", "transition"}, "numbered")
  /\ \E b \in tx[c].seen, m \in WithId(db.memories, Row(c).id) :
       LET after == After(c, b)
           versions == WithVersion(db.versions, c, b, after, tx[c].no)
           fits == \A v \in versions : Fits(db.versions, VersionIndex, v)
       IN  IF fits
           THEN /\ db' = [db EXCEPT !.memories = Stored(@, Updated(m, b, after)),
                                    !.versions = versions,
                                    !.audits = IF asked[c].op = "amend" THEN @ ELSE @ \cup {asked[c].audit}]
                /\ Answer(c, "ok", <<>>)
           ELSE Refuse(c)

(* One statement.                                                          *)
Bump(c) ==
  /\ Is(c, {"bump"}, "start") /\ ~Locked(asked[c].id)
  /\ db' = [db EXCEPT !.memories = {IF m.id = asked[c].id THEN [m EXCEPT !.access = @ + 1] ELSE m : m \in @}]
  /\ Answer(c, "ok", <<>>)
MarkUsed(c) ==
  /\ Is(c, {"mark"}, "start") /\ Answer(c, "ok", <<>>)
  /\ db' = [db EXCEPT !.keys = {IF k.id = asked[c].id THEN [k EXCEPT !.used = asked[c].at] ELSE k : k \in @}]
Remove(c) ==
  /\ Is(c, {"remove"}, "start") /\ Answer(c, "ok", <<>>)
  /\ db' = [db EXCEPT ![asked[c].table] = {r \in @ : r.id # asked[c].id}]

Read(c, row) == Restrict(row, Shape(c).columns)
Get(c) ==
  LET found == {Read(c, r) : r \in Selected(Rows(c), asked[c].where)}
  IN  /\ Is(c, {"get"}, "start") /\ UNCHANGED db
      /\ IF found = {} THEN Answer(c, "absent", <<>>)
         ELSE \E r \in found : Answer(c, "ok", <<r>>)
List(c) ==
  LET where == Filtered(asked[c].where, Shape(c).filters)
      found == Arranged({Read(c, r) : r \in Selected(Rows(c), where)}, Shape(c).order)
  IN  /\ Is(c, {"list"}, "start")
      /\ IF ~Shape(c).paged THEN (\E rows \in found : Answer(c, "ok", rows)) /\ UNCHANGED db
         ELSE IF ~PageOK(asked[c].offset, asked[c].limit, MaxPage) THEN Refuse(c)
         ELSE /\ \E rows \in found : Answer(c, "ok", Page(rows, asked[c].offset, asked[c].limit))
              /\ UNCHANGED db
CandidateMemories(c) ==
  LET chosen == {m \in db.memories : m.ws \in asked[c].ws /\ (m.id \in asked[c].ids \/ m.type \in asked[c].types)}
  IN  /\ Is(c, {"candidates"}, "start") /\ UNCHANGED db
      /\ \E rows \in Arranged({Read(c, m) : m \in chosen}, <<"created">>) : Answer(c, "ok", rows)

(* The database fails: the transaction rolls back and the caller gets the  *)
(* exception.                                                              *)
Abort(c) ==
  /\ tx[c].at # "done" /\ faults < MaxFaults
  /\ faults' = faults + 1
  /\ answer' = [answer EXCEPT ![c] = [is |-> "refused", rows |-> <<>>]]
  /\ tx' = [tx EXCEPT ![c] = Over]
  /\ UNCHANGED <<db, asked>>

-----------------------------------------------------------------------------

SqlInit ==
  \E w \in Workloads :
    /\ db = w.tables /\ asked = w.calls
    /\ answer = [c \in DOMAIN w.calls |-> [is |-> "waiting", rows |-> <<>>]]
    /\ tx = [c \in DOMAIN w.calls |-> Idle]
    /\ faults = 0

Step(c) ==
  \/ Merge(c) \/ RejectRepeats(c) \/ FindMember(c) \/ Guarded(c) \/ FindKey(c)
  \/ FlushInsert(c) \/ FlushUpdate(c) \/ LogRow(c)
  \/ LockRun(c) \/ ReadMax(c) \/ InsertEvent(c) \/ Collide(c)
  \/ LockRow(c) \/ NumberVersion(c) \/ WriteMemory(c)
  \/ Bump(c) \/ MarkUsed(c) \/ Remove(c) \/ Get(c) \/ List(c) \/ CandidateMemories(c)

SqlNext == \E c \in DOMAIN asked : Step(c) \/ Abort(c)

(* Transactions go on: nothing but a failure of the database stops them.   *)
Calls == UNION {DOMAIN w.calls : w \in Workloads}
Fairness == \A c \in Calls : WF_sqlVars(c \in DOMAIN asked /\ Step(c))
SqlSpec == SqlInit /\ [][SqlNext]_sqlVars /\ Fairness

-----------------------------------------------------------------------------
(* Interleaved with others, every call acts as in the repository in memory *)
(* (runtime/repository.py), at one moment and on all of its rows, or is    *)
(* refused without a trace and for a reason of that class or of the schema *)
(* (Refusable, SchemaRefuses): no number is given twice, no version shows  *)
(* a memory that never was, no transition starts from a status that has    *)
(* gone, and every list and page is one that repository could return.  As  *)
(* the schema refuses an event that is there, none is ever overwritten.    *)
Noticed ==
  [c \in DOMAIN asked |->
     IF tx[c].at # "found" THEN {}
     ELSE IF asked[c].op = "revoke" THEN {"live"}
     ELSE IF asked[c].op \in {"put", "enrol"} /\ tx[c].seen = {} THEN {"absent"}
     ELSE UNION {{col \in DOMAIN b : Target(c, b)[col] = b[col]} : b \in tx[c].seen}]
Contract == INSTANCE Repository WITH held <- Noticed, overwritten <- {}
ActsAsReference == Contract!Spec

(* Every call is answered: locks are released, and an append that collides *)
(* is not tried for ever.                                                  *)
CallsReturn == \A c \in Calls : (c \in DOMAIN asked) ~> (c \in DOMAIN asked /\ tx[c].at = "done")
=============================================================================
