--------------------------- MODULE MCSqlRepository ---------------------------
(***************************************************************************)
(* Workloads for SqlRepository: two or three calls at once, chosen so that *)
(* every method runs and the calls meet on a row, a number or a unique     *)
(* value.  Init picks one, so that the state spaces of the workloads add   *)
(* up and do not multiply.                                                 *)
(***************************************************************************)
EXTENDS SqlRepository, TLC

(* One row of every table, and a row that differs from it in some columns. *)
Logged == [id |-> 1, ws |-> 1, created |-> 1, body |-> 1]
One ==
  [runs |-> Logged, steps |-> Logged @@ [run |-> 1], events |-> [id |-> 1, run |-> 1, no |-> 1, body |-> 1],
   nodes |-> [id |-> 1, run |-> 1, depth |-> 1, created |-> 1, body |-> 1],
   memories |-> Logged @@ [run |-> 1, type |-> 1, status |-> "active", life |-> 1, by |-> 0, access |-> 0],
   versions |-> [id |-> 1, memory |-> 1, no |-> 1, created |-> 1, snapshot |-> 1],
   audits |-> Logged @@ [memory |-> 1], signals |-> [id |-> 1, ws |-> 1, body |-> 1],
   conflicts |-> [id |-> 1, ws |-> 1, subject |-> 1, members |-> {1, 2}, detector |-> 1, created |-> 1,
                  status |-> 1, explanation |-> 1, resolved |-> 0],
   maintenances |-> Logged @@ [requester |-> 1, reason |-> 1, operations |-> <<1, 2>>, dry |-> FALSE, status |-> 1],
   attempts |-> Logged @@ [run |-> 1, operation |-> 1, status |-> 1], admin_audits |-> Logged,
   limits |-> Logged @@ [principal |-> 1, unit |-> 1],
   members |-> [id |-> 1, ws |-> 1, principal |-> 1, by |-> 1, created |-> 1, role |-> 1, updated |-> 1],
   access_logs |-> Logged, gate_logs |-> [id |-> 1, access |-> 1, created |-> 1, body |-> 1],
   profile |-> [id |-> 1, run |-> 1, access |-> 1, created |-> 1, body |-> 1],
   compactions |-> Logged @@ [access |-> 1, run |-> 1],
   cases |-> [id |-> 1, body |-> 1], results |-> [id |-> 1, case |-> 1, strategy |-> 1, created |-> 1, body |-> 1],
   eval_cases |-> [id |-> 1, body |-> 1], eval_runs |-> Logged,
   eval_results |-> [id |-> 1, run |-> 1, case |-> 1, created |-> 1, body |-> 1],
   keys |-> Logged @@ [prefix |-> 1, revoked |-> 0, used |-> 0]]
TableNames == DOMAIN One

Changed(row, cols) == [col \in DOMAIN row |-> IF col \in cols THEN 2 ELSE row[col]]
Loaded(some) == some @@ [t \in TableNames |-> IF t = "runs" THEN {One.runs, Changed(One.runs, {"id"})} ELSE {}]
Work(tables, calls) == [tables |-> Loaded(tables), calls |-> calls]

PutCall(t, row) == [op |-> "put", table |-> t, row |-> row]
AllOf(t, where, offset, limit) ==
  [op |-> "list", table |-> t, where |-> where, offset |-> offset, limit |-> limit]
GetCall(t, where) == [op |-> "get", table |-> t, where |-> where]
ById(id) == [id |-> {id}]

(* The filters of each list method; a row can be outside each of them.     *)
FilterOf ==
  [t \in TableNames |->
     CASE t \in {"runs", "memories", "signals", "conflicts", "maintenances", "admin_audits", "limits",
                 "members", "access_logs", "eval_runs", "keys", "audits"} -> "ws"
       [] t \in {"steps", "events", "nodes", "attempts", "profile", "eval_results"} -> "run"
       [] t = "versions" -> "memory"
       [] t \in {"gate_logs", "compactions"} -> "access"
       [] OTHER -> "id"]
Filter(t) == FilterOf[t] :> {1}

(* All rows, or of signals, which are listed by workspace, another's.      *)
Other(t) == IF t = "signals" THEN [ws |-> {2}] ELSE <<>>

(* TableNames written by id (the limits by RequestGate, the members by enrol, *)
(* the logs without).                                                         *)
Puttable == TableNames \ ({"limits", "members"} \cup Logs)
Payload(t) == CASE t = "versions" -> "snapshot" [] t = "conflicts" -> "explanation" [] OTHER -> "body"
Second(t) ==
  CASE t \in {"cases", "eval_cases"} -> "body" [] t = "signals" -> "ws" [] t = "events" -> "no" [] OTHER -> "created"
Puts ==
  UNION {
    LET a == One[t] b == Changed(a, {Payload(t)}) c == Changed(a, {Second(t)}) d == Changed(a, {"id", Second(t), "prefix"})
        e == Changed(d, {FilterOf[t]})
    IN  {Work(t :> {a}, <<PutCall(t, b), PutCall(t, c), AllOf(t, Filter(t), 0, 3)>>),
         Work(IF t = "runs" THEN t :> {} ELSE <<>>, <<PutCall(t, a), PutCall(t, b), GetCall(t, ById(1))>>),
         Work(IF t = "runs" THEN t :> {} ELSE <<>>, <<PutCall(t, a), PutCall(t, d), AllOf(t, Filter(t), 1, 1)>>),
         Work(t :> {a}, <<PutCall(t, e), AllOf(t, Filter(t), 0, 3), AllOf(t, Other(t), 0, 4)>>)}
    : t \in Puttable}

(* Entries of a log at once, with an identifier that is there or is not.  *)
LogCall(t, row) == [op |-> "log", table |-> t, row |-> row]
LogWork ==
  UNION {
    LET a == One[t] b == Changed(a, {"body"}) c == Changed(a, {"id", "created"}) d == Changed(c, {FilterOf[t]})
    IN  {Work(t :> {a}, <<LogCall(t, b), LogCall(t, c), AllOf(t, Filter(t), 0, 3)>>),
         Work(<<>>, <<LogCall(t, a), LogCall(t, b), AllOf(t, Filter(t), 0, 3)>>),
         Work(t :> {a}, <<LogCall(t, d), AllOf(t, Filter(t), 0, 3), AllOf(t, <<>>, 0, 4)>>)}
    : t \in Logs}

(* A step of a run that is being added, a maintenance run that repeats an  *)
(* operation, limits, and every further filter.                            *)
Twice == [One.maintenances EXCEPT !.operations = <<1, 1>>]
More == {
  Work("runs" :> {}, <<PutCall("runs", One.runs), PutCall("steps", One.steps), AllOf("steps", Filter("steps"), 0, 3)>>),
  Work(<<>>, <<PutCall("maintenances", Twice), AllOf("maintenances", <<>>, 0, 3)>>),
  Work("limits" :> {One.limits, Changed(One.limits, {"id", "principal"})},
       <<[op |-> "remove", table |-> "limits", id |-> 1], AllOf("limits", [ws |-> {1}, principal |-> {1}], 0, 3),
         AllOf("limits", [ws |-> {1}, unit |-> {1}], 0, 3)>>),
  Work("conflicts" :> {One.conflicts, [One.conflicts EXCEPT !.id = 2, !.members = {2, 3}]},
       <<PutCall("conflicts", Changed(One.conflicts, {"status"})), AllOf("conflicts", [members |-> {1}], 0, 3),
         AllOf("conflicts", [status |-> {2}], 0, 3)>>),
  Work("profile" :> {One.profile, Changed(One.profile, {"id", "access"})},
       <<AllOf("profile", [access |-> {1}], 0, 3), AllOf("compactions", [run |-> {1}], 0, 3)>>),
  Work("memories" :> {One.memories, Changed(One.memories, {"id", "run"}), [Changed(One.memories, {"type"}) EXCEPT !.id = 3]},
       <<PutCall("memories", Changed(One.memories, {"ws"})), AllOf("memories", [run |-> {1}], 0, 3),
         [op |-> "candidates", table |-> "memories", ws |-> {1}, ids |-> {1}, types |-> {2}]>>),
  Work("signals" :> {One.signals, Changed(One.signals, {"id"})},
       <<PutCall("signals", Changed(One.signals, {"body"})), AllOf("signals", [ws |-> {1}, id |-> {1}], 0, 3)>>),
  Work("keys" :> {One.keys}, <<GetCall("keys", [prefix |-> {1}]), GetCall("keys", [prefix |-> {2}]), AllOf("keys", <<>>, 0, 9)>>)}

(* Guarded updates.                                                        *)
UpdateCall(t, row) == [op |-> "update", table |-> t, row |-> row]
GuardedUpdates ==
  UNION {
    LET a == One[t]
        b == Changed(a, {"status", "created"})
        c == Changed(a, {Payload(t)})
    IN  {Work(t :> {a}, <<UpdateCall(t, b), UpdateCall(t, c), GetCall(t, ById(1))>>),
         Work(<<>>, <<UpdateCall(t, b), PutCall(t, a), AllOf(t, <<>>, 0, 3)>>),
         Work(t :> {a}, <<UpdateCall(t, Changed(a, {"ws", "status"})), AllOf(t, <<>>, 0, 0)>>)}
    : t \in {"conflicts", "maintenances", "attempts"}}

(* Appends to one run, and one that repeats an identifier.                 *)
AppendCall(id, run) == [op |-> "append", table |-> "events", row |-> [id |-> id, run |-> run, no |-> 0, body |-> id]]
Appends == {
  Work(<<>>, <<AppendCall(1, 1), AppendCall(2, 1), AppendCall(3, 1)>>),
  Work(<<>>, <<AppendCall(1, 1), AppendCall(1, 1), AllOf("events", Filter("events"), 0, 3)>>),
  Work("runs" :> {}, <<AppendCall(1, 1), PutCall("runs", One.runs)>>)}

(* Changes of one memory: writes of copies read while it was active, moves *)
(* to another status, retrievals that count an access.                     *)
Live(m) == [One.memories EXCEPT !.id = m]
AmendCall(row) == [op |-> "amend", table |-> "memories", row |-> row]
MoveCall(from, to) ==
  [op |-> "transition", table |-> "memories", row |-> [Live(1) EXCEPT !.status = to, !.life = 2], from |-> from,
   audit |-> [One.audits EXCEPT !.id = IF to = "archived" THEN 2 ELSE 1]]
BumpCall == [op |-> "bump", table |-> "memories", id |-> 1]
Text(row, body) == [row EXCEPT !.body = body]
Superseded == [Live(1) EXCEPT !.status = "superseded", !.by = 2]
MemoryWork == {
  Work("memories" :> {Live(1)}, <<AmendCall(Text(Live(1), 2)), AmendCall(Text(Live(1), 3)), MoveCall("active", "superseded")>>),
  Work("memories" :> {Live(1)}, <<AmendCall(Text(Live(1), 2)), BumpCall, MoveCall("active", "archived")>>),
  Work("memories" :> {Live(1)}, <<MoveCall("active", "superseded"), MoveCall("active", "archived"), BumpCall>>),
  Work("memories" :> {Superseded}, <<AmendCall(Text(Live(1), 2)), AmendCall(Superseded), MoveCall("superseded", "active")>>),
  Work("memories" :> {Live(1)}, <<AmendCall(Text(Live(1), 2)), PutCall("memories", [Live(1) EXCEPT !.type = 2]),
                                  AllOf("versions", Filter("versions"), 0, 3)>>),
  Work(<<>>, <<AmendCall(Live(1)), GetCall("memories", ById(1))>>)}

(* Memberships and API keys.                                               *)
EnrolCall(id, role) ==
  [op |-> "enrol", table |-> "members",
   row |-> [One.members EXCEPT !.id = id, !.by = id, !.created = id, !.role = role, !.updated = id]]
MemberWork ==
  {Work("members" :> {One.members, Changed(One.members, {"id", "created", "principal"}),
                      [Changed(One.members, {"ws"}) EXCEPT !.id = 3]},
        <<AllOf("members", Filter("members"), 0, 3), [op |-> "remove", table |-> "members", id |-> 2]>>)} \cup
  {Work("members" :> stored, <<EnrolCall(2, 2), EnrolCall(3, 3), last>>) :
     stored \in {{}, {One.members}},
     last \in {[op |-> "remove", table |-> "members", id |-> 1], GetCall("members", [ws |-> {1}, principal |-> {1}]),
               AllOf("members", Filter("members"), 0, 3)}}
RevokeCall(id, at) == [op |-> "revoke", table |-> "keys", id |-> id, at |-> at]
KeyWork == {
  Work("keys" :> {One.keys}, <<PutCall("keys", Changed(One.keys, {"id", "created"})), AllOf("keys", <<>>, 0, 4)>>),
  Work("keys" :> {One.keys}, <<RevokeCall(1, 1), RevokeCall(1, 2), [op |-> "mark", table |-> "keys", id |-> 1, at |-> 3]>>),
  Work("keys" :> {One.keys}, <<RevokeCall(2, 1), RevokeCall(1, 2), AllOf("keys", Filter("keys"), 0, 3)>>)}

AllWorkloads == Puts \cup LogWork \cup More \cup GuardedUpdates \cup Appends \cup MemoryWork \cup MemberWork \cup KeyWork
=============================================================================
