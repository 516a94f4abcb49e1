----------------------------- MODULE RequestGate -----------------------------
(***************************************************************************)
(* A request from its arrival to its answer: authentication                *)
(* (require_api_key, governance/auth.py), permission and workspace         *)
(* (api/routes.py, api/admin_routes.py), quota (governance/quota.py), and  *)
(* the handlers that change keys and quota limits, against the tables of   *)
(* storage/sql_repository.py.  Every await is a step, so the requests      *)
(* interleave with each other and with the administration of the keys and  *)
(* limits they depend on.                                                  *)
(***************************************************************************)
EXTENDS Server, Principals, Integers

CONSTANTS
  Workloads,     \* the initial states: settings, asked, keys, limits
  Units,         \* the quota units administered
  Caps, Lens,    \* limits and windows an override may set
  Horizon,       \* bound: the clock stops here
  MaxFaults      \* bound: failures of the database

VARIABLES
  setup,         \* the settings and what each request asks
  keyRow,        \* the table of API keys
  limits,        \* the table of quota overrides
  counts,        \* InMemoryQuotaCounter: how often a quota key was charged
  now,           \* time.time()
  req,           \* req[r]: where request r is and what it has read
  audited,       \* the requests an admin action was recorded for
  faults,
  since          \* history: since[r]: what happened since r arrived

tables == <<keyRow, limits, counts, audited>>
environment == <<setup, now, faults>>
gate == <<setup, keyRow, limits, counts, now, req, audited, faults, since>>

Identities == [ws : Workspaces, whose : Names \cup {""}, unit : Units]
Settings ==
  [auth : BOOLEAN, jwt : BOOLEAN, governance : BOOLEAN, apiKey : BOOLEAN,
   allowLegacy : BOOLEAN, quota : BOOLEAN, admin : BOOLEAN, cap : Nat, len : Nat \ {0}]
set == setup.settings
Asks(r) == setup.asked[r]

Fresh == [at |-> "idle", who |-> Anonymous, row |-> {}, units |-> <<>>,
          cap |-> 0, len |-> 1, from |-> "none", passed |-> {}]
Unharmed == [stored |-> FALSE, dead |-> {}, missing |-> {}, dropped |-> {},
             fault |-> FALSE]

GateInitWith(w) ==
  /\ setup = [settings |-> w.settings, asked |-> w.asked]
  /\ keyRow = w.keys /\ limits = w.limits
  /\ counts = <<>> /\ now = 0 /\ audited = {} /\ faults = 0
  /\ req = [r \in Requests |-> Fresh]
  /\ since = [r \in Requests |-> Unharmed]

GateInit == \E w \in Workloads : GateInitWith(w)

At(r, where) == req[r].at = where
Goto(r, where) == req' = [req EXCEPT ![r].at = where]
Enter(r, p) == req' = [req EXCEPT ![r].at = "authorize", ![r].who = p]

Stored == {k \in Keys : keyRow[k].state # "none"}
Dead == {k \in Keys : keyRow[k].state = "revoked"}
Row(identity) == {l \in limits : l.of = identity}

-----------------------------------------------------------------------------
(* Authentication.                                                         *)

(* require_api_key: what is settled before the repository is asked.        *)
Arrive(r) ==
  LET cred == Asks(r).cred
  IN  /\ At(r, "idle") /\ Asks(r).op # "none"
      /\ since' = [since EXCEPT ![r] =
           [Unharmed EXCEPT !.stored = Stored # {}, !.dead = Dead,
                            !.missing = {i \in Identities : Row(i) = {}}]]
      /\ \/ ~set.auth /\ Enter(r, Anonymous)
         \/ set.auth /\ cred = "none" /\ Goto(r, "denied")
         \/ set.auth /\ set.jwt /\ cred = "jwt" /\ Enter(r, Bearer)
         \/ set.auth /\ set.jwt /\ cred = "bad jwt" /\ Goto(r, "denied")
         \/ set.auth /\ cred # "none" /\ ~(set.jwt /\ cred \in {"jwt", "bad jwt"})
            /\ Goto(r, "keys")
      /\ UNCHANGED <<tables, environment>>

LegacyAllowed == Stored = {} \/ set.allowLegacy

(* authenticate_api_key: list_api_keys, then the legacy key.               *)
ListKeys(r) ==
  /\ At(r, "keys")
  /\ \/ set.apiKey /\ LegacyAllowed /\ Asks(r).cred = "legacy" /\ Enter(r, Legacy)
     \/ ~(set.apiKey /\ LegacyAllowed /\ Asks(r).cred = "legacy") /\ Goto(r, "lookup")
  /\ UNCHANGED <<tables, environment, since>>

(* get_api_key_by_prefix, the digest, revoked_at.                          *)
LookUpKey(r) ==
  LET k == Asks(r).cred
  IN  /\ At(r, "lookup")
      /\ \/ /\ k \in Keys /\ keyRow[k].state = "live"
            /\ req' = [req EXCEPT ![r].at = "mark", ![r].row = {keyRow[k]}]
         \/ ~(k \in Keys /\ keyRow[k].state = "live") /\ Goto(r, "denied")
      /\ UNCHANGED <<tables, environment, since>>

\* Mutant of MarkUsed: the row that was read is written back.
MarkUsedByRow(r) ==
  LET k == Asks(r).cred
      row == CHOOSE row \in req[r].row : TRUE
  IN  /\ At(r, "mark")
      /\ keyRow' = [keyRow EXCEPT ![k] = [row EXCEPT !.used = TRUE]]
      /\ Enter(r, HolderOf(k, row))
      /\ UNCHANGED <<limits, counts, audited, environment, since>>

(* mark_api_key_used updates one column of a row that may have changed.    *)
MarkUsed(r) ==
  LET k == Asks(r).cred
  IN  /\ At(r, "mark")
      /\ keyRow' = [keyRow EXCEPT ![k].used = TRUE]
      /\ \E row \in req[r].row : Enter(r, HolderOf(k, row))
      /\ UNCHANGED <<limits, counts, audited, environment, since>>

(* The last handler of require_api_key.                                    *)
AuthenticationFails(r) ==
  LET legacy == set.apiKey /\ ~set.governance /\ Asks(r).cred = "legacy"
  IN  /\ req[r].at \in {"keys", "lookup", "mark"} /\ faults < MaxFaults
      /\ faults' = faults + 1
      /\ since' = [since EXCEPT ![r].fault = TRUE]
      /\ \/ legacy /\ Enter(r, Legacy)
         \/ ~legacy /\ Goto(r, "denied")
      /\ UNCHANGED <<tables, setup, now>>

-----------------------------------------------------------------------------
(* Permission and quota.                                                   *)

(* The head of every handler.  Rows never change workspace, so looking     *)
(* one up and judging the caller by it are one step.                       *)
Authorize(r) ==
  LET p == req[r].who
      q == Asks(r)
  IN  /\ At(r, "authorize")
      /\ \/ MayEnter(q, p, set.admin)
            /\ req' = [req EXCEPT
                 ![r].units = IF set.quota THEN UnitsOf(q, p) ELSE <<>>,
                 ![r].at = IF set.quota /\ UnitsOf(q, p) # <<>> THEN "specific" ELSE "work"]
         \/ ~MayEnter(q, p, set.admin) /\ Goto(r, "denied")
      /\ UNCHANGED <<tables, environment, since>>

Metered(r, whose) ==
  [ws |-> Scope(Asks(r), req[r].who), whose |-> whose, unit |-> Head(req[r].units)]

Limited(r, cap, len, from) ==
  req' = [req EXCEPT ![r].at = "charge", ![r].cap = cap, ![r].len = len, ![r].from = from]

\* Mutant of ReadSpecific: the workspace-wide override is looked up first.
ReadWideFirst(r) ==
  /\ At(r, "specific")
  /\ \/ \E l \in Row(Metered(r, "")) : Limited(r, l.cap, l.len, "wide")
     \/ Row(Metered(r, "")) = {} /\ Goto(r, "wide")
  /\ UNCHANGED <<tables, environment, since>>

(* _resolve_limit: the override of the principal ...                       *)
ReadSpecific(r) ==
  /\ At(r, "specific")
  /\ \/ \E l \in Row(Metered(r, req[r].who.whose)) : Limited(r, l.cap, l.len, "specific")
     \/ Row(Metered(r, req[r].who.whose)) = {} /\ Goto(r, "wide")
  /\ UNCHANGED <<tables, environment, since>>

(* ... else that of the workspace, else the default.                       *)
ReadWide(r) ==
  /\ At(r, "wide")
  /\ \/ \E l \in Row(Metered(r, "")) : Limited(r, l.cap, l.len, "wide")
     \/ Row(Metered(r, "")) = {} /\ Limited(r, set.cap, set.len, "default")
  /\ UNCHANGED <<tables, environment, since>>

(* The repository fails: 503 under governance, else the default.           *)
LimitUnknown(r) ==
  /\ req[r].at \in {"specific", "wide"} /\ faults < MaxFaults
  /\ faults' = faults + 1
  /\ since' = [since EXCEPT ![r].fault = TRUE]
  /\ \/ set.governance /\ Goto(r, "denied")
     \/ ~set.governance /\ Limited(r, set.cap, set.len, "default")
  /\ UNCHANGED <<tables, setup, now>>

KeyNow(r) ==
  [ws |-> Metered(r, "").ws, whose |-> req[r].who.whose, unit |-> Head(req[r].units),
   window |-> now \div req[r].len]

Count(key) == IF key \in DOMAIN counts THEN counts[key] ELSE 0

(* QuotaService.check: the increment has no await in it.                   *)
Charge(r) ==
  LET key == KeyNow(r)
      rest == Tail(req[r].units)
  IN  /\ At(r, "charge")
      /\ counts' = [k \in DOMAIN counts \cup {key} |-> IF k = key THEN Count(k) + 1 ELSE counts[k]]
      /\ \/ Count(key) + 1 > req[r].cap /\ Goto(r, "denied")
         \/ /\ Count(key) + 1 <= req[r].cap
            /\ req' = [req EXCEPT
                 ![r].at = IF rest = <<>> THEN "work" ELSE "specific",
                 ![r].units = rest,
                 ![r].passed = req[r].passed \cup
                   {[key |-> key, cap |-> req[r].cap, from |-> req[r].from]}]
      /\ UNCHANGED <<keyRow, limits, audited, environment, since>>

-----------------------------------------------------------------------------
(* The handlers.                                                           *)

KeyOps == {"create_api_key", "revoke_api_key"}
LimitOps == {"upsert_quota_limit", "delete_quota_limit"}
Working(r, op) == At(r, "work") /\ Asks(r).op = op

(* The handlers that touch neither keys nor limits are not told apart.     *)
Serve(r) ==
  /\ At(r, "work") /\ Asks(r).op \notin KeyOps \cup LimitOps
  /\ Goto(r, "answered")
  /\ UNCHANGED <<tables, environment, since>>

(* create_api_key, add_api_key: the key is new.                            *)
CreateKey(r) ==
  LET q == Asks(r)
  IN  /\ Working(r, "create_api_key") /\ Goto(r, "audit")
      /\ q.roles # {}
      /\ keyRow[q.key].state = "none"
      /\ keyRow' = [keyRow EXCEPT ![q.key] =
           [state |-> "live", whose |-> q.whose, over |-> q.named, roles |-> q.roles,
            used |-> FALSE]]
      /\ UNCHANGED <<limits, counts, audited, environment, since>>

(* revoke_api_key: the first revocation stands.                            *)
RevokeKey(r) ==
  /\ Working(r, "revoke_api_key") /\ Goto(r, "audit")
  /\ keyRow' = [keyRow EXCEPT ![Asks(r).key].state = "revoked"]
  /\ UNCHANGED <<limits, counts, audited, environment, since>>

Aim(r) == [ws |-> Asks(r).named, whose |-> Asks(r).whose, unit |-> Asks(r).unit]
Wanted(r) == [id |-> r, of |-> Aim(r), cap |-> Asks(r).cap, len |-> Asks(r).len]

(* upsert_quota_limit: what is there, ...                                  *)
ReadLimit(r) ==
  /\ Working(r, "upsert_quota_limit")
  /\ req' = [req EXCEPT ![r].at = "write", ![r].row = Row(Aim(r))]
  /\ UNCHANGED <<tables, environment, since>>

(* Only the columns that differ from what was read are written.            *)
Merged(there, read, new) ==
  [there EXCEPT !.cap = IF new.cap = read.cap THEN there.cap ELSE new.cap,
                !.len = IF new.len = read.len THEN there.len ELSE new.len]

(* ... an UPDATE of that row, which raises if it is gone, ...              *)
UpdateLimit(r) ==
  /\ req[r].at \in {"write", "rewrite"}
  /\ \E read \in req[r].row :
       \/ \E there \in {l \in limits : l.id = read.id /\ l.of = read.of} :
            /\ limits' = (limits \ {there}) \cup {Merged(there, read, Wanted(r))}
            /\ Goto(r, "audit")
       \/ /\ \A l \in limits : l.id # read.id \/ l.of # read.of
          /\ Goto(r, "failed") /\ UNCHANGED limits
  /\ UNCHANGED <<keyRow, counts, audited, environment, since>>

\* Mutant of InsertLimit: the unique index is left to complain.
InsertLimitOnce(r) ==
  /\ At(r, "write") /\ req[r].row = {}
  /\ \/ Row(Aim(r)) = {} /\ limits' = limits \cup {Wanted(r)} /\ Goto(r, "audit")
     \/ Row(Aim(r)) # {} /\ Goto(r, "failed") /\ UNCHANGED limits
  /\ UNCHANGED <<keyRow, counts, audited, environment, since>>

(* ... or an INSERT, which the unique index refuses to the second.         *)
InsertLimit(r) ==
  /\ At(r, "write") /\ req[r].row = {}
  /\ \/ Row(Aim(r)) = {} /\ limits' = limits \cup {Wanted(r)} /\ Goto(r, "audit")
     \/ Row(Aim(r)) # {} /\ Goto(r, "reread") /\ UNCHANGED limits
  /\ UNCHANGED <<keyRow, counts, audited, environment, since>>

(* The retry after an IntegrityError.                                      *)
RereadLimit(r) ==
  LET rows == Row(Aim(r))
  IN  /\ At(r, "reread")
      /\ \/ rows = {} /\ Goto(r, "failed")
         \/ rows # {} /\ req' = [req EXCEPT ![r].at = "rewrite", ![r].row = rows]
      /\ UNCHANGED <<tables, environment, since>>

(* delete_quota_limit: the row is looked up ...                            *)
FindLimit(r) ==
  LET found == {l \in limits : l.id = Asks(r).id /\ l.of.ws = Asks(r).named}
  IN  /\ Working(r, "delete_quota_limit")
      /\ \/ found = {} /\ Goto(r, "denied")
         \/ found # {} /\ req' = [req EXCEPT ![r].at = "drop", ![r].row = found]
      /\ UNCHANGED <<tables, environment, since>>

(* ... and deleted, if it is still there.                                  *)
DropLimit(r) ==
  LET gone == {l \in limits : l.id = Asks(r).id}
      names == {l.of : l \in gone}
  IN  /\ At(r, "drop") /\ Goto(r, "audit")
      /\ limits' = limits \ gone
      /\ since' = [s \in Requests |->
           [since[s] EXCEPT !.missing = since[s].missing \cup names,
                            !.dropped = since[s].dropped \cup names]]
      /\ UNCHANGED <<keyRow, counts, audited, environment>>

(* _record_admin_audit, the last call of an admin handler.                 *)
Audit(r) ==
  /\ At(r, "audit") /\ Goto(r, "answered")
  /\ audited' = audited \cup {r}
  /\ UNCHANGED <<keyRow, limits, counts, environment, since>>

(* Any call of a handler may raise.                                        *)
HandlerFails(r) ==
  /\ req[r].at \in {"work", "write", "reread", "rewrite", "drop", "audit"}
  /\ faults < MaxFaults /\ faults' = faults + 1
  /\ since' = [since EXCEPT ![r].fault = TRUE]
  /\ Goto(r, "failed")
  /\ UNCHANGED <<tables, setup, now>>

Tick ==
  /\ set.quota /\ now < Horizon /\ now' = now + 1
  /\ UNCHANGED <<tables, setup, faults, req, since>>

Step(r) ==
  \/ Arrive(r) \/ ListKeys(r) \/ LookUpKey(r) \/ MarkUsed(r) \/ AuthenticationFails(r)
  \/ Authorize(r) \/ ReadSpecific(r) \/ ReadWide(r) \/ LimitUnknown(r) \/ Charge(r)
  \/ Serve(r) \/ CreateKey(r) \/ RevokeKey(r) \/ ReadLimit(r) \/ UpdateLimit(r)
  \/ InsertLimit(r) \/ RereadLimit(r) \/ FindLimit(r) \/ DropLimit(r) \/ Audit(r)
  \/ HandlerFails(r)

GateNext == Tick \/ \E r \in Requests : Step(r)
GateSpec == GateInit /\ [][GateNext]_gate

-----------------------------------------------------------------------------
(* Properties.                                                             *)

Places == {"idle", "keys", "lookup", "mark", "authorize", "specific", "wide", "charge",
           "work", "write", "reread", "rewrite", "drop", "audit", "answered", "denied",
           "failed"}

Scopes == Workspaces \cup {"", "missing"}
Whose == Names \cup {Anonymous.whose, Legacy.whose, Bearer.whose}
UnitNames == {"write_event", "async_task_enqueue", "retrieve_context", "replay", "report_export"}
QuotaKeys == [ws : Scopes, whose : Whose, unit : UnitNames, window : Nat]
LimitRows == [id : Nat, of : Identities, cap : Nat, len : Nat \ {0}]
Callers ==
  [kind : {"anonymous", "legacy_api_key", "jwt", "api_key"}, whose : Whose,
   over : SUBSET (Workspaces \cup {"*"}), roles : SUBSET (Roles \cup Claims.roles),
   key : SUBSET Keys]
Charges == [key : QuotaKeys, cap : Nat, from : {"specific", "wide", "default"}]
Journeys ==
  [at : Places, who : Callers, row : SUBSET (KeyRows \cup LimitRows), units : Seq(UnitNames),
   cap : Nat, len : Nat \ {0}, from : {"none", "specific", "wide", "default"},
   passed : SUBSET Charges]
Histories ==
  [stored : BOOLEAN, dead : SUBSET Keys, missing : SUBSET Identities,
   dropped : SUBSET Identities, fault : BOOLEAN]

(* What may be asked, and what the requests may find.                      *)
Askable(q) ==
  /\ q.op \in Operations \cup {"none"} /\ {q.named, q.home} \subseteq Scopes
  /\ q.op # "none" /\ RouteOf(q.op).where = "named" => q.home = ""
  /\ q.op \in KeyOps => q.key \in Keys
  /\ q.op = "create_api_key" => /\ q.whose \in Names /\ q.named \in Workspaces
                                /\ q.roles \subseteq Roles
  /\ q.op = "upsert_quota_limit" => /\ [ws |-> q.named, whose |-> q.whose, unit |-> q.unit]
                                         \in Identities
                                    /\ q.cap \in Nat /\ q.len \in Nat \ {0}

GateConstants ==
  /\ IsFiniteSet(Requests) /\ Requests \subseteq Nat
  /\ "*" \notin Workspaces /\ "" \notin Workspaces /\ Claims.over \subseteq Workspaces \cup {"*"}
  /\ MaxFaults \in Nat /\ Horizon \in Nat
  /\ \A w \in Workloads :
       /\ w.settings \in Settings
       /\ w.keys \in [Keys -> KeyRows] /\ w.limits \subseteq LimitRows
       /\ \A l, m \in w.limits : l.of = m.of => l = m
       /\ \A r \in Requests : Askable(w.asked[r])

(* The tables and what the requests hold of them are well formed.          *)
GateTypeOK ==
  /\ keyRow \in [Keys -> KeyRows] /\ limits \subseteq LimitRows
  /\ DOMAIN counts \subseteq QuotaKeys /\ counts \in [DOMAIN counts -> Nat]
  /\ now \in 0..Horizon /\ faults \in 0..MaxFaults
  /\ audited \subseteq Requests
  /\ req \in [Requests -> Journeys] /\ since \in [Requests -> Histories]

Answered(r) == At(r, "answered")

(* An answer is only given to a caller whose roles grant it in the         *)
(* workspace of the row that was touched, or that was named, and admin     *)
(* routes answer only to the holder of a key that owns that very workspace *)
(* (api/routes.py, governance/admin.py).                                   *)
AnsweredWhereGranted ==
  \A r \in Requests :
    LET q == Asks(r)
        p == req[r].who
        need == RouteOf(q.op).needs
        ws == IF q.home # "" THEN q.home ELSE q.named
    IN  Answered(r) /\ p.kind # "anonymous" =>
          /\ need = "admin" => p.kind = "api_key" /\ p.over = {ws} /\ "owner" \in p.roles
          /\ need # "admin" /\ ws # "" => HasPermission(p, ws, need)
          /\ ws = "" => "*" \in p.over

(* A key that was revoked before a request arrived does not get that       *)
(* request answered, whatever other requests of the same key were doing    *)
(* meanwhile (authenticate_api_key, mark_api_key_used, revoke_api_key).    *)
RevocationHolds ==
  \A r \in Requests : Answered(r) => req[r].who.key \cap since[r].dead = {}

(* Once a key has ever been stored the legacy key is refused, revoking     *)
(* every stored key does not bring it back, unless it is explicitly        *)
(* allowed or, without governance, the database failed                     *)
(* (authenticate_api_key, require_api_key).                                *)
LegacyRetires ==
  \A r \in Requests :
    Answered(r) /\ req[r].who.kind = "legacy_api_key" =>
      \/ ~since[r].stored \/ set.allowLegacy
      \/ since[r].fault /\ ~set.governance

(* Under governance a request whose authentication or quota could not be   *)
(* looked up is refused ("auth must fail closed", api/deps.py; "governance *)
(* mode intentionally fail-closed", governance/quota.py).                  *)
FailsClosed ==
  \A r \in Requests : Answered(r) /\ since[r].fault => ~set.governance

(* Of the requests charged to one quota key no more get past the quota     *)
(* than the most generous of the limits they were measured by              *)
(* (QuotaService.check).                                                   *)
QuotaHolds ==
  LET Passed(r) == req[r].passed
      Charged == {c.key : c \in UNION {Passed(r) : r \in Requests}}
  IN  \A key \in Charged :
        LET in == {r \in Requests : \E c \in Passed(r) : c.key = key}
        IN  \E r \in in : \E c \in Passed(r) : c.key = key /\ Cardinality(in) <= c.cap

(* A caller is measured by the override of its workspace only if at some   *)
(* moment since it arrived it had none of its own, and by the default only *)
(* if at some moment there was neither, or the database failed             *)
(* (QuotaService._resolve_limit).                                          *)
OverrideHolds ==
  \A r \in Requests : \A c \in req[r].passed :
    LET Gap(whose) ==
          [ws |-> c.key.ws, whose |-> whose, unit |-> c.key.unit] \in since[r].missing
        administered == c.key.unit \in Units /\ req[r].who.kind = "api_key"
    IN  administered =>
          /\ c.from = "wide" => Gap(c.key.whose)
          /\ c.from = "default" => since[r].fault \/ (Gap(c.key.whose) /\ Gap(""))

(* Authentication decides on what it reads at different moments; all three *)
(* together keep the door shut (require_api_key, authenticate_api_key).    *)
CredentialsHold == RevocationHolds /\ LegacyRetires /\ FailsClosed

(* How often, and by which limit, a caller is measured                     *)
(* (governance/quota.py).                                                  *)
LimitsHold == QuotaHolds /\ OverrideHolds

(* No workspace, principal and unit has two overrides, and setting one     *)
(* fails only if the database does, or if somebody deleted the limit       *)
(* meanwhile: two callers that set it at once both succeed                 *)
(* (upsert_quota_limit).                                                   *)
UpsertsSettle ==
  /\ \A l, m \in limits : l.of = m.of => l = m
  /\ \A r \in Requests :
       At(r, "failed") /\ Asks(r).op = "upsert_quota_limit" =>
         since[r].fault \/ Aim(r) \in since[r].dropped
=============================================================================
