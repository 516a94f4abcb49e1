----------------------------- MODULE Principals -----------------------------
(***************************************************************************)
(* Who a caller is, what each route asks of it, and in which workspace     *)
(* (governance/auth.py, jwt_auth.py, permissions.py, admin.py and the      *)
(* guards at the head of the handlers of api/routes.py and                 *)
(* api/admin_routes.py).  A credential stands for what it proves to be: a  *)
(* stored key by its number, a token by the claims that verify.            *)
(***************************************************************************)
EXTENDS FiniteSets, Sequences

CONSTANTS
  Keys,          \* the API keys there may ever be
  Workspaces,
  Names,         \* principal ids
  Claims         \* the claims of a valid token: whose, over, roles

Roles == {"owner", "writer", "reader", "report_reader"}

RoleGrants ==
  [owner |-> Roles, writer |-> {"writer", "reader"}, reader |-> {"reader"},
   report_reader |-> {"report_reader"}]

\* A key as stored; unusable before it is created.
KeyRows ==
  [state : {"none", "live", "revoked"}, whose : Names, over : Workspaces,
   roles : SUBSET Roles, used : BOOLEAN]

Principal(kind, whose, over, roles, key) ==
  [kind |-> kind, whose |-> whose, over |-> over, roles |-> roles, key |-> key]

Anonymous == Principal("anonymous", "anonymous", {"*"}, {"owner"}, {})
Legacy == Principal("legacy_api_key", "legacy_api_key", {"*"}, {"owner"}, {})
Bearer == Principal("jwt", Claims.whose, Claims.over, Claims.roles, {})
HolderOf(k, row) == Principal("api_key", row.whose, {row.over}, row.roles, {k})

Covers(p, ws) == "*" \in p.over \/ ws \in p.over

HasPermission(p, ws, permission) ==
  /\ Covers(p, ws)
  /\ \E role \in p.roles \cap DOMAIN RoleGrants : permission \in RoleGrants[role]

(* require_admin_owner                                                     *)
AdminOwner(p, ws) ==
  /\ p.kind = "api_key" /\ p.key # {}
  /\ "*" \notin p.over /\ ws \in p.over
  /\ HasPermission(p, ws, "owner")

-----------------------------------------------------------------------------
(* Routes.  "target": the workspace is that of the run, step, access or    *)
(* memory the path names, "named": it is given by the caller, "either":    *)
(* that of the run if one is given, "open": anonymous callers are not      *)
(* checked at all.  units are the quota units charged, in this order.      *)

Route(where, needs, units) == [where |-> where, needs |-> needs, units |-> units]

WriteRoutes ==
  [create_run        |-> Route("named", "writer", <<"write_event">>),
   write_step        |-> Route("target", "writer", <<"write_event">>),
   write_event       |-> Route("target", "writer", <<"write_event">>),
   write_event_async |-> Route("target", "writer", <<"write_event", "async_task_enqueue">>)]

RunRoutes ==
  [retrieve_context  |-> Route("target", "reader", <<"retrieve_context">>),
   rollback_branch   |-> Route("target", "writer", <<"write_event">>),
   complete_run      |-> Route("target", "writer", <<"write_event">>),
   flush_session     |-> Route("named", "writer", <<"write_event">>)]

ReadRoutes ==
  [read_run    |-> Route("open", "reader", <<>>),
   read_access |-> Route("target", "reader", <<>>),
   replay      |-> Route("target", "report_reader", <<"replay">>)]

ReportRoutes ==
  [observability_summary |-> Route("either", "report_reader", <<>>),
   write_report          |-> Route("either", "report_reader", <<"report_export">>),
   export_telemetry      |-> Route("target", "report_reader", <<"report_export">>)]

ListRoutes ==
  [get_row          |-> Route("target", "reader", <<>>),
   list_memories    |-> Route("either", "reader", <<>>),
   list_conflicts   |-> Route("named", "reader", <<>>),
   dashboard_tables |-> Route("named", "report_reader", <<>>)]

AdminRoutes ==
  [start_maintenance_run |-> Route("named", "admin", <<"report_export">>),
   list_admin_rows       |-> Route("named", "admin", <<>>),
   create_api_key        |-> Route("named", "admin", <<>>),
   revoke_api_key        |-> Route("key", "admin", <<>>),
   upsert_quota_limit    |-> Route("named", "admin", <<>>),
   delete_quota_limit    |-> Route("named", "admin", <<>>)]

RouteTables == {WriteRoutes, RunRoutes, ReadRoutes, ReportRoutes, ListRoutes, AdminRoutes}
Operations == UNION {DOMAIN t : t \in RouteTables}
RouteOf(op) == (CHOOSE t \in RouteTables : op \in DOMAIN t)[op]

(* A request names a workspace, "" if it leaves it out, and a target,      *)
(* which lies in workspace "home": "" if it names none, "missing" if there *)
(* is no such row.                                                         *)
OptionalNames == {"flush_session", "observability_summary", "write_report",
                  "list_memories", "dashboard_tables"}

\* Mutant of Scope: the caller's word for it.
ScopeAsNamed(q, p) ==
  IF q.named # "" THEN q.named ELSE q.home

(* The workspace q is judged in: _workspace_for_run_or_404 and its         *)
(* siblings, and _workspace_for_run_with_optional_filter_or_404.           *)
Scope(q, p) ==
  LET where == RouteOf(q.op).where
      byTarget == \/ where \in {"target", "open", "key"}
                  \/ where = "either" /\ q.home # "" /\ p.kind # "anonymous"
  IN  IF ~byTarget THEN q.named
      ELSE IF q.home # "missing" /\ q.named \in {"", q.home} THEN q.home
      ELSE "missing"

(* _authz, _authz_run_if_required, the handlers that can do without a      *)
(* workspace, require_admin_owner.                                         *)
MayEnter(q, p, adminEnabled) ==
  LET route == RouteOf(q.op)
      ws == Scope(q, p)
  IN  \/ route.needs = "admin" /\ adminEnabled /\ ws # "missing" /\ AdminOwner(p, ws)
      \/ /\ route.needs # "admin"
         /\ \/ route.where = "open" /\ p.kind = "anonymous"
            \/ ws = "" /\ (p.kind = "anonymous" \/ "*" \in p.over)
            \/ ws \notin {"", "missing"} /\ HasPermission(p, ws, route.needs)

(* Without a workspace nothing is charged (flush_session,                  *)
(* write_observability_report).                                            *)
UnitsOf(q, p) == IF Scope(q, p) = "" THEN <<>> ELSE RouteOf(q.op).units
=============================================================================
