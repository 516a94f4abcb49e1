----------------------------- MODULE MCApiServer -----------------------------
(* ApiServer for TLC.  A workload is a set of requests that may meet, with *)
(* the settings and tables they find: every route with every kind of       *)
(* credential alone, and the mixes of keys, limits and runs that race.     *)
EXTENDS ApiServer, TLC

All == INSTANCE Principals

MCClaims == [whose |-> "joe", over |-> {"w"}, roles |-> {"reader", "unheard_of"}]
MCSubtree == (1 :> {1, 2}) @@ (2 :> {2})
MCNodeOf == (1 :> 1) @@ (2 :> 2) @@ (3 :> 2)

Nothing ==
  [op |-> "none", cred |-> "k1", named |-> "w", home |-> "", key |-> "k3",
   whose |-> "bob", unit |-> "write_event", cap |-> 1, len |-> 1, id |-> 0,
   roles |-> {"reader"}, step |-> 2, result |-> "completed"]
Ask(op) ==
  [Nothing EXCEPT !.op = op,
                  !.named = IF All!RouteOf(op).where = "named" THEN "w" ELSE "",
                  !.home = IF All!RouteOf(op).where = "named" THEN "" ELSE "w"]
By(cred, q) == [q EXCEPT !.cred = cred]

On == [auth |-> TRUE, jwt |-> TRUE, governance |-> TRUE, apiKey |-> TRUE,
       allowLegacy |-> FALSE, quota |-> TRUE, admin |-> TRUE, cap |-> 1, len |-> 2]
Lax == [On EXCEPT !.governance = FALSE]

Key(state, whose, roles) ==
  [state |-> state, whose |-> whose, over |-> "w", roles |-> roles, used |-> FALSE]
MCKeys == [k1 |-> Key("live", "ann", {"owner"}), k2 |-> Key("live", "ann", {"writer"}),
           k3 |-> Key("none", "bob", {})]
NoKeys == [k \in Keys |-> MCKeys["k3"]]
OneKey == [NoKeys EXCEPT !["k1"] = MCKeys["k1"]]

Work(settings, keys, rows, asked) ==
  [settings |-> settings, keys |-> keys, limits |-> rows, asked |-> asked,
   present |-> {}, budget |-> 0]

Creds == {"none", "legacy", "jwt", "bad jwt", "junk", "k1", "k2"}
Aims(op) ==
  LET q == Ask(op)
  IN  CASE op \in All!OptionalNames ->
             {[q EXCEPT !.named = n, !.home = h] :
                n \in {"", "w", "v"},
                h \in IF All!RouteOf(op).where = "either" THEN {"", "w", "missing"} ELSE {""}}
        [] op = "retrieve_context" ->
             {[q EXCEPT !.named = n, !.home = h] : n \in {"", "v"}, h \in {"w", "v", "missing"}}
        [] op = "revoke_api_key" -> {[q EXCEPT !.key = k] : k \in {"k1", "k2"}}
        [] All!RouteOf(op).where = "named" -> {[q EXCEPT !.named = n] : n \in {"w", "v"}}
        [] OTHER -> {[q EXCEPT !.home = h] : h \in {"w", "v", "missing"}}

Routes ==
  {Work(s, MCKeys, {}, <<By(c, q), Nothing, Nothing>>) :
     s \in {[On EXCEPT !.allowLegacy = TRUE], [On EXCEPT !.jwt = FALSE],
            [On EXCEPT !.auth = FALSE, !.admin = FALSE, !.quota = FALSE]},
     c \in Creds, q \in UNION {Aims(op) : op \in All!Operations}}

(* Keys made, used and revoked meanwhile, and the legacy key after that.   *)
KeyMixes ==
  {Work([s EXCEPT !.allowLegacy = a], keys, {}, asked) :
     s \in {On, Lax}, a \in BOOLEAN, keys \in {MCKeys, OneKey, NoKeys},
     asked \in {<<Ask("get_row"), [Ask("revoke_api_key") EXCEPT !.key = "k1"],
                  By(c, Ask("get_row"))>> : c \in {"k1", "legacy"}}
       \cup {<<Ask("create_api_key"), By("k3", Ask("get_row")), By("legacy", Ask("get_row"))>>}}

Limit(whose, cap) ==
  [id |-> IF whose = "" THEN 0 ELSE 9, cap |-> cap, len |-> 1,
   of |-> [ws |-> "w", whose |-> whose, unit |-> "write_event"]]
Put(whose, cap, len) ==
  [Ask("upsert_quota_limit") EXCEPT !.whose = whose, !.cap = cap, !.len = len]
Drop(id) == [Ask("delete_quota_limit") EXCEPT !.id = id]

(* Callers of one name while its limits change, ...                        *)
QuotaMixes ==
  {Work(On, MCKeys, mix[1], <<By("k2", Ask("write_event")), Ask("write_event"), mix[2]>>) :
     mix \in {<<{Limit("", 2)}, Put("ann", 2, 2)>>, <<{Limit("ann", 2)}, Drop(9)>>,
              <<{Limit("", 2), Limit("ann", 0)}, Drop(9)>>}}
  \cup {Work(s, MCKeys, {Limit("", 2), Limit("ann", 0)},
             <<By("k2", Ask("write_event_async")), Ask("write_event"), Drop(9)>>) :
          s \in {On, Lax}}
  \cup {Work(On, MCKeys, {}, <<By("k2", Ask("write_event")), Ask("write_event"), change>>) :
          change \in {Put("", 0, 1), Ask("write_event")}}

(* ... and limits set and dropped at once.                                 *)
UpsertMixes ==
  {Work(On, MCKeys, rows, <<Put("", 1, 2), Put("", 2, 1), last>>) :
     rows \in {{}, {Limit("", 2)}}, last \in {Drop(0), Drop(1), Put("", 0, 1)}}

(* The run: completed twice, rolled back, asked for its history, with and  *)
(* without maintenance.                                                    *)
Open == [On EXCEPT !.auth = FALSE, !.quota = FALSE, !.admin = FALSE]
Ends(result) == [Ask("complete_run") EXCEPT !.result = result]
Undo(s) == [Ask("rollback_branch") EXCEPT !.step = s]
RunMix(settings, present, most, asked) ==
  [Work(settings, NoKeys, {}, asked) EXCEPT !.present = present, !.budget = most]
RunMixes ==
  {RunMix(Open, {2}, 2, <<Ends("completed"), Undo(2), Nothing>>),
   RunMix(Open, {2}, 1, <<Ends("completed"), Undo(1), Ask("retrieve_context")>>),
   RunMix(Open, {1}, 2, <<Undo(2), Ask("retrieve_context"), Nothing>>),
   RunMix(Open, {2}, 0, <<Ends("completed"), Ends("failed"), Ends("completed")>>),
   RunMix(Open, {2}, 0, <<Ends("completed"), Ends("completed"), Undo(2)>>),
   RunMix([Open EXCEPT !.admin = TRUE], {1, 3}, 2, <<Ends("completed"), Nothing, Nothing>>),
   RunMix([Open EXCEPT !.admin = TRUE], {}, 0, <<Ends("completed"), Ends("failed"), Nothing>>)}

MCWorkloads == Routes \cup KeyMixes \cup QuotaMixes \cup UpsertMixes \cup RunMixes
=============================================================================
