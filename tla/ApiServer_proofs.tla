------------------------- MODULE ApiServer_proofs -------------------------
(***************************************************************************)
(* Theorems about ApiServer, for any requests, keys, limits and faults.    *)
(* The first part is of the gate alone, which the server implements: its   *)
(* invariant is IInv.  The second is of the run behind the gate, its       *)
(* handlers and the refresh: its invariant is RunTypeOK with RollInv for   *)
(* what a rollback takes away, TellInv for what is told of the path, and   *)
(* FitInv with calm => Alone for the summaries.                            *)
(***************************************************************************)
EXTENDS ApiServer, FiniteSetTheorems, SequenceTheorems, WellFoundedInduction, TLAPS

(* The settings never change, and nobody asks what cannot be asked.        *)
SetupOK == setup.settings \in Settings /\ \A r \in Requests : Askable(Asks(r))

(* What holds of the caller of r: the keys that were revoked before it     *)
(* came stay revoked, so none of them is the one it was let in with; a     *)
(* store that had keys has some; and after a failure nothing under         *)
(* governance goes on.                                                     *)
Admitted(r) ==
  /\ At(r, "idle") => req[r].who = Anonymous /\ ~since[r].fault
  /\ since[r].dead \subseteq Dead
  /\ since[r].stored => Stored # {}
  /\ At(r, "mark") => Asks(r).cred \in Keys \ since[r].dead /\ req[r].row \subseteq KeyRows
  /\ req[r].who.key \cap since[r].dead = {}
  /\ req[r].who.kind = "legacy_api_key" =>
       \/ ~since[r].stored \/ set.allowLegacy
       \/ since[r].fault /\ ~set.governance
  /\ since[r].fault /\ set.governance => req[r].at \in {"denied", "failed"}

(* What holds of the limits r is measured by: since[r] knows every gap, so *)
(* that an override that was not found was missing.                        *)
Identity(r, whose, unit) == [ws |-> Scope(Asks(r), req[r].who), whose |-> whose, unit |-> unit]
Metering == {"specific", "wide", "charge"}
Outside == {"idle", "keys", "lookup", "mark", "authorize"}
OwnGap(r) == Identity(r, req[r].who.whose, Head(req[r].units)) \in since[r].missing
WideGap(r) == Identity(r, "", Head(req[r].units)) \in since[r].missing
Administered(r) == req[r].who.kind = "api_key" /\ Head(req[r].units) \in Units

Measured(r) ==
  /\ ~At(r, "idle") => Asks(r).op # "none"
  /\ ~At(r, "idle") => \A i \in Identities : Row(i) = {} => i \in since[r].missing
  /\ req[r].at \in Outside => req[r].passed = {}
  /\ req[r].who.kind = "api_key" => /\ req[r].who.whose \in Names
                                    /\ \E w \in Workspaces : req[r].who.over = {w}
  /\ req[r].at \in Metering => req[r].units # <<>>
  /\ req[r].at \in Metering /\ req[r].who.kind = "api_key" =>
       Scope(Asks(r), req[r].who) \in Workspaces
  /\ At(r, "wide") /\ Administered(r) => OwnGap(r)
  /\ At(r, "charge") /\ Administered(r) =>
       /\ req[r].from = "wide" => OwnGap(r)
       /\ req[r].from = "default" => since[r].fault \/ (OwnGap(r) /\ WideGap(r))
  /\ At(r, "charge") => req[r].from # "none"
  /\ req[r].at \notin Outside \cup {"denied", "failed"} =>
       MayEnter(Asks(r), req[r].who, set.admin)

(* Every request that passed was counted.                                  *)
In(key) == {r \in Requests : \E c \in req[r].passed : c.key = key}
Counted == \A key : In(key) # {} => Cardinality(In(key)) <= Count(key)

(* What an upsert holds is still there, or somebody dropped it.            *)
Editing == {"write", "reread", "rewrite"}
There(l) == \E m \in limits : m.id = l.id /\ m.of = l.of
Upserting(r) ==
  /\ req[r].at \in Editing => Asks(r).op = "upsert_quota_limit"
  /\ req[r].at \in {"write", "rewrite"} =>
       /\ req[r].row \subseteq LimitRows
       /\ \A l \in req[r].row : l.of = Aim(r) /\ (There(l) \/ Aim(r) \in since[r].dropped)
  /\ At(r, "reread") => Row(Aim(r)) # {} \/ Aim(r) \in since[r].dropped
  /\ At(r, "drop") => Asks(r).op = "delete_quota_limit"

IInv ==
  /\ GateTypeOK /\ SetupOK /\ Counted /\ QuotaHolds /\ OverrideHolds /\ UpsertsSettle
  /\ \A r \in Requests : Admitted(r) /\ Measured(r) /\ Upserting(r)

-----------------------------------------------------------------------------
(* What the helpers return.                                                *)

(* The units of every route are units, and its workspace is found in one   *)
(* of five ways.                                                           *)
LEMMA RouteShapes ==
  ASSUME NEW op \in Operations
  PROVE  /\ RouteOf(op).units \in Seq(UnitNames)
         /\ RouteOf(op).where \in {"named", "target", "open", "key", "either"}
<1> DEFINE Lists == {<<>>, <<"write_event">>, <<"write_event", "async_task_enqueue">>,
                     <<"retrieve_context">>, <<"replay">>, <<"report_export">>}
           Ways == {"named", "target", "open", "key", "either"}
           Fine(t) == \A o \in DOMAIN t : t[o].units \in Lists /\ t[o].where \in Ways
<1>0. Lists \subseteq Seq(UnitNames)
  BY DEF UnitNames
<1>1. Fine(WriteRoutes)
  BY DEF WriteRoutes, Route
<1>2. Fine(RunRoutes)
  BY DEF RunRoutes, Route
<1>3. Fine(ReadRoutes)
  BY DEF ReadRoutes, Route
<1>4. Fine(ReportRoutes)
  BY DEF ReportRoutes, Route
<1>5. Fine(ListRoutes)
  BY DEF ListRoutes, Route
<1>6. Fine(AdminRoutes)
  BY DEF AdminRoutes, Route
<1>7. PICK t \in RouteTables : op \in DOMAIN t
  BY DEF Operations
<1>8. LET u == CHOOSE u \in RouteTables : op \in DOMAIN u
      IN  u \in RouteTables /\ op \in DOMAIN u
  BY <1>7
<1>9. \A t0 \in RouteTables : Fine(t0)
  <2> HIDE DEF Fine
  <2> QED  BY <1>1, <1>2, <1>3, <1>4, <1>5, <1>6 DEF RouteTables
<1>10. QED
  BY <1>0, <1>8, <1>9 DEF RouteOf

LEMMA UnitsAreNames ==
  ASSUME NEW q, NEW p, Askable(q), q.op # "none"
  PROVE  UnitsOf(q, p) \in Seq(UnitNames)
<1>1. q.op \in Operations
  BY DEF Askable
<1>2. <<>> \in Seq(UnitNames)
  OBVIOUS
<1>3. QED
  BY <1>1, <1>2, RouteShapes DEF UnitsOf

LEMMA ScopeIsScope ==
  ASSUME NEW q, NEW p, Askable(q)
  PROVE  Scope(q, p) \in Scopes
BY DEF Scope, Scopes, Askable

LEMMA Bounded ==
  ASSUME GateConstants
  PROVE  MaxFaults \in Nat /\ Horizon \in Nat
BY DEF GateConstants

LEMMA WindowIsNat ==
  ASSUME NEW n \in Nat, NEW d \in Nat \ {0}
  PROVE  n \div d \in Nat
OBVIOUS


LEMMA CallersAreCallers ==
  ASSUME GateConstants
  PROVE  /\ {Anonymous, Legacy, Bearer} \subseteq Callers
         /\ \A k \in Keys, kept \in KeyRows : HolderOf(k, kept) \in Callers
<1>1. Anonymous \in Callers
  BY DEF Anonymous, Principal, Callers, Whose, Roles
<1>2. Legacy \in Callers
  BY DEF Legacy, Principal, Callers, Whose, Roles
<1>3. Bearer \in Callers
  BY DEF Bearer, Principal, Callers, Whose, GateConstants
<1>4. ASSUME NEW k \in Keys, NEW kept \in KeyRows
      PROVE  HolderOf(k, kept) \in Callers
  BY DEF HolderOf, Principal, Callers, Whose, KeyRows
<1>5. QED
  BY <1>1, <1>2, <1>3, <1>4

-----------------------------------------------------------------------------
(* Types.                                                                  *)

LEMMA GotoKeepsType ==
  ASSUME GateTypeOK, NEW r \in Requests, NEW place \in Places, Goto(r, place)
  PROVE  req' \in [Requests -> Journeys]
BY ZenonT(30) DEF GateTypeOK, Goto, Journeys

LEMMA EnterKeepsType ==
  ASSUME GateTypeOK, NEW r \in Requests, NEW p \in Callers, Enter(r, p)
  PROVE  req' \in [Requests -> Journeys]
<1>1. [req[r] EXCEPT !.at = "authorize", !.who = p] \in Journeys
  <2>1. req[r] \in Journeys /\ "authorize" \in Places
    BY DEF GateTypeOK, Places
  <2>2. QED
    BY <2>1 DEF Journeys
<1>2. req' = [req EXCEPT ![r] = [req[r] EXCEPT !.at = "authorize", !.who = p]]
  BY DEF GateTypeOK, Enter
<1>3. QED
  BY <1>1, <1>2 DEF GateTypeOK

LEMMA LimitedKeepsType ==
  ASSUME GateTypeOK, NEW r \in Requests, NEW cap \in Nat, NEW len \in Nat \ {0},
         NEW from \in {"specific", "wide", "default"}, Limited(r, cap, len, from)
  PROVE  req' \in [Requests -> Journeys]
<1> DEFINE j == [req[r] EXCEPT !.at = "charge", !.cap = cap, !.len = len, !.from = from]
<1>1. j \in Journeys
  <2>1. req[r] \in Journeys /\ "charge" \in Places
    BY DEF GateTypeOK, Places
  <2>2. QED
    BY <2>1 DEF Journeys
<1>2. req' = [req EXCEPT ![r] = j]
  BY DEF GateTypeOK, Limited
<1>3. QED
  BY <1>1, <1>2 DEF GateTypeOK

LEMMA AuthenticationKeepsType ==
  ASSUME GateConstants, GateTypeOK, SetupOK, NEW r \in Requests, Admitted(r),
         \/ Arrive(r) \/ ListKeys(r) \/ LookUpKey(r) \/ MarkUsed(r) \/ AuthenticationFails(r)
  PROVE  GateTypeOK'
<1>1. CASE Arrive(r)
  <2>1. req' \in [Requests -> Journeys]
    BY <1>1, GotoKeepsType, EnterKeepsType, CallersAreCallers DEF Arrive, Places
  <2>2. since' \in [Requests -> Histories]
    BY <1>1 DEF Arrive, GateTypeOK, Histories, Unharmed, Dead
  <2>3. QED
    BY <1>1, <2>1, <2>2 DEF Arrive, GateTypeOK, tables, environment
<1>2. CASE ListKeys(r)
  <2>1. req' \in [Requests -> Journeys]
    BY <1>2, GotoKeepsType, EnterKeepsType, CallersAreCallers DEF ListKeys, Places
  <2>2. QED
    BY <1>2, <2>1 DEF ListKeys, GateTypeOK, tables, environment
<1>3. CASE LookUpKey(r)
  <2>1. req' \in [Requests -> Journeys]
    <3>1. CASE Goto(r, "denied")
      BY <3>1, GotoKeepsType DEF Places
    <3>2. ASSUME Asks(r).cred \in Keys,
                 req' = [req EXCEPT ![r].at = "mark", ![r].row = {keyRow[Asks(r).cred]}]
          PROVE  req' \in [Requests -> Journeys]
      <4> DEFINE j == [req[r] EXCEPT !.at = "mark", !.row = {keyRow[Asks(r).cred]}]
      <4>1. j \in Journeys
        <5>1. req[r] \in Journeys /\ "mark" \in Places /\ keyRow[Asks(r).cred] \in KeyRows
          BY <3>2 DEF GateTypeOK, Places
        <5>2. QED
          BY <5>1 DEF Journeys
      <4>2. req' = [req EXCEPT ![r] = j]
        BY <3>2 DEF GateTypeOK
      <4>3. QED
        BY <4>1, <4>2 DEF GateTypeOK
    <3>3. QED
      BY <1>3, <3>1, <3>2 DEF LookUpKey
  <2>2. QED
    BY <1>3, <2>1 DEF LookUpKey, GateTypeOK, tables, environment
<1>4. CASE MarkUsed(r)
  <2>1. Asks(r).cred \in Keys
    BY <1>4 DEF MarkUsed, Admitted
  <2>2. PICK kept \in req[r].row : Enter(r, HolderOf(Asks(r).cred, kept))
    BY <1>4 DEF MarkUsed
  <2>3. kept \in KeyRows
    BY <1>4 DEF MarkUsed, Admitted
  <2>4. req' \in [Requests -> Journeys]
    BY <2>1, <2>2, <2>3, EnterKeepsType, CallersAreCallers
  <2>5. keyRow' \in [Keys -> KeyRows]
    BY ZenonT(30), <1>4, <2>1 DEF MarkUsed, GateTypeOK, KeyRows
  <2>6. QED
    BY <1>4, <2>4, <2>5 DEF MarkUsed, GateTypeOK, environment
<1>5. CASE AuthenticationFails(r)
  <2>1. req' \in [Requests -> Journeys]
    BY <1>5, GotoKeepsType, EnterKeepsType, CallersAreCallers DEF AuthenticationFails, Places
  <2>2. since' \in [Requests -> Histories]
    BY <1>5 DEF AuthenticationFails, GateTypeOK, Histories
  <2>3. faults' \in 0..MaxFaults
    BY <1>5, Bounded DEF AuthenticationFails, GateTypeOK
  <2>4. QED
    BY <1>5, <2>1, <2>2, <2>3 DEF AuthenticationFails, GateTypeOK, tables
<1>6. QED
  BY <1>1, <1>2, <1>3, <1>4, <1>5

LEMMA QuotaKeepsType ==
  ASSUME GateConstants, GateTypeOK, SetupOK, NEW r \in Requests, Measured(r),
         \/ Authorize(r) \/ ReadSpecific(r) \/ ReadWide(r) \/ LimitUnknown(r) \/ Charge(r)
  PROVE  GateTypeOK'
<1> USE DEF SetupOK
<1>1. CASE Authorize(r)
  <2>1. CASE Goto(r, "denied")
    BY <1>1, <2>1, GotoKeepsType DEF Authorize, GateTypeOK, Places, tables, environment
  <2>2. CASE ~Goto(r, "denied")
    <3> DEFINE units == IF set.quota THEN UnitsOf(Asks(r), req[r].who) ELSE <<>>
               at == IF set.quota /\ UnitsOf(Asks(r), req[r].who) # <<>> THEN "specific"
                     ELSE "work"
               j == [req[r] EXCEPT !.units = units, !.at = at]
    <3>1. Asks(r).op # "none"
      BY <1>1 DEF Authorize, Measured, At
    <3>2. units \in Seq(UnitNames)
      BY <3>1, UnitsAreNames
    <3>3. req[r] \in Journeys /\ at \in Places
      BY DEF GateTypeOK, Places
    <3>4. j \in Journeys
      <4> HIDE DEF units, at
      <4> QED  BY <3>2, <3>3 DEF Journeys
    <3>5. req' = [req EXCEPT ![r] = j]
      BY <1>1, <2>2 DEF Authorize, GateTypeOK
    <3>6. QED
      BY <1>1, <3>4, <3>5 DEF Authorize, GateTypeOK, tables, environment
  <2>3. QED
    BY <2>1, <2>2
<1>2. CASE ReadSpecific(r)
  <2>1. CASE Goto(r, "wide")
    BY <1>2, <2>1, GotoKeepsType DEF ReadSpecific, GateTypeOK, Places, tables, environment
  <2>2. ASSUME NEW l \in limits, Limited(r, l.cap, l.len, "specific")
        PROVE  req' \in [Requests -> Journeys]
    BY <2>2, LimitedKeepsType DEF GateTypeOK, LimitRows
  <2>3. QED
    BY <1>2, <2>1, <2>2 DEF ReadSpecific, Row, GateTypeOK, tables, environment
<1>3. CASE ReadWide(r)
  <2>1. ASSUME NEW l \in limits, Limited(r, l.cap, l.len, "wide")
        PROVE  req' \in [Requests -> Journeys]
    BY <2>1, LimitedKeepsType DEF GateTypeOK, LimitRows
  <2>2. Limited(r, set.cap, set.len, "default") => req' \in [Requests -> Journeys]
    BY LimitedKeepsType DEF Settings, set
  <2>3. QED
    BY <1>3, <2>1, <2>2 DEF ReadWide, Row, GateTypeOK, tables, environment
<1>4. CASE LimitUnknown(r)
  <2>1. Limited(r, set.cap, set.len, "default") => req' \in [Requests -> Journeys]
    BY LimitedKeepsType DEF Settings, set
  <2>2. req' \in [Requests -> Journeys]
    BY <1>4, <2>1, GotoKeepsType DEF LimitUnknown, Places
  <2>3. since' \in [Requests -> Histories]
    BY <1>4 DEF LimitUnknown, GateTypeOK, Histories
  <2>4. faults' \in 0..MaxFaults
    BY <1>4, Bounded DEF LimitUnknown, GateTypeOK
  <2>5. QED
    BY <1>4, <2>2, <2>3, <2>4 DEF LimitUnknown, GateTypeOK, tables
<1>5. CASE Charge(r)
  <2> DEFINE key == KeyNow(r)
             rest == Tail(req[r].units)
  <2>1. req[r] \in Journeys /\ req[r].units # <<>> /\ req[r].who \in Callers
        /\ req[r].from # "none"
    BY <1>5 DEF Charge, Measured, Metering, GateTypeOK, Journeys, At
  <2>2. key \in QuotaKeys
    <3>1. Head(req[r].units) \in UnitNames /\ rest \in Seq(UnitNames)
      BY <2>1 DEF Journeys
    <3>2. Scope(Asks(r), req[r].who) \in Scopes
      BY ScopeIsScope
    <3>3. now \div req[r].len \in Nat
      BY <2>1, WindowIsNat, Bounded DEF GateTypeOK, Journeys
    <3>4. QED
      BY <2>1, <3>1, <3>2, <3>3 DEF KeyNow, Metered, QuotaKeys, Callers
  <2>3. DOMAIN counts' \subseteq QuotaKeys /\ counts' \in [DOMAIN counts' -> Nat]
    <3>1. counts \in [DOMAIN counts -> Nat] /\ DOMAIN counts \subseteq QuotaKeys
      BY DEF GateTypeOK
    <3>2. Count(key) + 1 \in Nat
      BY <3>1 DEF Count
    <3>3. counts' = [k \in DOMAIN counts \cup {key} |->
                       IF k = key THEN Count(k) + 1 ELSE counts[k]]
      BY <1>5 DEF Charge
    <3>4. QED
      <4> HIDE DEF key
      <4> QED  BY <2>2, <3>1, <3>2, <3>3
  <2>4. req' \in [Requests -> Journeys]
    <3>1. CASE Goto(r, "denied")
      BY <3>1, GotoKeepsType DEF Places
    <3>2. CASE ~Goto(r, "denied")
      <4> DEFINE at == IF rest = <<>> THEN "work" ELSE "specific"
                 passed == req[r].passed \cup
                             {[key |-> key, cap |-> req[r].cap, from |-> req[r].from]}
                 j == [req[r] EXCEPT !.at = at, !.units = rest, !.passed = passed]
      <4>1. at \in Places
        BY DEF Places
      <4>2. rest \in Seq(UnitNames)
        BY <2>1 DEF Journeys
      <4>3. passed \in SUBSET Charges
        BY <2>1, <2>2 DEF Journeys, Charges
      <4>4. j \in Journeys
        <5> HIDE DEF at, passed, rest
        <5> QED  BY <2>1, <4>1, <4>2, <4>3 DEF Journeys
      <4>5. req' = [req EXCEPT ![r] = j]
        BY <1>5, <3>2 DEF Charge, GateTypeOK
      <4>6. QED
        BY <4>4, <4>5 DEF GateTypeOK
    <3>3. QED
      BY <3>1, <3>2
  <2>5. QED
    BY <1>5, <2>3, <2>4 DEF Charge, GateTypeOK, environment
<1>6. QED
  BY <1>1, <1>2, <1>3, <1>4, <1>5

LEMMA FetchKeepsType ==
  ASSUME GateTypeOK, NEW r \in Requests, NEW place \in Places, NEW rows \in SUBSET limits,
         req' = [req EXCEPT ![r].at = place, ![r].row = rows]
  PROVE  req' \in [Requests -> Journeys]
<1> DEFINE j == [req[r] EXCEPT !.at = place, !.row = rows]
<1>1. req[r] \in Journeys /\ rows \subseteq LimitRows
  BY DEF GateTypeOK
<1>2. j \in Journeys
  BY <1>1 DEF Journeys
<1>3. req' = [req EXCEPT ![r] = j]
  BY DEF GateTypeOK
<1>4. QED
  BY <1>2, <1>3 DEF GateTypeOK

LEMMA HandlersKeepType ==
  ASSUME GateConstants, GateTypeOK, SetupOK, NEW r \in Requests, Upserting(r),
         \/ Serve(r) \/ CreateKey(r) \/ RevokeKey(r) \/ ReadLimit(r) \/ UpdateLimit(r)
         \/ InsertLimit(r) \/ RereadLimit(r) \/ FindLimit(r) \/ DropLimit(r) \/ Audit(r)
         \/ HandlerFails(r)
  PROVE  GateTypeOK'
<1> USE DEF SetupOK
<1>0. \A place \in Places : Goto(r, place) => req' \in [Requests -> Journeys]
  BY GotoKeepsType
<1>1. CASE Serve(r)
  BY <1>1, <1>0 DEF Serve, Places, GateTypeOK, tables, environment
<1>2. CASE CreateKey(r)
  <2>1. Asks(r).op = "create_api_key" /\ Askable(Asks(r))
    BY <1>2 DEF CreateKey, Working
  <2>2. keyRow' \in [Keys -> KeyRows]
    BY <1>2, <2>1 DEF CreateKey, Askable, KeyOps, KeyRows, GateTypeOK
  <2>3. QED
    BY <1>2, <1>0, <2>2 DEF CreateKey, Places, GateTypeOK, environment
<1>3. CASE RevokeKey(r)
  <2>1. Asks(r).op = "revoke_api_key" /\ Askable(Asks(r))
    BY <1>3 DEF RevokeKey, Working
  <2>2. keyRow' \in [Keys -> KeyRows]
    BY ZenonT(30), <1>3, <2>1 DEF RevokeKey, Askable, KeyOps, KeyRows, GateTypeOK
  <2>3. QED
    BY <1>3, <1>0, <2>2 DEF RevokeKey, Places, GateTypeOK, environment
<1>4. CASE ReadLimit(r)
  <2>1. Row(Aim(r)) \in SUBSET limits
    BY DEF Row
  <2>2. req' \in [Requests -> Journeys]
    BY <1>4, <2>1, FetchKeepsType DEF ReadLimit, Places
  <2>3. QED
    BY <1>4, <2>2 DEF ReadLimit, GateTypeOK, tables, environment
<1>5. CASE UpdateLimit(r)
  <2>1. req[r].row \subseteq LimitRows /\ Asks(r).op = "upsert_quota_limit"
    BY <1>5 DEF UpdateLimit, Upserting, Editing
  <2>2. Wanted(r).cap \in Nat /\ Wanted(r).len \in Nat \ {0}
    BY <2>1 DEF Askable, Wanted
  <2>3. ASSUME NEW there \in LimitRows, NEW read
        PROVE  Merged(there, read, Wanted(r)) \in LimitRows
    BY <2>2 DEF Merged, LimitRows
  <2>4. limits' \subseteq LimitRows
    BY <1>5, <2>3 DEF UpdateLimit, GateTypeOK
  <2>5. QED
    BY <1>5, <1>0, <2>4 DEF UpdateLimit, Places, GateTypeOK, environment
<1>6. CASE InsertLimit(r)
  <2>1. Asks(r).op = "upsert_quota_limit" /\ Askable(Asks(r))
    BY <1>6 DEF InsertLimit, Upserting, Editing, At
  <2>2. Wanted(r) \in LimitRows
    BY <2>1 DEF Wanted, Aim, Askable, LimitRows, GateConstants
  <2>3. QED
    BY <1>6, <1>0, <2>2 DEF InsertLimit, Places, GateTypeOK, environment
<1>7. CASE RereadLimit(r)
  <2>1. Row(Aim(r)) \in SUBSET limits
    BY DEF Row
  <2>2. req' \in [Requests -> Journeys]
    BY <1>0, <1>7, <2>1, FetchKeepsType DEF RereadLimit, Places
  <2>3. QED
    BY <1>7, <2>2 DEF RereadLimit, GateTypeOK, tables, environment
<1>8. CASE FindLimit(r)
  <2> DEFINE found == {l \in limits : l.id = Asks(r).id /\ l.of.ws = Asks(r).named}
  <2>1. found \in SUBSET limits
    OBVIOUS
  <2>2. req' \in [Requests -> Journeys]
    BY ZenonT(30), <1>0, <1>8, <2>1, FetchKeepsType DEF FindLimit, Places
  <2>3. QED
    BY <1>8, <2>2 DEF FindLimit, GateTypeOK, tables, environment
<1>9. CASE DropLimit(r)
  <2> DEFINE names == {l.of : l \in {l \in limits : l.id = Asks(r).id}}
  <2>1. names \subseteq Identities
    BY DEF GateTypeOK, LimitRows
  <2>2. since' = [s \in Requests |->
                    [since[s] EXCEPT !.missing = since[s].missing \cup names,
                                     !.dropped = since[s].dropped \cup names]]
    BY <1>9 DEF DropLimit
  <2>3. ASSUME NEW s \in Requests
        PROVE  [since[s] EXCEPT !.missing = since[s].missing \cup names,
                                !.dropped = since[s].dropped \cup names] \in Histories
    <3>1. since[s] \in Histories
      BY DEF GateTypeOK
    <3>2. QED
      <4> HIDE DEF names
      <4> QED  BY <2>1, <3>1 DEF Histories
  <2>4. since' \in [Requests -> Histories]
    <3> HIDE DEF names
    <3> QED  BY <2>2, <2>3
  <2>5. QED
    BY <1>0, <1>9, <2>4 DEF DropLimit, Places, GateTypeOK, environment
<1>10. CASE Audit(r)
  BY <1>10, <1>0 DEF Audit, Places, GateTypeOK, environment
<1>11. CASE HandlerFails(r)
  <2>1. since' \in [Requests -> Histories]
    BY <1>11 DEF HandlerFails, GateTypeOK, Histories
  <2>2. faults' \in 0..MaxFaults
    BY <1>11, Bounded DEF HandlerFails, GateTypeOK
  <2>3. QED
    BY <1>11, <1>0, <2>1, <2>2 DEF HandlerFails, Places, GateTypeOK, tables
<1>12. QED
  BY <1>1, <1>2, <1>3, <1>4, <1>5, <1>6, <1>7, <1>8, <1>9, <1>10, <1>11

-----------------------------------------------------------------------------
(* What a step of one request leaves of itself, of the others and of the   *)
(* tables.                                                                 *)

LEMMA GotoMoves ==
  ASSUME GateTypeOK, NEW r \in Requests, NEW place, Goto(r, place)
  PROVE  /\ req'[r].at = place /\ req'[r].who = req[r].who /\ req'[r].row = req[r].row
         /\ req'[r].units = req[r].units /\ req'[r].from = req[r].from
         /\ req'[r].passed = req[r].passed
BY DEF GateTypeOK, Journeys, Goto

LEMMA LimitedMoves ==
  ASSUME GateTypeOK, NEW r \in Requests, NEW cap, NEW len, NEW from, Limited(r, cap, len, from)
  PROVE  /\ req'[r].at = "charge" /\ req'[r].who = req[r].who /\ req'[r].from = from
         /\ req'[r].units = req[r].units /\ req'[r].passed = req[r].passed
BY DEF GateTypeOK, Journeys, Limited

LEMMA AuthorizeMoves ==
  ASSUME GateTypeOK, NEW r \in Requests, Authorize(r), ~Goto(r, "denied")
  PROVE  /\ MayEnter(Asks(r), req[r].who, set.admin)
         /\ req'[r].who = req[r].who /\ req'[r].row = req[r].row
         /\ req'[r].passed = req[r].passed
         /\ req'[r].at \in {"specific", "work"}
         /\ req'[r].at = "specific" => /\ req'[r].units = UnitsOf(Asks(r), req[r].who)
                                       /\ req'[r].units # <<>>
<1> DEFINE units == IF set.quota THEN UnitsOf(Asks(r), req[r].who) ELSE <<>>
           at == IF set.quota /\ UnitsOf(Asks(r), req[r].who) # <<>> THEN "specific"
                 ELSE "work"
           j == [req[r] EXCEPT !.units = units, !.at = at]
<1>1. req[r] \in Journeys
  BY DEF GateTypeOK
<1>2. j.who = req[r].who /\ j.row = req[r].row /\ j.passed = req[r].passed
      /\ j.at = at /\ j.units = units
  <2> HIDE DEF units, at
  <2> QED  BY <1>1 DEF Journeys
<1>3. req'[r] = j /\ MayEnter(Asks(r), req[r].who, set.admin)
  BY DEF Authorize, GateTypeOK
<1>4. at \in {"specific", "work"}
      /\ (at = "specific" => units = UnitsOf(Asks(r), req[r].who) /\ units # <<>>)
  OBVIOUS
<1>5. QED
  <2> HIDE DEF j, units, at
  <2> QED  BY <1>2, <1>3, <1>4

LEMMA ChargeMoves ==
  ASSUME GateTypeOK, NEW r \in Requests, Charge(r), ~Goto(r, "denied")
  PROVE  /\ req'[r].who = req[r].who /\ req'[r].row = req[r].row
         /\ req'[r].passed = req[r].passed \cup
              {[key |-> KeyNow(r), cap |-> req[r].cap, from |-> req[r].from]}
         /\ Count(KeyNow(r)) + 1 <= req[r].cap
         /\ req'[r].at \in {"specific", "work"}
         /\ req'[r].at = "specific" => req'[r].units # <<>>
<1> DEFINE rest == Tail(req[r].units)
           at == IF rest = <<>> THEN "work" ELSE "specific"
           passed == req[r].passed \cup
                       {[key |-> KeyNow(r), cap |-> req[r].cap, from |-> req[r].from]}
           j == [req[r] EXCEPT !.at = at, !.units = rest, !.passed = passed]
<1>1. req[r] \in Journeys
  BY DEF GateTypeOK
<1>2. j.who = req[r].who /\ j.row = req[r].row /\ j.passed = passed
      /\ j.at = at /\ j.units = rest
  <2> HIDE DEF rest, at, passed
  <2> QED  BY <1>1 DEF Journeys
<1>3. req'[r] = j /\ Count(KeyNow(r)) + 1 <= req[r].cap
  BY DEF Charge, GateTypeOK
<1>4. at \in {"specific", "work"} /\ (at = "specific" => rest # <<>>)
  OBVIOUS
<1>5. QED
  <2> HIDE DEF j, rest, at
  <2> QED  BY <1>2, <1>3, <1>4

LEMMA FetchMoves ==
  ASSUME GateTypeOK, NEW r \in Requests, NEW place, NEW rows,
         req' = [req EXCEPT ![r].at = place, ![r].row = rows]
  PROVE  /\ req'[r].at = place /\ req'[r].row = rows /\ req'[r].who = req[r].who
         /\ req'[r].units = req[r].units /\ req'[r].passed = req[r].passed
BY DEF GateTypeOK, Journeys

LEMMA OthersStay ==
  ASSUME GateTypeOK, NEW r \in Requests, Step(r), NEW s \in Requests \ {r}
  PROVE  /\ req'[s] = req[s]
         /\ since'[s].stored = since[s].stored /\ since'[s].dead = since[s].dead
         /\ since'[s].fault = since[s].fault
         /\ since[s].missing \subseteq since'[s].missing
         /\ since[s].dropped \subseteq since'[s].dropped
<1>1. req'[s] = req[s]
  BY DEF GateTypeOK, Step, Arrive, ListKeys, LookUpKey, MarkUsed, AuthenticationFails,
         Authorize, ReadSpecific, ReadWide, LimitUnknown, Charge, Serve, CreateKey,
         RevokeKey, ReadLimit, UpdateLimit, InsertLimit, RereadLimit, FindLimit, DropLimit,
         Audit, HandlerFails, Goto, Enter, Limited
<1>2. CASE DropLimit(r)
  BY <1>1, <1>2 DEF DropLimit, GateTypeOK, Histories
<1>3. CASE ~DropLimit(r)
  <2>1. since'[s] = since[s]
    BY <1>3 DEF GateTypeOK, Step, Arrive, ListKeys, LookUpKey, MarkUsed, AuthenticationFails,
         Authorize, ReadSpecific, ReadWide, LimitUnknown, Charge, Serve, CreateKey,
         RevokeKey, ReadLimit, UpdateLimit, InsertLimit, RereadLimit, FindLimit,
         Audit, HandlerFails
  <2>2. QED
    BY <1>1, <2>1
<1>4. QED
  BY <1>2, <1>3

LEMMA SetupStays ==
  ASSUME NEW r \in Requests, Step(r)
  PROVE  setup' = setup
BY DEF Step, Arrive, ListKeys, LookUpKey, MarkUsed, AuthenticationFails,
       Authorize, ReadSpecific, ReadWide, LimitUnknown, Charge, Serve, CreateKey,
       RevokeKey, ReadLimit, UpdateLimit, InsertLimit, RereadLimit, FindLimit, DropLimit,
       Audit, HandlerFails, environment

(* A key that was stored stays so, and a revoked one stays revoked.        *)
LEMMA KeysStay ==
  ASSUME GateTypeOK, NEW r \in Requests, Step(r)
  PROVE  Stored \subseteq Stored' /\ Dead \subseteq Dead'
<1>1. CASE MarkUsed(r)
  BY <1>1 DEF MarkUsed, GateTypeOK, KeyRows, Stored, Dead
<1>2. CASE CreateKey(r)
  BY <1>2 DEF CreateKey, GateTypeOK, KeyRows, Stored, Dead
<1>3. CASE RevokeKey(r)
  BY <1>3 DEF RevokeKey, GateTypeOK, KeyRows, Stored, Dead
<1>4. CASE ~(MarkUsed(r) \/ CreateKey(r) \/ RevokeKey(r))
  <2>1. keyRow' = keyRow
    BY <1>4 DEF Step, Arrive, ListKeys, LookUpKey, AuthenticationFails,
       Authorize, ReadSpecific, ReadWide, LimitUnknown, Charge, Serve,
       ReadLimit, UpdateLimit, InsertLimit, RereadLimit, FindLimit, DropLimit,
       Audit, HandlerFails, tables
  <2>2. QED
    BY <2>1 DEF Stored, Dead
<1>5. QED
  BY <1>1, <1>2, <1>3, <1>4

(* A limit goes only if somebody drops it.                                 *)
LEMMA LimitsStay ==
  ASSUME GateTypeOK, NEW r \in Requests, Step(r), NEW l \in limits,
         NEW s \in Requests, ~At(s, "idle")
  PROVE  \/ \E m \in limits' : m.id = l.id /\ m.of = l.of
         \/ l.of \in since'[s].missing /\ l.of \in since'[s].dropped
<1>1. CASE DropLimit(r)
  BY <1>1 DEF DropLimit, GateTypeOK, Histories
<1>2. CASE UpdateLimit(r)
  <2>1. CASE limits' = limits
    BY <2>1
  <2>2. CASE limits' # limits
    <3>1. PICK read \in req[r].row, there \in limits :
            limits' = (limits \ {there}) \cup {Merged(there, read, Wanted(r))}
      BY <1>2, <2>2 DEF UpdateLimit
    <3>2. Merged(there, read, Wanted(r)).id = there.id
          /\ Merged(there, read, Wanted(r)).of = there.of
      BY DEF Merged, GateTypeOK, LimitRows
    <3>3. QED
      BY <3>1, <3>2
  <2>3. QED
    BY <2>1, <2>2
<1>3. CASE InsertLimit(r)
  BY <1>3 DEF InsertLimit
<1>4. CASE ~(DropLimit(r) \/ UpdateLimit(r) \/ InsertLimit(r))
  <2>1. limits' = limits
    BY <1>4 DEF Step, Arrive, ListKeys, LookUpKey, MarkUsed, AuthenticationFails,
       Authorize, ReadSpecific, ReadWide, LimitUnknown, Charge, Serve, CreateKey,
       RevokeKey, ReadLimit, RereadLimit, FindLimit, Audit, HandlerFails, tables
  <2>2. QED
    BY <2>1
<1>5. QED
  BY <1>1, <1>2, <1>3, <1>4

-----------------------------------------------------------------------------
(* Credentials.                                                            *)

LEMMA OthersStayAdmitted ==
  ASSUME GateTypeOK, NEW r \in Requests, Step(r), NEW s \in Requests \ {r}, Admitted(s)
  PROVE  Admitted(s)'
BY OthersStay, KeysStay, SetupStays DEF Admitted, At, Asks, set

LEMMA ArrivalAdmits ==
  ASSUME GateTypeOK, NEW r \in Requests, Arrive(r), Admitted(r)
  PROVE  Admitted(r)'
<1>1. setup' = setup /\ Stored' = Stored /\ Dead' = Dead
  BY DEF Arrive, tables, environment, Stored, Dead
<1>2. since'[r].stored = (Stored # {}) /\ since'[r].dead = Dead /\ since'[r].fault = FALSE
  BY DEF Arrive, GateTypeOK, Unharmed
<1>3. req'[r].who \in {Anonymous, Bearer} /\ req'[r].at \in {"denied", "authorize", "keys"}
  <2>1. req[r].who = Anonymous
    BY DEF Arrive, Admitted
  <2>2. \A place \in {"denied", "keys"} : Goto(r, place) =>
          req'[r].who = Anonymous /\ req'[r].at = place
    BY <2>1 DEF Goto, GateTypeOK, Journeys
  <2>3. \A p \in {Anonymous, Bearer} : Enter(r, p) =>
          req'[r].who = p /\ req'[r].at = "authorize"
    BY DEF Enter, GateTypeOK, Journeys
  <2>4. QED
    BY <2>2, <2>3 DEF Arrive
<1>4. req'[r].who.key = {} /\ req'[r].who.kind # "legacy_api_key"
  BY <1>3 DEF Anonymous, Bearer, Principal
<1>5. QED
  BY <1>1, <1>2, <1>3, <1>4 DEF Admitted, At, Asks, set

(* Authentication: the key that is found is live, so it is none of those   *)
(* that were dead before; the legacy key is let in as long as no key was   *)
(* ever stored, or where a failure is no obstacle.                         *)
LEMMA AuthenticationAdmits ==
  ASSUME GateTypeOK, NEW r \in Requests, Admitted(r),
         \/ ListKeys(r) \/ LookUpKey(r) \/ MarkUsed(r) \/ AuthenticationFails(r)
  PROVE  Admitted(r)'
<1> USE DEF At, Asks, set
<1>1. setup' = setup /\ Stored \subseteq Stored' /\ Dead \subseteq Dead'
  BY KeysStay, SetupStays DEF Step
<1>2. since'[r].stored = since[r].stored /\ since'[r].dead = since[r].dead
  BY DEF ListKeys, LookUpKey, MarkUsed, AuthenticationFails, GateTypeOK, Histories
<1>3. CASE ListKeys(r)
  <2>1. since' = since
    BY <1>3 DEF ListKeys
  <2>2. CASE Enter(r, Legacy)
    <3>1. req'[r].who = Legacy /\ req'[r].at = "authorize"
      BY <2>2 DEF Enter, GateTypeOK, Journeys
    <3>2. since[r].stored => set.allowLegacy
      BY <1>3, <2>2, <3>1 DEF ListKeys, LegacyAllowed, Admitted, Legacy, Principal, Goto,
             GateTypeOK, Journeys
    <3>3. QED
      BY <1>1, <1>3, <2>1, <3>1, <3>2 DEF Admitted, Legacy, Principal, ListKeys
  <2>3. CASE Goto(r, "lookup")
    <3>1. req'[r].who = req[r].who /\ req'[r].at = "lookup"
      BY <2>3 DEF Goto, GateTypeOK, Journeys
    <3>2. QED
      BY <1>1, <1>3, <2>1, <3>1 DEF Admitted, ListKeys
  <2>4. QED
    BY <1>3, <2>2, <2>3 DEF ListKeys
<1>4. CASE LookUpKey(r)
  <2>1. since' = since
    BY <1>4 DEF LookUpKey
  <2>2. CASE Goto(r, "denied")
    <3>1. req'[r].who = req[r].who /\ req'[r].at = "denied"
      BY <2>2 DEF Goto, GateTypeOK, Journeys
    <3>2. QED
      BY <1>1, <1>4, <2>1, <3>1 DEF Admitted, LookUpKey
  <2>3. CASE ~Goto(r, "denied")
    <3>1. Asks(r).cred \in Keys /\ keyRow[Asks(r).cred].state = "live"
      BY <1>4, <2>3 DEF LookUpKey
    <3>2. Asks(r).cred \notin since[r].dead
      BY <3>1 DEF Admitted, Dead
    <3>3. req'[r].who = req[r].who /\ req'[r].at = "mark"
          /\ req'[r].row = {keyRow[Asks(r).cred]}
      BY <1>4, <2>3 DEF LookUpKey, GateTypeOK, Journeys
    <3>4. keyRow[Asks(r).cred] \in KeyRows
      BY <3>1 DEF GateTypeOK
    <3>5. QED
      BY <1>1, <1>4, <2>1, <3>1, <3>2, <3>3, <3>4 DEF Admitted, LookUpKey
  <2>4. QED
    BY <2>2, <2>3
<1>5. CASE MarkUsed(r)
  <2>1. since' = since
    BY <1>5 DEF MarkUsed, environment
  <2>2. PICK kept \in req[r].row : Enter(r, HolderOf(Asks(r).cred, kept))
    BY <1>5 DEF MarkUsed
  <2>3. req'[r].who = HolderOf(Asks(r).cred, kept) /\ req'[r].at = "authorize"
    BY <2>2 DEF Enter, GateTypeOK, Journeys
  <2>4. req'[r].who.key = {Asks(r).cred} /\ req'[r].who.kind = "api_key"
    BY <2>3 DEF HolderOf, Principal
  <2>5. Asks(r).cred \notin since[r].dead
    BY <1>5 DEF MarkUsed, Admitted
  <2>6. QED
    BY <1>1, <1>5, <2>1, <2>3, <2>4, <2>5 DEF Admitted, MarkUsed
<1>6. CASE AuthenticationFails(r)
  <2>1. since'[r].fault = TRUE
    BY <1>6 DEF AuthenticationFails, GateTypeOK, Histories
  <2>2. CASE Goto(r, "denied")
    <3>1. req'[r].who = req[r].who /\ req'[r].at = "denied"
      BY <2>2 DEF Goto, GateTypeOK, Journeys
    <3>2. QED
      BY <1>1, <1>2, <1>6, <2>1, <3>1 DEF Admitted, AuthenticationFails
  <2>3. CASE ~Goto(r, "denied")
    <3>1. Enter(r, Legacy) /\ ~set.governance
      BY <1>6, <2>3 DEF AuthenticationFails
    <3>2. req'[r].who = Legacy /\ req'[r].at = "authorize"
      BY <3>1 DEF Enter, GateTypeOK, Journeys
    <3>3. QED
      BY <1>1, <1>2, <2>1, <3>1, <3>2 DEF Admitted, Legacy, Principal
  <2>4. QED
    BY <2>2, <2>3
<1>7. QED
  BY <1>3, <1>4, <1>5, <1>6

(* After that a request keeps its caller, and a failure ends it or, without *)
(* governance, does not.                                                    *)
Later(r) ==
  \/ Authorize(r) \/ ReadSpecific(r) \/ ReadWide(r) \/ LimitUnknown(r) \/ Charge(r)
  \/ Serve(r) \/ CreateKey(r) \/ RevokeKey(r) \/ ReadLimit(r) \/ UpdateLimit(r)
  \/ InsertLimit(r) \/ RereadLimit(r) \/ FindLimit(r) \/ DropLimit(r) \/ Audit(r)
  \/ HandlerFails(r)

LEMMA LaterStaysAdmitted ==
  ASSUME GateTypeOK, NEW r \in Requests, Later(r), Admitted(r)
  PROVE  Admitted(r)'
<1> USE DEF At, Asks, set
<1>1. setup' = setup /\ Stored \subseteq Stored' /\ Dead \subseteq Dead'
  BY KeysStay, SetupStays DEF Step, Later
<1>2. since'[r].stored = since[r].stored /\ since'[r].dead = since[r].dead
  <2>1. CASE DropLimit(r)
    BY <2>1 DEF DropLimit, GateTypeOK, Histories
  <2>2. CASE LimitUnknown(r) \/ HandlerFails(r)
    BY <2>2 DEF LimitUnknown, HandlerFails, GateTypeOK, Histories
  <2>3. QED
    BY <2>1, <2>2 DEF Later, Authorize, ReadSpecific, ReadWide, Charge, Serve, CreateKey,
       RevokeKey, ReadLimit, UpdateLimit, InsertLimit, RereadLimit, FindLimit, Audit
<1>3. /\ req'[r].who = req[r].who
      /\ req'[r].at \notin {"idle", "mark"}
      /\ req[r].at \notin {"idle", "mark", "denied", "failed"}
  <2>0. \A place \in Places \ {"idle", "mark"} : Goto(r, place) =>
          req'[r].who = req[r].who /\ req'[r].at \notin {"idle", "mark"}
    BY GotoMoves
  <2>1. CASE Authorize(r) \/ Charge(r)
    <3>1. CASE Goto(r, "denied")
      BY <2>0, <2>1, <3>1 DEF Authorize, Charge, Places
    <3>2. CASE ~Goto(r, "denied")
      BY <2>1, <3>2, AuthorizeMoves, ChargeMoves DEF Authorize, Charge
    <3>3. QED
      BY <3>1, <3>2
  <2>2. CASE ReadSpecific(r) \/ ReadWide(r) \/ LimitUnknown(r)
    <3>1. \A cap, len, from : Limited(r, cap, len, from) =>
            req'[r].who = req[r].who /\ req'[r].at \notin {"idle", "mark"}
      BY LimitedMoves
    <3>2. QED
      BY <2>0, <2>2, <3>1 DEF ReadSpecific, ReadWide, LimitUnknown, Places
  <2>3. CASE ReadLimit(r) \/ RereadLimit(r) \/ FindLimit(r)
    BY <2>3 DEF ReadLimit, RereadLimit, FindLimit, Working, GateTypeOK, Journeys, Goto
  <2>4. CASE Serve(r) \/ CreateKey(r) \/ RevokeKey(r)
    BY <2>0, <2>4 DEF Serve, CreateKey, RevokeKey, Working, Places
  <2>5. CASE UpdateLimit(r) \/ InsertLimit(r) \/ DropLimit(r) \/ Audit(r) \/ HandlerFails(r)
    BY <2>0, <2>5 DEF UpdateLimit, InsertLimit, DropLimit, Audit, HandlerFails, Places
  <2>6. QED
    BY <2>1, <2>2, <2>3, <2>4, <2>5 DEF Later
<1>4. CASE since'[r].fault = since[r].fault
  BY <1>1, <1>2, <1>3, <1>4 DEF Admitted
<1>5. CASE since'[r].fault # since[r].fault
  <2>1. LimitUnknown(r) \/ HandlerFails(r)
    BY <1>5 DEF Later, Authorize, ReadSpecific, ReadWide, Charge, Serve, CreateKey,
         RevokeKey, ReadLimit, UpdateLimit, InsertLimit, RereadLimit, FindLimit, DropLimit,
         Audit, GateTypeOK, Histories
  <2>2. set.governance => req'[r].at \in {"denied", "failed"}
    BY <2>1 DEF LimitUnknown, HandlerFails, Goto, GateTypeOK, Journeys
  <2>3. since'[r].fault = TRUE /\ since[r].fault = FALSE
    BY <1>5, <2>1 DEF LimitUnknown, HandlerFails, GateTypeOK, Histories
  <2>4. QED
    BY <1>1, <1>2, <1>3, <2>2, <2>3 DEF Admitted
<1>6. QED
  BY <1>4, <1>5

LEMMA StepStaysAdmitted ==
  ASSUME GateTypeOK, NEW r \in Requests, Step(r), NEW s \in Requests, Admitted(s)
  PROVE  Admitted(s)'
BY OthersStayAdmitted, ArrivalAdmits, AuthenticationAdmits, LaterStaysAdmitted
   DEF Step, Later

-----------------------------------------------------------------------------
(* Limits.                                                                 *)

(* Once a request has arrived, its history only grows.                     *)
LEMMA HistoryGrows ==
  ASSUME GateTypeOK, NEW r \in Requests, Step(r), NEW s \in Requests, ~At(s, "idle")
  PROVE  /\ since[s].missing \subseteq since'[s].missing
         /\ since[s].dropped \subseteq since'[s].dropped
         /\ since[s].fault => since'[s].fault
<1>1. CASE s # r
  BY <1>1, OthersStay
<1>2. CASE s = r /\ DropLimit(r)
  BY <1>2 DEF DropLimit, GateTypeOK, Histories
<1>3. CASE s = r /\ (AuthenticationFails(r) \/ LimitUnknown(r) \/ HandlerFails(r))
  BY <1>3 DEF AuthenticationFails, LimitUnknown, HandlerFails, GateTypeOK, Histories
<1>4. CASE s = r /\ ~DropLimit(r)
           /\ ~(AuthenticationFails(r) \/ LimitUnknown(r) \/ HandlerFails(r))
  <2>1. since' = since
    BY <1>4 DEF Step, Arrive, ListKeys, LookUpKey, MarkUsed, Authorize, ReadSpecific,
       ReadWide, Charge, Serve, CreateKey, RevokeKey, ReadLimit, UpdateLimit, InsertLimit,
       RereadLimit, FindLimit, Audit, At, environment
  <2>2. QED
    BY <2>1
<1>5. QED
  BY <1>1, <1>2, <1>3, <1>4

Gaps(s) == \A i \in Identities : Row(i) = {} => i \in since[s].missing

LEMMA GapsStay ==
  ASSUME GateTypeOK, NEW r \in Requests, Step(r), NEW s \in Requests, ~At(s, "idle"), Gaps(s)
  PROVE  Gaps(s)'
<1> SUFFICES ASSUME NEW i \in Identities, Row(i)' = {}
             PROVE  i \in since'[s].missing
  BY DEF Gaps, Identities
<1>1. CASE Row(i) = {}
  BY <1>1, HistoryGrows DEF Gaps
<1>2. CASE Row(i) # {}
  <2>1. PICK l \in limits : l.of = i
    BY <1>2 DEF Row
  <2>2. ~\E m \in limits' : m.id = l.id /\ m.of = l.of
    BY <2>1 DEF Row
  <2>3. QED
    BY <2>1, <2>2, LimitsStay
<1>3. QED
  BY <1>1, <1>2

LEMMA OthersStayMeasured ==
  ASSUME GateTypeOK, NEW r \in Requests, Step(r), NEW s \in Requests \ {r}, Measured(s)
  PROVE  Measured(s)'
<1>1. req'[s] = req[s] /\ setup' = setup /\ since[s].missing \subseteq since'[s].missing
      /\ since'[s].fault = since[s].fault
  BY OthersStay, SetupStays
<1>2. ~At(s, "idle") => Gaps(s)'
  BY GapsStay DEF Gaps, Measured
<1>3. QED
  BY <1>1, <1>2 DEF Measured, Gaps, At, Asks, set, OwnGap, WideGap, Identity, Administered

(* A key admits to the workspace it is for and to no other.                *)
LEMMA KeyScope ==
  ASSUME GateConstants, NEW q, NEW p, NEW enabled, MayEnter(q, p, enabled),
         p.kind = "api_key", p.over \subseteq Workspaces
  PROVE  Scope(q, p) \in Workspaces
<1>1. "*" \notin p.over
  BY DEF GateConstants
<1>2. \A permission : HasPermission(p, Scope(q, p), permission) => Scope(q, p) \in Workspaces
  BY <1>1 DEF HasPermission, Covers
<1>3. QED
  BY <1>1, <1>2 DEF MayEnter, AdminOwner

(* Until it is let in, nothing is charged to a request.                    *)
LEMMA OutsideStaysMeasured ==
  ASSUME GateConstants, GateTypeOK, NEW r \in Requests, Measured(r), Admitted(r),
         \/ Arrive(r) \/ ListKeys(r) \/ LookUpKey(r) \/ MarkUsed(r) \/ AuthenticationFails(r)
  PROVE  Measured(r)' /\ req'[r].passed = {}
<1>1. setup' = setup /\ Step(r)
  BY SetupStays DEF Step
<1>2. /\ req'[r].passed = req[r].passed
      /\ req'[r].at \in {"denied", "authorize", "keys", "lookup", "mark"}
      /\ \/ req'[r].who \in {req[r].who, Legacy, Bearer, Anonymous}
         \/ \E k \in Keys, kept \in KeyRows : req'[r].who = HolderOf(k, kept)
  <2>1. \A place \in {"denied", "keys", "lookup"} : Goto(r, place) => <1>2
    BY GotoMoves
  <2>2. \A p : Enter(r, p) => /\ req'[r].passed = req[r].passed /\ req'[r].who = p
                              /\ req'[r].at = "authorize"
    BY DEF Enter, GateTypeOK, Journeys
  <2>3. CASE Arrive(r)
    BY <2>1, <2>2, <2>3 DEF Arrive
  <2>4. CASE ListKeys(r)
    BY <2>1, <2>2, <2>4 DEF ListKeys
  <2>5. CASE LookUpKey(r)
    BY <2>1, <2>5, FetchMoves DEF LookUpKey
  <2>6. CASE MarkUsed(r)
    BY <2>2, <2>6 DEF MarkUsed, Admitted
  <2>7. CASE AuthenticationFails(r)
    BY <2>1, <2>2, <2>7 DEF AuthenticationFails
  <2>8. QED
    BY <2>3, <2>4, <2>5, <2>6, <2>7
<1>3. req[r].at \in {"idle", "keys", "lookup", "mark"} /\ Asks(r).op # "none"
  BY DEF Arrive, ListKeys, LookUpKey, MarkUsed, AuthenticationFails, At, Measured
<1>4. req'[r].passed = {}
  BY <1>2, <1>3 DEF Measured, Outside
<1>5. req'[r].who.kind = "api_key" => /\ req'[r].who.whose \in Names
                                      /\ \E w \in Workspaces : req'[r].who.over = {w}
  <2>1. \A k \in Keys, kept \in KeyRows :
          /\ HolderOf(k, kept).whose \in Names
          /\ \E w \in Workspaces : HolderOf(k, kept).over = {w}
    BY DEF HolderOf, Principal, KeyRows
  <2>2. \A p \in {Legacy, Bearer, Anonymous} : p.kind # "api_key"
    BY DEF Legacy, Bearer, Anonymous, Principal
  <2>3. QED
    BY <1>2, <2>1, <2>2 DEF Measured
<1>6. Gaps(r)'
  <2>1. CASE Arrive(r)
    <3>1. since'[r].missing = {i \in Identities : Row(i) = {}} /\ limits' = limits
      BY <2>1 DEF Arrive, GateTypeOK, Unharmed, tables
    <3>2. QED
      BY <3>1 DEF Gaps, Row
  <2>2. CASE ~Arrive(r)
    <3>1. ~At(r, "idle") /\ Gaps(r)
      BY <2>2 DEF ListKeys, LookUpKey, MarkUsed, AuthenticationFails, At, Measured, Gaps
    <3>2. QED
      BY <1>1, <3>1, GapsStay
  <2>3. QED
    BY <2>1, <2>2
<1>7. req'[r].at \notin Metering
  BY <1>2 DEF Metering
<1>8. QED
  BY <1>1, <1>2, <1>3, <1>4, <1>5, <1>6, <1>7
     DEF Measured, Gaps, At, Asks, Metering, Outside

(* Inside, it keeps its caller, and is charged by what it was measured by. *)
LEMMA InsideStaysMeasured ==
  ASSUME GateConstants, GateTypeOK, SetupOK, NEW r \in Requests, Measured(r), Later(r)
  PROVE  /\ Measured(r)' /\ req'[r].who = req[r].who
         /\ req[r].at \notin Outside \ {"authorize"}
         /\ \/ req'[r].passed = req[r].passed
            \/ /\ Charge(r)
               /\ req'[r].passed = req[r].passed \cup
                    {[key |-> KeyNow(r), cap |-> req[r].cap, from |-> req[r].from]}
<1> USE DEF Asks, set
<1> DEFINE Kept == setup' = setup /\ Gaps(r)' /\ Asks(r).op # "none"
                   /\ req[r].at \notin Outside \ {"authorize"}
                   /\ req[r].at \notin {"denied", "failed"}
                   /\ (req[r].at = "authorize" => Authorize(r))
                   /\ since[r].missing \subseteq since'[r].missing
                   /\ (since[r].fault => since'[r].fault)
<1>0. Kept
  <2>1. Step(r)
    BY DEF Step, Later
  <2>2. /\ req[r].at \notin Outside \ {"authorize"}
        /\ req[r].at \notin {"denied", "failed"}
        /\ req[r].at = "authorize" => Authorize(r)
    BY DEF Later, Outside, At, Working, Authorize, ReadSpecific, ReadWide, LimitUnknown,
       Charge, Serve, CreateKey, RevokeKey, ReadLimit, UpdateLimit, InsertLimit, RereadLimit,
       FindLimit, DropLimit, Audit, HandlerFails
  <2>3. ~At(r, "idle") /\ Gaps(r) /\ Asks(r).op # "none"
    BY <2>2 DEF Outside, At, Measured, Gaps
  <2>4. QED
    BY <2>1, <2>2, <2>3, GapsStay, HistoryGrows, SetupStays
<1> HIDE DEF Kept
<1>1. ASSUME req'[r].who = req[r].who, req'[r].passed = req[r].passed,
             req'[r].at \notin Outside \cup Metering,
             ~Authorize(r) \/ req'[r].at = "denied"
      PROVE  Measured(r)'
  BY <1>0, <1>1 DEF Kept, Measured, Gaps, At, Outside, Metering
<1>2. \A place \in {"denied", "work", "failed", "answered", "audit", "reread"} :
        Goto(r, place) /\ (Authorize(r) => place = "denied")
          => Measured(r)' /\ req'[r].who = req[r].who /\ req'[r].passed = req[r].passed
  BY <1>1, GotoMoves DEF Outside, Metering
<1>3. CASE Authorize(r)
  <2>1. CASE ~Goto(r, "denied")
    <3>1. /\ req'[r].who = req[r].who /\ req'[r].passed = req[r].passed
          /\ req'[r].at \in {"specific", "work"}
          /\ req'[r].at = "specific" => req'[r].units # <<>>
          /\ MayEnter(Asks(r), req[r].who, set.admin)
      BY <1>3, <2>1, AuthorizeMoves
    <3>2. req[r].who.kind = "api_key" => Scope(Asks(r), req[r].who) \in Workspaces
      BY <3>1, KeyScope DEF Measured
    <3>3. Measured(r)'
      BY <1>0, <3>1, <3>2 DEF Kept, Measured, Gaps, At, Outside, Metering
    <3>4. QED
      BY <1>0, <3>1, <3>3 DEF Kept
  <2>2. QED
    BY <1>0, <1>2, <2>1 DEF Kept
<1>4. CASE ReadSpecific(r)
  <2>1. ASSUME NEW l \in limits, Limited(r, l.cap, l.len, "specific")
        PROVE  Measured(r)' /\ req'[r].who = req[r].who /\ req'[r].passed = req[r].passed
    <3>1. /\ req'[r].at = "charge" /\ req'[r].who = req[r].who /\ req'[r].from = "specific"
          /\ req'[r].units = req[r].units /\ req'[r].passed = req[r].passed
      BY <2>1, LimitedMoves
    <3>2. QED
      BY <1>0, <1>4, <3>1 DEF Kept, ReadSpecific, Measured, Gaps, At, Outside, Metering
  <2>2. ASSUME Row(Metered(r, req[r].who.whose)) = {}, Goto(r, "wide")
        PROVE  Measured(r)' /\ req'[r].who = req[r].who /\ req'[r].passed = req[r].passed
    <3>1. /\ req'[r].at = "wide" /\ req'[r].who = req[r].who
          /\ req'[r].units = req[r].units /\ req'[r].passed = req[r].passed
      BY <2>2, GotoMoves
    <3>2. Administered(r) => OwnGap(r)
      BY <1>4, <2>2 DEF ReadSpecific, Administered, OwnGap, Identity, Metered, Measured,
         Identities, At, Metering
    <3>3. Administered(r)' => OwnGap(r)'
      BY <1>0, <3>1, <3>2 DEF Administered, OwnGap, Identity, Kept
    <3>4. QED
      BY <1>0, <1>4, <3>1, <3>3
         DEF Kept, ReadSpecific, Measured, Gaps, At, Outside, Metering
  <2>3. QED
    BY <1>0, <1>4, <2>1, <2>2 DEF ReadSpecific, Row, Kept
<1>5. CASE ReadWide(r)
  <2>0. Administered(r) => OwnGap(r)
    BY <1>5 DEF ReadWide, Measured
  <2>1. ASSUME NEW cap, NEW len, NEW from \in {"wide", "default"}, Limited(r, cap, len, from),
               from = "default" => Row(Metered(r, "")) = {}
        PROVE  Measured(r)' /\ req'[r].who = req[r].who /\ req'[r].passed = req[r].passed
    <3>1. /\ req'[r].at = "charge" /\ req'[r].who = req[r].who /\ req'[r].from = from
          /\ req'[r].units = req[r].units /\ req'[r].passed = req[r].passed
      BY <2>1, LimitedMoves
    <3>2. Administered(r) /\ from = "default" => WideGap(r)
      BY <1>5, <2>1 DEF ReadWide, Administered, WideGap, Identity, Metered, Measured,
         Identities, At, Metering
    <3>3. Administered(r)' => OwnGap(r)' /\ (from = "default" => WideGap(r)')
      BY <1>0, <2>0, <3>1, <3>2 DEF Administered, OwnGap, WideGap, Identity, Kept
    <3>4. QED
      BY <1>0, <1>5, <3>1, <3>3
         DEF Kept, ReadWide, Measured, Gaps, At, Outside, Metering
  <2>2. QED
    BY <1>0, <1>5, <2>1 DEF ReadWide, Kept
<1>6. CASE LimitUnknown(r)
  <2>1. since'[r].fault = TRUE
    BY <1>6 DEF LimitUnknown, GateTypeOK, Histories
  <2>2. CASE Limited(r, set.cap, set.len, "default")
    <3>1. /\ req'[r].at = "charge" /\ req'[r].who = req[r].who /\ req'[r].from = "default"
          /\ req'[r].units = req[r].units /\ req'[r].passed = req[r].passed
      BY <2>2, LimitedMoves
    <3>2. Measured(r)'
      BY <1>0, <1>6, <2>1, <3>1
         DEF Kept, LimitUnknown, Measured, Gaps, At, Outside, Metering
    <3>3. QED
      BY <1>0, <3>1, <3>2 DEF Kept
  <2>3. QED
    BY <1>0, <1>2, <1>6, <2>2 DEF LimitUnknown, Kept
<1>7. CASE Charge(r)
  <2>1. CASE ~Goto(r, "denied")
    <3>1. /\ req'[r].who = req[r].who /\ req'[r].at \in {"specific", "work"}
          /\ req'[r].at = "specific" => req'[r].units # <<>>
          /\ req'[r].passed = req[r].passed \cup
               {[key |-> KeyNow(r), cap |-> req[r].cap, from |-> req[r].from]}
      BY <1>7, <2>1, ChargeMoves
    <3>2. Measured(r)'
      BY <1>0, <1>7, <3>1 DEF Kept, Charge, Measured, Gaps, At, Outside, Metering
    <3>3. QED
      BY <1>0, <1>7, <3>1, <3>2 DEF Kept
  <2>2. QED
    BY <1>0, <1>2, <2>1 DEF Kept
<1>8. CASE ReadLimit(r) \/ RereadLimit(r) \/ FindLimit(r)
  <2>1. ~Authorize(r)
    BY <1>8 DEF Authorize, ReadLimit, RereadLimit, FindLimit, Working, At
  <2>2. ASSUME NEW place \in {"write", "rewrite", "drop"}, NEW rows,
               req' = [req EXCEPT ![r].at = place, ![r].row = rows]
        PROVE  Measured(r)' /\ req'[r].who = req[r].who /\ req'[r].passed = req[r].passed
    <3>1. req'[r].at = place /\ req'[r].who = req[r].who /\ req'[r].passed = req[r].passed
      BY <2>2, FetchMoves
    <3>2. QED
      BY <2>1, <3>1, <1>1 DEF Outside, Metering
  <2>3. QED
    BY <1>0, <1>2, <1>8, <2>1, <2>2 DEF ReadLimit, RereadLimit, FindLimit, Kept
<1>9. CASE Serve(r) \/ CreateKey(r) \/ RevokeKey(r) \/ UpdateLimit(r) \/ InsertLimit(r)
           \/ DropLimit(r) \/ Audit(r) \/ HandlerFails(r)
  <2>1. ~Authorize(r)
    BY <1>9 DEF Authorize, Serve, CreateKey, RevokeKey, UpdateLimit, InsertLimit, DropLimit,
       Audit, HandlerFails, Working, At
  <2>2. QED
    BY <1>0, <1>2, <1>9, <2>1 DEF Serve, CreateKey, RevokeKey, UpdateLimit, InsertLimit, DropLimit,
     Audit, HandlerFails, Kept
<1>10. QED
  BY <1>3, <1>4, <1>5, <1>6, <1>7, <1>8, <1>9 DEF Later

LEMMA StepStaysMeasured ==
  ASSUME GateConstants, GateTypeOK, SetupOK, NEW r \in Requests, Step(r),
         NEW s \in Requests, Measured(s), Admitted(s)
  PROVE  Measured(s)'
BY OthersStayMeasured, OutsideStaysMeasured, InsideStaysMeasured DEF Step, Later

LEMMA StepKeepsOverrides ==
  ASSUME GateConstants, GateTypeOK, SetupOK, NEW r \in Requests, Step(r), OverrideHolds,
         \A s \in Requests : Measured(s) /\ Admitted(s)
  PROVE  OverrideHolds'
<1> DEFINE Fair(s, who, c) ==
             LET Gap(whose) ==
                   [ws |-> c.key.ws, whose |-> whose, unit |-> c.key.unit] \in since'[s].missing
             IN  c.key.unit \in Units /\ who.kind = "api_key" =>
                   /\ c.from = "wide" => Gap(c.key.whose)
                   /\ c.from = "default" => since'[s].fault \/ (Gap(c.key.whose) /\ Gap(""))
<1>1. ASSUME NEW s \in Requests, NEW c \in req[s].passed
      PROVE  Fair(s, req[s].who, c)
  <2>1. ~At(s, "idle")
    BY <1>1 DEF Measured, Outside, At
  <2>2. QED
    BY <1>1, <2>1, HistoryGrows DEF OverrideHolds
<1>2. ASSUME NEW s \in Requests, NEW c \in req'[s].passed
      PROVE  Fair(s, req'[s].who, c)
  <2>1. CASE s # r
    BY <1>1, <1>2, <2>1, OthersStay
  <2>2. CASE s = r /\ ~Later(r)
    <3>1. req'[r].passed = {}
      BY <2>2, OutsideStaysMeasured DEF Step, Later
    <3>2. QED
      BY <1>2, <2>2, <3>1
  <2>3. CASE s = r /\ Later(r)
    <3>1. req'[r].who = req[r].who
      BY <2>3, InsideStaysMeasured
    <3>2. CASE c \in req[r].passed
      BY <1>1, <2>3, <3>1, <3>2
    <3>3. CASE c \notin req[r].passed
      <4>1. Charge(r) /\ c = [key |-> KeyNow(r), cap |-> req[r].cap, from |-> req[r].from]
        BY <1>2, <2>3, <3>3, InsideStaysMeasured
      <4>2. c.from = req[r].from /\ c.key.unit = Head(req[r].units)
            /\ c.key.whose = req[r].who.whose /\ c.key.ws = Scope(Asks(r), req[r].who)
        BY <4>1 DEF KeyNow, Metered
      <4>3. At(r, "charge") /\ since' = since
        BY <4>1 DEF Charge
      <4>4. QED
        BY <2>3, <3>1, <4>2, <4>3 DEF Measured, Administered, OwnGap, WideGap, Identity
    <3>4. QED
      BY <3>2, <3>3
  <2>4. QED
    BY <2>1, <2>2, <2>3
<1>3. QED
  BY <1>2 DEF OverrideHolds

(* Nothing but a charge within its limit lets a request pass.              *)
LEMMA Passing ==
  ASSUME GateConstants, GateTypeOK, SetupOK, NEW r \in Requests, Step(r),
         Measured(r), Admitted(r)
  PROVE  \/ \A s \in Requests : req'[s].passed = req[s].passed
         \/ /\ \A s \in Requests \ {r} : req'[s].passed = req[s].passed
            /\ Charge(r)
            /\ req'[r].passed = req[r].passed \cup
                 {[key |-> KeyNow(r), cap |-> req[r].cap, from |-> req[r].from]}
            /\ Count(KeyNow(r)) + 1 <= req[r].cap
<1>1. \A s \in Requests \ {r} : req'[s].passed = req[s].passed
  BY OthersStay
<1>2. CASE ~Later(r)
  <2>1. req'[r].passed = {}
    BY <1>2, OutsideStaysMeasured DEF Step, Later
  <2>2. req[r].at \in Outside
    BY <1>2 DEF Step, Later, Outside, Arrive, ListKeys, LookUpKey, MarkUsed,
       AuthenticationFails, At
  <2>3. QED
    BY <1>1, <2>1, <2>2 DEF Measured
<1>3. CASE Later(r) /\ req'[r].passed # req[r].passed
  <2>1. Charge(r) /\ req'[r].passed = req[r].passed \cup
          {[key |-> KeyNow(r), cap |-> req[r].cap, from |-> req[r].from]}
    BY <1>3, InsideStaysMeasured
  <2>2. ~Goto(r, "denied")
    BY <1>3, GotoMoves
  <2>3. QED
    BY <1>1, <2>1, <2>2, ChargeMoves
<1>4. QED
  BY <1>1, <1>2, <1>3

LEMMA CountsGrow ==
  ASSUME GateTypeOK, NEW r \in Requests, Step(r), NEW key
  PROVE  /\ Count(key) \in Nat /\ Count(key)' \in Nat /\ Count(key) <= Count(key)'
         /\ Charge(r) /\ key = KeyNow(r) => Count(key)' = Count(key) + 1
<1>1. \A k : Count(k) \in Nat
  BY DEF Count, GateTypeOK
<1>2. CASE Charge(r)
  <2> DEFINE new == KeyNow(r)
  <2>1. counts' = [k \in DOMAIN counts \cup {new} |->
                     IF k = new THEN Count(k) + 1 ELSE counts[k]]
    BY <1>2 DEF Charge
  <2>2. Count(key)' = IF key = new THEN Count(key) + 1 ELSE Count(key)
    <3> HIDE DEF new
    <3>1. Count(key)' = IF key \in DOMAIN counts' THEN counts'[key] ELSE 0
      BY DEF Count
    <3>2. QED
      BY <2>1, <3>1 DEF Count
  <2>3. QED
    BY <1>1, <2>2
<1>3. CASE ~Charge(r)
  <2>1. counts' = counts
    BY <1>3 DEF Step, Arrive, ListKeys, LookUpKey, MarkUsed, AuthenticationFails,
       Authorize, ReadSpecific, ReadWide, LimitUnknown, Serve, CreateKey,
       RevokeKey, ReadLimit, UpdateLimit, InsertLimit, RereadLimit, FindLimit, DropLimit,
       Audit, HandlerFails, tables
  <2>2. QED
    BY <1>1, <1>3, <2>1 DEF Count
<1>4. QED
  BY <1>2, <1>3

Measure(key) ==
  \E r \in In(key) : \E c \in req[r].passed : c.key = key /\ Cardinality(In(key)) <= c.cap

LEMMA QuotaIsMeasure ==
  QuotaHolds <=> \A key : In(key) # {} => Measure(key)
<1> DEFINE Charged == {c.key : c \in UNION {req[r].passed : r \in Requests}}
<1>1. \A key : In(key) # {} <=> key \in Charged
  BY DEF In
<1>2. QED
  BY <1>1 DEF QuotaHolds, Measure, In

LEMMA StepKeepsQuota ==
  ASSUME GateConstants, GateTypeOK, SetupOK, NEW r \in Requests, Step(r), Counted, QuotaHolds,
         Measured(r), Admitted(r)
  PROVE  Counted' /\ QuotaHolds'
<1>1. \A key : In(key) # {} => Measure(key)
  BY QuotaIsMeasure
<1>2. ASSUME NEW key, In(key)' # {}
      PROVE  Cardinality(In(key)') <= Count(key)' /\ Measure(key)'
  <2>1. Count(key) \in Nat /\ Count(key)' \in Nat /\ Count(key) <= Count(key)'
    BY CountsGrow
  <2>2. IsFiniteSet(In(key)) /\ Cardinality(In(key)) \in Nat
    <3>1. In(key) \subseteq Requests /\ IsFiniteSet(Requests)
      BY DEF In, GateConstants
    <3>2. QED
      BY <3>1, FS_Subset, FS_CardinalityType
  <2>3. CASE /\ \A s \in Requests \ {r} : req'[s].passed = req[s].passed
             /\ \/ req'[r].passed = req[r].passed
                \/ /\ key # KeyNow(r)
                   /\ req'[r].passed = req[r].passed \cup
                        {[key |-> KeyNow(r), cap |-> req[r].cap, from |-> req[r].from]}
    <3>1. \A s \in Requests : \A c : c.key = key => (c \in req'[s].passed <=> c \in req[s].passed)
      BY <2>3
    <3>2. In(key)' = In(key)
      BY <3>1 DEF In
    <3>3. Cardinality(In(key)) <= Count(key) /\ Measure(key)
      BY <1>1, <1>2, <3>2 DEF Counted
    <3>4. Measure(key)'
      BY <3>1, <3>2, <3>3 DEF Measure, In
    <3>5. QED
      BY <2>1, <2>2, <3>2, <3>3, <3>4
  <2>4. CASE /\ key = KeyNow(r)
             /\ \A s \in Requests \ {r} : req'[s].passed = req[s].passed
             /\ Charge(r)
             /\ req'[r].passed = req[r].passed \cup
                  {[key |-> key, cap |-> req[r].cap, from |-> req[r].from]}
             /\ Count(key) + 1 <= req[r].cap
    <3> DEFINE charge == [key |-> key, cap |-> req[r].cap, from |-> req[r].from]
    <3>1. In(key)' = In(key) \cup {r}
      <4>1. r \in In(key)'
        <5>1. charge \in req'[r].passed /\ charge.key = key
          BY <2>4
        <5>2. QED
          BY <5>1 DEF In
      <4>2. \A s \in Requests \ {r} : s \in In(key)' <=> s \in In(key)
        BY <2>4 DEF In
      <4>3. In(key) \subseteq Requests /\ In(key)' \subseteq Requests
        BY DEF In
      <4>4. QED
        BY <4>1, <4>2, <4>3
    <3>2. Cardinality(In(key)) <= Count(key)
      <4>1. CASE In(key) = {}
        BY <4>1, <2>1, FS_EmptySet
      <4>2. CASE In(key) # {}
        BY <4>2 DEF Counted
      <4>3. QED
        BY <4>1, <4>2
    <3>3. Cardinality(In(key)') <= Cardinality(In(key)) + 1
      BY <2>2, <3>1, FS_AddElement
    <3>4. Cardinality(In(key)') \in Nat
      <4>1. IsFiniteSet(In(key)')
        BY <2>2, <3>1, FS_AddElement
      <4>2. QED
        BY <4>1, FS_CardinalityType
    <3>5. Cardinality(In(key)') <= Count(key) + 1 /\ Count(key)' = Count(key) + 1
      BY <2>1, <2>2, <2>4, <3>2, <3>3, <3>4, CountsGrow
    <3>6. charge \in req'[r].passed /\ charge.key = key /\ charge.cap = req[r].cap
      BY <2>4
    <3>7. req[r].cap \in Nat
      BY DEF GateTypeOK, Journeys
    <3>8. Cardinality(In(key)') <= charge.cap
      BY <2>1, <2>4, <3>4, <3>5, <3>6, <3>7
    <3>9. r \in In(key)'
      BY <3>1
    <3>10. Measure(key)'
      BY <3>6, <3>8, <3>9 DEF Measure
    <3>11. QED
      BY <3>5, <3>10
  <2>5. QED
    BY <2>3, <2>4, Passing
<1>3. Counted'
  BY <1>2 DEF Counted
<1>4. QuotaHolds'
  <2>1. (QuotaHolds <=> \A key : In(key) # {} => Measure(key))'
    BY QuotaIsMeasure, PTL
  <2>2. QED
    BY <1>2, <2>1
<1>5. QED
  BY <1>3, <1>4

-----------------------------------------------------------------------------
(* Overrides.                                                              *)

LEMMA OthersStayUpserting ==
  ASSUME GateTypeOK, NEW r \in Requests, Step(r), NEW s \in Requests \ {r}, Upserting(s)
  PROVE  Upserting(s)'
<1>1. req'[s] = req[s] /\ setup' = setup /\ since[s].dropped \subseteq since'[s].dropped
  BY OthersStay, SetupStays
<1>2. Aim(s)' = Aim(s)
  BY <1>1 DEF Aim, Asks
<1>3. ASSUME NEW l, l.of = Aim(s), ~At(s, "idle"), There(l) \/ Aim(s) \in since[s].dropped
      PROVE  There(l)' \/ Aim(s) \in since'[s].dropped
  <2>1. CASE There(l)
    <3>1. PICK m \in limits : m.id = l.id /\ m.of = l.of
      BY <2>1 DEF There
    <3>2. QED
      BY <1>3, <3>1, LimitsStay DEF There
  <2>2. QED
    BY <1>1, <1>3, <2>1
<1>4. ASSUME At(s, "reread")
      PROVE  Row(Aim(s))' # {} \/ Aim(s) \in since'[s].dropped
  <2>1. CASE Row(Aim(s)) # {}
    <3>1. PICK l \in limits : l.of = Aim(s)
      BY <2>1 DEF Row
    <3>2. There(l)' \/ Aim(s) \in since'[s].dropped
      BY <1>3, <1>4, <3>1 DEF At, There
    <3>3. QED
      BY <1>2, <3>1, <3>2 DEF There, Row
  <2>2. QED
    BY <1>1, <1>4, <2>1 DEF Upserting
<1>5. QED
  BY <1>1, <1>2, <1>3, <1>4 DEF Upserting, Editing, At, Asks

(* Where a request goes that neither reads nor writes an override.         *)
LEMMA ElsewhereKept ==
  ASSUME GateTypeOK, NEW r \in Requests, Step(r),
         ~(ReadLimit(r) \/ InsertLimit(r) \/ RereadLimit(r) \/ FindLimit(r))
  PROVE  /\ req'[r].at \notin Editing \cup {"drop"}
         /\ req'[r].at = "failed" => UpdateLimit(r) \/ HandlerFails(r)
<1> DEFINE There0 == {"denied", "authorize", "keys", "lookup", "mark", "specific", "wide",
                      "charge", "work", "answered", "audit"}
<1>0. \A place \in There0 : place \notin Editing \cup {"drop", "failed"}
  BY DEF Editing
<1>1. \A place : Goto(r, place) => req'[r].at = place
  BY GotoMoves
<1>2. \A p : Enter(r, p) => req'[r].at = "authorize"
  BY DEF Enter, GateTypeOK, Journeys
<1>3. \A cap, len, from : Limited(r, cap, len, from) => req'[r].at = "charge"
  BY LimitedMoves
<1>4. CASE Arrive(r) \/ ListKeys(r) \/ LookUpKey(r) \/ MarkUsed(r) \/ AuthenticationFails(r)
  <2>1. LookUpKey(r) => req'[r].at \in {"mark", "denied"}
    BY <1>1, FetchMoves DEF LookUpKey
  <2>2. req'[r].at \in There0
    BY <1>1, <1>2, <1>4, <2>1 DEF Arrive, ListKeys, MarkUsed, AuthenticationFails
  <2>3. QED
    BY <1>0, <2>2
<1>5. CASE Authorize(r) \/ Charge(r)
  <2>1. req'[r].at \in There0
    BY <1>1, <1>5, AuthorizeMoves, ChargeMoves
  <2>2. QED
    BY <1>0, <2>1
<1>6. CASE ReadSpecific(r) \/ ReadWide(r) \/ LimitUnknown(r)
  <2>1. req'[r].at \in There0
    BY <1>1, <1>3, <1>6 DEF ReadSpecific, ReadWide, LimitUnknown
  <2>2. QED
    BY <1>0, <2>1
<1>7. CASE Serve(r) \/ CreateKey(r) \/ RevokeKey(r) \/ DropLimit(r) \/ Audit(r)
  <2>1. req'[r].at \in There0
    BY <1>1, <1>7 DEF Serve, CreateKey, RevokeKey, DropLimit, Audit
  <2>2. QED
    BY <1>0, <2>1
<1>8. CASE UpdateLimit(r) \/ HandlerFails(r)
  <2>1. req'[r].at \in {"audit", "failed"}
    BY <1>1, <1>8 DEF UpdateLimit, HandlerFails
  <2>2. QED
    BY <1>8, <2>1 DEF Editing
<1>9. QED
  BY <1>4, <1>5, <1>6, <1>7, <1>8 DEF Step

LEMMA StepKeepsUpserting ==
  ASSUME GateTypeOK, NEW r \in Requests, Step(r), Upserting(r)
  PROVE  Upserting(r)'
<1>1. setup' = setup /\ Aim(r)' = Aim(r)
  BY SetupStays DEF Aim, Asks
<1>2. ASSUME NEW place, req' = [req EXCEPT ![r].at = place, ![r].row = Row(Aim(r))],
             limits' = limits, place \in {"write", "rewrite"},
             Asks(r).op = "upsert_quota_limit"
      PROVE  Upserting(r)'
  <2>1. req'[r].at = place /\ req'[r].row = Row(Aim(r))
    BY <1>2 DEF GateTypeOK, Journeys
  <2>2. \A l \in req'[r].row : l \in limits' /\ l \in LimitRows /\ l.of = Aim(r) /\ There(l)'
    BY <1>2, <2>1 DEF Row, There, GateTypeOK
  <2>3. QED
    BY <1>1, <1>2, <2>1, <2>2 DEF Upserting, At, Asks, Editing
<1>3. CASE ReadLimit(r)
  BY <1>2, <1>3 DEF ReadLimit, Working, tables
<1>4. CASE InsertLimit(r)
  <2>1. CASE Goto(r, "reread")
    <3>1. Row(Aim(r)) # {} /\ limits' = limits
      <4>1. ~Goto(r, "audit")
        BY <2>1, GotoMoves
      <4>2. QED
        BY <1>4, <4>1 DEF InsertLimit
    <3>2. req'[r].at = "reread" /\ Asks(r).op = "upsert_quota_limit"
      BY <1>4, <2>1, GotoMoves DEF InsertLimit, Upserting, Editing, At
    <3>3. QED
      BY <1>1, <3>1, <3>2 DEF Upserting, At, Asks, Row, Editing
  <2>2. CASE Goto(r, "audit")
    <3>1. req'[r].at = "audit"
      BY <2>2, GotoMoves
    <3>2. QED
      BY <3>1 DEF Upserting, At, Editing
  <2>3. QED
    BY <1>4, <2>1, <2>2 DEF InsertLimit
<1>5. CASE RereadLimit(r)
  <2>1. CASE Goto(r, "failed")
    <3>1. req'[r].at = "failed"
      BY <2>1, GotoMoves
    <3>2. QED
      BY <3>1 DEF Upserting, At, Editing
  <2>2. CASE ~Goto(r, "failed")
    BY <1>2, <1>5, <2>2 DEF RereadLimit, Upserting, Editing, At, tables
  <2>3. QED
    BY <2>1, <2>2
<1>6. CASE FindLimit(r)
  <2>1. Asks(r).op = "delete_quota_limit"
    BY <1>6 DEF FindLimit, Working
  <2>2. req'[r].at \in {"denied", "drop"}
    <3>1. Goto(r, "denied") => req'[r].at = "denied"
      BY GotoMoves
    <3>2. \A rows : req' = [req EXCEPT ![r].at = "drop", ![r].row = rows] =>
            req'[r].at = "drop"
      BY DEF GateTypeOK, Journeys
    <3>3. QED
      BY <1>6, <3>1, <3>2 DEF FindLimit
  <2>3. QED
    BY <1>1, <2>1, <2>2 DEF Upserting, At, Asks, Editing
<1>7. CASE ~(ReadLimit(r) \/ InsertLimit(r) \/ RereadLimit(r) \/ FindLimit(r))
  <2>1. req'[r].at \notin Editing \cup {"drop"}
    BY <1>7, ElsewhereKept
  <2>2. QED
    BY <2>1 DEF Upserting, At, Editing
<1>8. QED
  BY <1>3, <1>4, <1>5, <1>6, <1>7

LEMMA StepKeepsUpserts ==
  ASSUME GateTypeOK, NEW r \in Requests, Step(r), Upserting(r), UpsertsSettle,
         \A s \in Requests : Admitted(s)
  PROVE  UpsertsSettle'
<1>1. \A l, m \in limits' : l.of = m.of => l = m
  <2>0. \A l, m \in limits : l.of = m.of => l = m
    BY DEF UpsertsSettle
  <2>1. CASE UpdateLimit(r) /\ limits' # limits
    <3>1. PICK read \in req[r].row, there \in limits :
            limits' = (limits \ {there}) \cup {Merged(there, read, Wanted(r))}
      BY <2>1 DEF UpdateLimit
    <3>2. Merged(there, read, Wanted(r)).of = there.of
      BY <3>1 DEF Merged, GateTypeOK, LimitRows
    <3>3. QED
      BY <2>0, <3>1, <3>2
  <2>2. CASE InsertLimit(r) /\ limits' # limits
    <3>1. Row(Aim(r)) = {} /\ limits' = limits \cup {Wanted(r)}
      BY <2>2 DEF InsertLimit
    <3>2. Wanted(r).of = Aim(r)
      BY DEF Wanted
    <3>3. QED
      BY <2>0, <3>1, <3>2 DEF Row
  <2>3. CASE DropLimit(r)
    BY <2>0, <2>3 DEF DropLimit
  <2>4. CASE limits' = limits
    BY <2>0, <2>4
  <2>5. limits' = limits \/ DropLimit(r) \/ UpdateLimit(r) \/ InsertLimit(r)
    BY DEF Step, Arrive, ListKeys, LookUpKey, MarkUsed, AuthenticationFails,
       Authorize, ReadSpecific, ReadWide, LimitUnknown, Charge, Serve, CreateKey,
       RevokeKey, ReadLimit, RereadLimit, FindLimit, Audit, HandlerFails, tables
  <2>6. QED
    BY <2>1, <2>2, <2>3, <2>4, <2>5
<1>2. ASSUME NEW s \in Requests, At(s, "failed")', (Asks(s).op = "upsert_quota_limit")'
      PROVE  since'[s].fault \/ Aim(s)' \in since'[s].dropped
  <2>1. setup' = setup /\ Aim(s)' = Aim(s) /\ Asks(s).op = "upsert_quota_limit"
    BY <1>2, SetupStays DEF Aim, Asks
  <2>2. CASE s # r
    <3>1. At(s, "failed")
      BY <1>2, <2>2, OthersStay DEF At
    <3>2. QED
      BY <2>1, <2>2, <3>1, OthersStay DEF UpsertsSettle
  <2>3. CASE s = r
    <3>0. ~At(r, "idle") => since[r].dropped \subseteq since'[r].dropped
      BY HistoryGrows
    <3>1. CASE HandlerFails(r)
      BY <2>3, <3>1 DEF HandlerFails, GateTypeOK, Histories
    <3>2. CASE UpdateLimit(r)
      <4>1. ~Goto(r, "audit")
        BY <1>2, <2>3, GotoMoves DEF At
      <4>2. PICK read \in req[r].row : \A l \in limits : l.id # read.id \/ l.of # read.of
        BY <3>2, <4>1 DEF UpdateLimit
      <4>3. Aim(r) \in since[r].dropped /\ ~At(r, "idle")
        BY <3>2, <4>2 DEF UpdateLimit, Upserting, There, At
      <4>4. QED
        BY <2>1, <2>3, <3>0, <4>3
    <3>3. CASE RereadLimit(r)
      <4>1. req'[r].at # "rewrite"
        BY <1>2, <2>3 DEF At
      <4>2. Row(Aim(r)) = {} /\ At(r, "reread")
        BY <3>3, <4>1, FetchMoves DEF RereadLimit
      <4>3. Aim(r) \in since[r].dropped /\ ~At(r, "idle")
        BY <4>2 DEF Upserting, At
      <4>4. QED
        BY <2>1, <2>3, <3>0, <4>3
    <3>4. CASE ReadLimit(r) \/ InsertLimit(r) \/ FindLimit(r)
      <4>1. req'[r].at \in {"write", "audit", "reread", "denied", "drop"}
        <5>1. CASE ReadLimit(r)
          BY <5>1, FetchMoves DEF ReadLimit
        <5>2. CASE InsertLimit(r)
          BY <5>2, GotoMoves DEF InsertLimit
        <5>3. CASE FindLimit(r)
          <6>1. \/ Goto(r, "denied")
                \/ \E rows : req' = [req EXCEPT ![r].at = "drop", ![r].row = rows]
            BY <5>3 DEF FindLimit
          <6>2. Goto(r, "denied") => req'[r].at = "denied"
            BY GotoMoves
          <6>3. ASSUME NEW rows, req' = [req EXCEPT ![r].at = "drop", ![r].row = rows]
                PROVE  req'[r].at = "drop"
            BY <6>3, FetchMoves
          <6>4. QED
            BY <6>1, <6>2, <6>3
        <5>4. QED
          BY <3>4, <5>1, <5>2, <5>3
      <4>2. QED
        BY <1>2, <2>3, <4>1 DEF At
    <3>5. QED
      BY <1>2, <2>3, <3>1, <3>2, <3>3, <3>4, ElsewhereKept DEF At
  <2>4. QED
    BY <2>2, <2>3
<1>3. QED
  BY <1>1, <1>2 DEF UpsertsSettle

-----------------------------------------------------------------------------
(* The inductive invariant.                                                *)

LEMMA InitHolds ==
  ASSUME GateConstants, GateInit
  PROVE  IInv
<1> PICK w \in Workloads : GateInitWith(w)
  BY DEF GateInit
<1>1. /\ w.settings \in Settings /\ w.keys \in [Keys -> KeyRows] /\ w.limits \subseteq LimitRows
      /\ \A l, m \in w.limits : l.of = m.of => l = m
      /\ \A r \in Requests : Askable(w.asked[r])
  BY DEF GateConstants
<1>2. setup.settings = w.settings /\ setup.asked = w.asked
  BY DEF GateInitWith
<1>3. SetupOK
  BY <1>1, <1>2 DEF SetupOK, Asks
<1>4. \A r \in Requests : req[r] = Fresh /\ since[r] = Unharmed
  BY DEF GateInitWith
<1>5. Fresh \in Journeys
  <2>1. Anonymous \in Callers /\ "idle" \in Places
    BY CallersAreCallers DEF Places
  <2>2. <<>> \in Seq(UnitNames)
    OBVIOUS
  <2>3. QED
    BY <2>1, <2>2 DEF Fresh, Journeys
<1>6. Unharmed \in Histories
  BY DEF Unharmed, Histories
<1>7. GateTypeOK
  <2>1. req \in [Requests -> Journeys] /\ since \in [Requests -> Histories]
    BY <1>5, <1>6 DEF GateInitWith
  <2>2. counts \in [DOMAIN counts -> Nat] /\ DOMAIN counts = {}
    BY DEF GateInitWith
  <2>3. now \in 0..Horizon /\ faults \in 0..MaxFaults
    BY Bounded DEF GateInitWith
  <2>4. QED
    BY <1>1, <2>1, <2>2, <2>3 DEF GateTypeOK, GateInitWith
<1>8. ASSUME NEW r \in Requests
      PROVE  /\ req[r].at = "idle" /\ req[r].who = Anonymous /\ req[r].passed = {}
             /\ since[r].fault = FALSE /\ since[r].stored = FALSE /\ since[r].dead = {}
  BY <1>4 DEF Fresh, Unharmed
<1>9. Anonymous.kind = "anonymous"
  BY DEF Anonymous, Principal
<1>10. \A key : In(key) = {}
  BY <1>8 DEF In
<1>11. Counted /\ QuotaHolds
  BY <1>10, QuotaIsMeasure DEF Counted
<1>12. OverrideHolds
  BY <1>8 DEF OverrideHolds
<1>13. UpsertsSettle
  BY <1>1, <1>8 DEF UpsertsSettle, GateInitWith, At
<1>14. ASSUME NEW r \in Requests
       PROVE  Admitted(r) /\ Measured(r) /\ Upserting(r)
  BY <1>8, <1>9 DEF Admitted, Measured, Upserting, At, Metering, Editing, Outside
<1>15. QED
  BY <1>3, <1>7, <1>11, <1>12, <1>13, <1>14 DEF IInv

LEMMA StepHolds ==
  ASSUME GateConstants, IInv, NEW r \in Requests, Step(r)
  PROVE  IInv'
<1> USE DEF IInv
<1>1. GateTypeOK'
  BY AuthenticationKeepsType, QuotaKeepsType, HandlersKeepType DEF Step
<1>2. SetupOK'
  BY SetupStays DEF SetupOK, Asks
<1>3. \A s \in Requests : Admitted(s)'
  BY StepStaysAdmitted
<1>4. \A s \in Requests : Measured(s)'
  BY StepStaysMeasured
<1>5. \A s \in Requests : Upserting(s)'
  BY OthersStayUpserting, StepKeepsUpserting
<1>6. Counted' /\ QuotaHolds'
  BY StepKeepsQuota
<1>7. OverrideHolds'
  BY StepKeepsOverrides
<1>8. UpsertsSettle'
  BY StepKeepsUpserts
<1>9. QED
  BY <1>1, <1>2, <1>3, <1>4, <1>5, <1>6, <1>7, <1>8

LEMMA NextHolds ==
  ASSUME GateConstants, IInv, [GateNext]_gate
  PROVE  IInv'
<1>1. CASE \E r \in Requests : Step(r)
  BY <1>1, StepHolds
<1>2. CASE Tick \/ UNCHANGED gate
  <2>1. /\ setup' = setup /\ keyRow' = keyRow /\ limits' = limits /\ counts' = counts
        /\ audited' = audited /\ req' = req /\ since' = since /\ faults' = faults
        /\ now' \in 0..Horizon
    BY <1>2, Bounded DEF Tick, gate, tables, environment, IInv, GateTypeOK
  <2>2. GateTypeOK' /\ SetupOK'
    BY <2>1 DEF IInv, GateTypeOK, SetupOK, Asks
  <2>3. Counted' /\ QuotaHolds'
    <3>1. \A key : In(key)' = In(key) /\ Count(key)' = Count(key)
      BY <2>1 DEF In, Count
    <3>2. Counted'
      BY <3>1 DEF IInv, Counted
    <3>3. QuotaHolds'
      BY <2>1 DEF IInv, QuotaHolds
    <3>4. QED
      BY <3>2, <3>3
  <2>4. OverrideHolds' /\ UpsertsSettle'
    <3>1. OverrideHolds'
      BY <2>1 DEF IInv, OverrideHolds
    <3>2. UpsertsSettle'
      BY <2>1 DEF IInv, UpsertsSettle, At, Asks, Aim
    <3>3. QED
      BY <3>1, <3>2
  <2>5. ASSUME NEW r \in Requests
        PROVE  Admitted(r)' /\ Measured(r)' /\ Upserting(r)'
    <3>1. Admitted(r)'
      BY <2>1 DEF IInv, Admitted, Stored, Dead, At, Asks, set
    <3>2. Measured(r)'
      BY <2>1 DEF IInv, Measured, Row, OwnGap, WideGap, Administered, Identity, At, Asks, set
    <3>3. Upserting(r)'
      BY <2>1 DEF IInv, Upserting, There, Row, At, Asks, Aim
    <3>4. QED
      BY <3>1, <3>2, <3>3
  <2>6. QED
    BY <2>2, <2>3, <2>4, <2>5 DEF IInv
<1>3. QED
  BY <1>1, <1>2 DEF GateNext

LEMMA Invariance ==
  ASSUME GateConstants
  PROVE  GateSpec => []IInv
<1>1. GateInit => IInv
  BY InitHolds
<1>2. IInv /\ [GateNext]_gate => IInv'
  BY NextHolds
<1>3. QED
  BY <1>1, <1>2, PTL DEF GateSpec

-----------------------------------------------------------------------------
(* Whatever the handlers and the maintenance do beside it, every step of   *)
(* the server is a step of the gate or leaves it alone, so what the gate   *)
(* promises by itself it keeps in the server (api/deps.py, api/routes.py). *)
THEOREM ServerKeepsGate == Spec => GateSpec
<1>1. Init => GateInit
  BY DEF Init, GateInit
<1>2. [Next]_vars => [GateNext]_gate
  <2> SUFFICES ASSUME [Next]_vars PROVE [GateNext]_gate
    OBVIOUS
  <2>1. CASE Tick
    BY <2>1 DEF GateNext
  <2>2. ASSUME NEW r \in Requests, GateStep(r)
        PROVE  GateNext
    <3>1. Step(r) \/ HandlerFails(r)
      BY <2>2 DEF GateStep
    <3>2. Step(r)
      BY <3>1 DEF Step
    <3>3. QED
      BY <3>2 DEF GateNext
  <2>3. ASSUME NEW r \in Requests, Handle(r)
        PROVE  UNCHANGED gate
    BY <2>3 DEF Handle
  <2>4. CASE Maintain
    BY <2>4 DEF Maintain
  <2>5. CASE (Elsewhere \/ RefreshDies) /\ UNCHANGED gate
    BY <2>5
  <2>6. CASE UNCHANGED vars
    BY <2>6 DEF vars
  <2>7. QED
    BY <2>1, <2>2, <2>3, <2>4, <2>5, <2>6 DEF Next, gate
<1>3. QED
  BY <1>1, <1>2, PTL DEF Spec, GateSpec

LEMMA IInvHolds == Spec => []IInv
<1>1. GateConstants
  BY ServerConstants DEF ServerConstants
<1>2. QED
  BY <1>1, ServerKeepsGate, Invariance, PTL

-----------------------------------------------------------------------------
(* The tables, and what the requests hold of them, are always well formed  *)
(* (governance/auth.py, governance/quota.py, storage/sql_repository.py).   *)
THEOREM TypeCorrect == Spec => []GateTypeOK
<1>1. IInv => GateTypeOK
  BY DEF IInv
<1>2. QED
  BY <1>1, IInvHolds, PTL

(* However requests interleave with the making and revoking of keys and    *)
(* with failures of the database, none is answered by a key that was       *)
(* revoked before it arrived, none by the legacy key once keys are stored, *)
(* unless the settings allow it, and none after a failure under governance *)
(* (require_api_key, authenticate_api_key).                                *)
THEOREM CredentialsKept == Spec => []CredentialsHold
<1>1. IInv => CredentialsHold
  BY DEF IInv, Admitted, CredentialsHold, RevocationHolds, LegacyRetires, FailsClosed,
     Answered, At
<1>2. QED
  BY <1>1, IInvHolds, PTL

(* No more requests get past a quota than the most generous limit they     *)
(* were measured by, and nobody is measured by a wider limit than its own  *)
(* unless that was missing at some moment since it came                    *)
(* (QuotaService.check, _resolve_limit).                                   *)
THEOREM LimitsKept == Spec => []LimitsHold
<1>1. IInv => LimitsHold
  BY DEF IInv, LimitsHold
<1>2. QED
  BY <1>1, IInvHolds, PTL

(* There is never more than one override for a caller and unit, and two    *)
(* administrators who set it at once both succeed (upsert_quota_limit).    *)
THEOREM UpsertsKept == Spec => []UpsertsSettle
<1>1. IInv => UpsertsSettle
  BY DEF IInv
<1>2. QED
  BY <1>1, IInvHolds, PTL

-----------------------------------------------------------------------------
(* Permission.                                                             *)

LEMMA EnteredWhereGranted ==
  ASSUME GateConstants, NEW q, NEW p, NEW enabled, Askable(q), q.op # "none",
         MayEnter(q, p, enabled), p.kind # "anonymous",
         p.kind = "api_key" => \E w \in Workspaces : p.over = {w}
  PROVE  LET need == RouteOf(q.op).needs
             ws == IF q.home # "" THEN q.home ELSE q.named
         IN  /\ need = "admin" => p.kind = "api_key" /\ p.over = {ws} /\ "owner" \in p.roles
             /\ need # "admin" /\ ws # "" => HasPermission(p, ws, need)
             /\ ws = "" => "*" \in p.over
<1> DEFINE need == RouteOf(q.op).needs
           where == RouteOf(q.op).where
           ws == IF q.home # "" THEN q.home ELSE q.named
<1>1. where = "named" => q.home = ""
  BY DEF Askable
<1>2. Scope(q, p) # "missing" => Scope(q, p) = ws
  <2> HIDE DEF where
  <2>1. Scope(q, p) = LET byTarget == \/ where \in {"target", "open", "key"}
                                      \/ where = "either" /\ q.home # "" /\ p.kind # "anonymous"
                      IN  IF ~byTarget THEN q.named
                          ELSE IF q.home # "missing" /\ q.named \in {"", q.home} THEN q.home
                          ELSE "missing"
    BY DEF Scope, where
  <2>2. where \in {"named", "target", "open", "key", "either"}
    BY RouteShapes DEF Askable, where
  <2>3. QED
    BY <1>1, <2>1, <2>2
<1>3. Scope(q, p) = ws
  BY <1>2 DEF MayEnter
<1>4. CASE need = "admin"
  <2>1. p.kind = "api_key" /\ ws \in p.over /\ HasPermission(p, ws, "owner")
    BY <1>3, <1>4 DEF MayEnter, AdminOwner
  <2>2. p.over = {ws} /\ ws \in Workspaces
    BY <2>1
  <2>3. ws # ""
    BY <2>2 DEF GateConstants
  <2>4. "owner" \in p.roles
    <3>1. PICK role \in p.roles \cap DOMAIN RoleGrants : "owner" \in RoleGrants[role]
      BY <2>1 DEF HasPermission
    <3>2. DOMAIN RoleGrants = {"owner", "writer", "reader", "report_reader"}
      BY DEF RoleGrants
    <3>3. /\ "owner" \notin RoleGrants["writer"] /\ "owner" \notin RoleGrants["reader"]
          /\ "owner" \notin RoleGrants["report_reader"]
      BY DEF RoleGrants
    <3>4. QED
      BY <3>1, <3>2, <3>3
  <2>5. QED
    BY <1>4, <2>1, <2>2, <2>3, <2>4
<1>5. CASE need # "admin"
  <2>1. \/ ws = "" /\ "*" \in p.over
        \/ ws # "" /\ HasPermission(p, ws, need)
    BY <1>3, <1>5 DEF MayEnter
  <2>2. QED
    BY <1>5, <2>1
<1>6. QED
  BY <1>4, <1>5

(* Whoever gets an answer holds, in the workspace of the row that was       *)
(* touched or that was named, a role that grants it, and an admin route    *)
(* answers only to the key of an owner of that very workspace              *)
(* (api/routes.py, governance/permissions.py, governance/admin.py).        *)
THEOREM GrantsKept == Spec => []AnsweredWhereGranted
<1>1. ASSUME IInv, NEW r \in Requests, Answered(r), req[r].who.kind # "anonymous"
      PROVE  LET q == Asks(r)
                 p == req[r].who
                 need == RouteOf(q.op).needs
                 ws == IF q.home # "" THEN q.home ELSE q.named
             IN  /\ need = "admin" => p.kind = "api_key" /\ p.over = {ws} /\ "owner" \in p.roles
                 /\ need # "admin" /\ ws # "" => HasPermission(p, ws, need)
                 /\ ws = "" => "*" \in p.over
  <2>1. /\ MayEnter(Asks(r), req[r].who, set.admin) /\ Asks(r).op # "none"
        /\ req[r].who.kind = "api_key" => \E w \in Workspaces : req[r].who.over = {w}
    BY <1>1 DEF IInv, Measured, Answered, At, Outside
  <2>2. Askable(Asks(r))
    BY <1>1 DEF IInv, SetupOK
  <2>3. QED
    BY <1>1, <2>1, <2>2, EnteredWhereGranted, ServerConstants DEF ServerConstants
<1>2. IInv => AnsweredWhereGranted
  BY <1>1 DEF AnsweredWhereGranted
<1>3. QED
  BY <1>2, IInvHolds, PTL

-----------------------------------------------------------------------------
(* The run.  What its tables, handlers and the refresh carry, ...          *)
Snapshots == [n : Nat, row : SummaryRows]
HandlerPlaces ==
  {"idle", "done", "dead", "nodes", "flip", "nodes of run", "memories", "write", "supersede",
   "events", "facts", "provider"}
RefreshPlaces == {"idle", "check", "nodes", "build", "recheck", "list", "supersede"}
Handlers ==
  [at : HandlerPlaces, nodes : SUBSET Steps, todo : SUBSET Steps, items : SUBSET Items,
   read : SUBSET Snapshots, plan : Seq(SummaryRows), off : SUBSET Steps]
Refreshes ==
  [at : RefreshPlaces, kind : Kinds, nodes : SUBSET Steps, read : SUBSET Snapshots,
   plan : Seq(SummaryRows), off : SUBSET Steps]
HandlersOK ==
  /\ job \in [Requests -> Handlers]
  /\ \A r \in Requests :
       /\ job[r].at \in {"write", "supersede"} => job[r].plan # <<>>
       /\ job[r].at = "provider" => job[r].items \subseteq Project
RefreshOK ==
  /\ refresh \in Refreshes
  /\ refresh.at \in {"recheck", "list", "supersede"} => refresh.plan # <<>>
RunTypeOK ==
  /\ outcome \in Outcomes /\ branch \in [Items -> {"none", "completed", "rolled_back"}]
  /\ node \in [Steps -> {"completed", "rolled_back"}]
  /\ row \in Seq(SummaryRows)
  /\ HandlersOK /\ RefreshOK
  /\ gone \in [begun : SUBSET Steps, returned : SUBSET Steps]
  /\ spoilt \in [nodes : SUBSET Steps, items : SUBSET Items]
  /\ fold \in [Requests -> [made : BOOLEAN, facts : SUBSET Project, pairs : SUBSET Project]]
AskedOfRun ==
  \A r \in Requests : Asks(r).result \in Outcomes /\ Asks(r).step \in Steps

(* ... what a rollback that has returned leaves on the path, ...           *)
Back(s) == node[s] = "completed" => s \in spoilt.nodes
Late(i) == branch[i] = "completed" => i \in spoilt.items
TakenAway ==
  /\ gone.returned \subseteq gone.begun
  /\ \A s \in gone.returned : Back(s)
  /\ \A i \in Items : NodeOf[i] \in gone.returned => Late(i)

(* ... and what one under way has done so far, ...                         *)
Undoing(r) ==
  /\ job[r].at \in {"nodes", "flip"} =>
       /\ job[r].nodes \subseteq gone.begun
       /\ \A s \in job[r].nodes \ job[r].todo : Back(s)
  /\ job[r].at = "flip" =>
       /\ job[r].todo = {}
       /\ \A i \in Items : NodeOf[i] \in job[r].nodes => Late(i) \/ i \in job[r].items

(* ... what is made of the path by a handler or the refresh, ...           *)
Entries(p) == {p[n] : n \in DOMAIN p}
Untold(t) == \A i \in t.from \ Project : NodeOf[i] \in t.off => Escaped(i)
Telling(r) ==
  /\ job[r].off \subseteq gone.returned
  /\ job[r].at \in {"memories", "events", "facts"} =>
       job[r].nodes \cap job[r].off \subseteq spoilt.nodes
  /\ job[r].at = "provider" => \A i \in job[r].items : NodeOf[i] \in job[r].off => Escaped(i)
  /\ \A t \in Entries(job[r].plan) : Untold(t)
  /\ \A x \in job[r].read : Untold(x.row)
  /\ fold[r].made =>
       /\ job[r].at # "idle"
       /\ \A i \in fold[r].facts \cup fold[r].pairs : NodeOf[i] \in job[r].off => Escaped(i)
RefreshTelling ==
  /\ refresh.off \subseteq gone.returned
  /\ refresh.at = "build" => refresh.nodes \cap refresh.off \subseteq spoilt.nodes
  /\ \A t \in Entries(refresh.plan) : Untold(t)

(* ... and how far a completion or a refresh is with the summaries.        *)
Fits(x) == x.n \in DOMAIN row /\ x.row.kind = row[x.n].kind /\ x.row.tells = row[x.n].tells
Completing(r) ==
  /\ \A x \in job[r].read : Fits(x)
  /\ job[r].at \in {"write", "supersede"} =>
       \A t \in Entries(job[r].plan) : t.tells = Asks(r).result
RefreshMaking ==
  /\ \A x \in refresh.read : Fits(x)
  /\ refresh.at \in {"recheck", "list", "supersede"} =>
       Head(refresh.plan).tells = "completed" /\ Head(refresh.plan).kind = refresh.kind
FitInv == RefreshMaking /\ \A r \in Requests : Completing(r)

(* ... and, while makers have neither overlapped nor died, what one of     *)
(* them still has to do before there is one memory of each kind again.     *)
Active(kind) == {n \in DOMAIN row : row[n].kind = kind /\ row[n].status = "active"}
Single == \A k \in Kinds : \A m, n \in Active(k) : m = n
Told == \A n \in Active("episodic") : row[n].tells = outcome
Listed(read, kind) == \A n \in Active(kind) : \E x \in read : x.n = n
HandlerListed(r) ==
  job[r].at = "supersede" => Listed(job[r].read, Head(job[r].plan).kind)
RefreshListed == refresh.at = "supersede" => Listed(refresh.read, refresh.kind)
ToTell(r) ==
  /\ Making(r)
  /\ job[r].at \in {"write", "supersede"} => Head(job[r].plan).kind = "episodic"
Alone ==
  /\ \A r, s \in Requests : Making(r) /\ Making(s) => r = s
  /\ Refreshing => outcome = "completed" /\ \A r \in Requests : ~Making(r)
  /\ \A r \in Requests :
       /\ Making(r) => outcome = Asks(r).result
       /\ HandlerListed(r)
  /\ RefreshListed
  /\ Single
  /\ Told \/ \E r \in Requests : ToTell(r)
-----------------------------------------------------------------------------
(* Every set of steps that is not empty has a last one.                    *)
LEMMA LastStep ==
  ASSUME ServerConstants, NEW S \in SUBSET Steps, S # {}
  PROVE  Max(S) \in S
<1> DEFINE Topped(T) == \E x \in T : \A y \in T : x >= y
<1>1. IsFiniteSet(Steps) /\ Steps \subseteq Nat
  BY RunPathConstants DEF ServerConstants
<1>2. SUFFICES Topped(S)
  BY DEF Max
<1> DEFINE Bad == {T \in SUBSET Steps : T # {} /\ ~Topped(T)}
<1>3. SUFFICES ASSUME Bad # {} PROVE FALSE
  OBVIOUS
<1>4. IsWellFoundedOn(StrictSubsetOrdering(Steps), SUBSET Steps)
  BY Zenon, <1>1, FS_StrictSubsetOrderingWellFounded, FS_FiniteSubsetsOfFinite
<1> HIDE DEF Bad
<1>5. Bad \subseteq SUBSET Steps
  BY DEF Bad
<1>6. PICK T \in Bad : \A U \in Bad : ~(<<U, T>> \in StrictSubsetOrdering(Steps))
  BY Zenon, <1>3, <1>4, <1>5, WFMin
<1>7. T \in SUBSET Steps /\ T # {} /\ ~Topped(T)
  BY <1>6 DEF Bad
<1>8. PICK x : x \in T
  BY <1>7
<1>9. T \ {x} \notin Bad
  <2>1. T \ {x} \in SUBSET Steps /\ T \ {x} \subseteq T /\ T \ {x} # T
    BY <1>7, <1>8
  <2>2. <<T \ {x}, T>> \in StrictSubsetOrdering(Steps)
    BY <1>7, <2>1 DEF StrictSubsetOrdering
  <2>3. QED
    BY <1>6, <2>2
<1>10. CASE T \ {x} = {}
  <2>1. \A y \in T : x >= y
    BY <1>1, <1>7, <1>8, <1>10
  <2>2. QED
    BY <1>7, <1>8, <2>1
<1>11. CASE T \ {x} # {}
  <2>1. PICK m \in T \ {x} : \A y \in T \ {x} : m >= y
    BY <1>7, <1>9, <1>11 DEF Bad
  <2>2. x \in Nat /\ m \in Nat /\ m \in T /\ \A y \in T : y \in Nat
    BY <1>1, <1>7, <1>8, <2>1
  <2>3. \A y \in T : y = x \/ m >= y
    BY <2>1
  <2>4. (\A y \in T : m >= y) \/ \A y \in T : x >= y
    BY <2>2, <2>3
  <2>5. QED
    BY <1>7, <1>8, <2>2, <2>4
<1>12. QED
  BY <1>10, <1>11

(* ... and every set of numbers a first one.                               *)
LEMMA FirstNumber ==
  ASSUME NEW S \in SUBSET Nat, S # {}
  PROVE  Min(S) \in S
<1>1. IsWellFoundedOn(OpToRel(<, Nat), Nat)
  BY Zenon, NatLessThanWellFounded
<1>2. PICK x \in S : \A y \in S : ~(<<y, x>> \in OpToRel(<, Nat))
  BY Zenon, <1>1, WFMin
<1>3. \A y \in S : ~(y < x)
  BY Zenon, <1>2 DEF OpToRel
<1>4. \A y \in S : x =< y
  <2> TAKE y \in S
  <2>1. x \in Nat /\ y \in Nat /\ ~(y < x)
    BY <1>2, <1>3
  <2>2. QED
    BY <2>1
<1>5. QED
  BY <1>4 DEF Min

LEMMA SummaryTypes ==
  ASSUME ServerConstants, NEW result \in Outcomes,
         NEW nodes \in SUBSET Steps, NEW off \in SUBSET Steps
  PROVE  /\ Episodic(result, nodes, off) \in SummaryRows
         /\ Procedural(nodes, off) \in SummaryRows
         /\ Summaries(result, nodes, off) \in Seq(SummaryRows)
         /\ Summaries(result, nodes, off) # <<>>
<1>1. Leaf(nodes) \in SUBSET Steps
  BY LastStep DEF Leaf
<1>2. Episodic(result, nodes, off) \in SummaryRows
  BY <1>1 DEF Episodic, SummaryRows, Outcomes, Kinds
<1>3. Procedural(nodes, off) \in SummaryRows
  <2>1. ToolEvidence(nodes) \subseteq Items
    BY DEF ToolEvidence
  <2>2. ProjectConstraint \subseteq Items
    <3> DEFINE stored == {i \in Project : branch[i] # "none"}
    <3>1. stored \subseteq Nat /\ stored \subseteq Items
      BY RunPathConstants
    <3>2. stored # {} => Min(stored) \in stored
      BY <3>1, FirstNumber
    <3>3. QED
      BY <3>1, <3>2 DEF ProjectConstraint
  <2>3. QED
    BY <1>1, <2>1, <2>2 DEF Procedural, SummaryRows, Outcomes, Kinds
<1>4. QED
  BY <1>2, <1>3 DEF Summaries

LEMMA Parts ==
  ASSUME RunTypeOK
  PROVE  /\ \A r \in Requests : job[r] \in Handlers
         /\ \A k : ActiveRows(k) \subseteq Snapshots
         /\ \A n \in DOMAIN row : n \in Nat /\ row[n] \in SummaryRows
<1>1. \A n \in DOMAIN row : n \in Nat /\ row[n] \in SummaryRows
  BY DEF RunTypeOK
<1>2. QED
  BY <1>1 DEF RunTypeOK, HandlersOK, ActiveRows, Snapshots

LEMMA RowMarked ==
  ASSUME NEW x \in SummaryRows, NEW y \in SummaryRows
  PROVE  /\ [x EXCEPT !.status = "superseded"] \in SummaryRows
         /\ [x EXCEPT !.status = "archived"] \in SummaryRows
         /\ [x EXCEPT !.branch = "rolled_back"] \in SummaryRows
         /\ Written(y, x) \in SummaryRows
BY DEF SummaryRows, Written

LEMMA RowChanged ==
  ASSUME NEW rows \in Seq(SummaryRows), NEW n, NEW x \in SummaryRows
  PROVE  [rows EXCEPT ![n] = x] \in Seq(SummaryRows)
<1>1. CASE n \in 1..Len(rows)
  BY <1>1, ExceptSeq
<1>2. CASE n \notin 1..Len(rows)
  <2>1. rows = [m \in 1..Len(rows) |-> rows[m]]
    OBVIOUS
  <2>2. [rows EXCEPT ![n] = x] = rows
    BY <1>2, <2>1
  <2>3. QED
    BY <2>2
<1>3. QED
  BY <1>1, <1>2

LEMMA HandlerMoves ==
  ASSUME HandlersOK, NEW r \in Requests, NEW q \in Handlers,
         q.at \in {"write", "supersede"} => q.plan # <<>>,
         q.at = "provider" => q.items \subseteq Project,
         job' = [job EXCEPT ![r] = q]
  PROVE  HandlersOK'
BY DEF HandlersOK

LEMMA CompletionKeepsType ==
  ASSUME ServerConstants, RunTypeOK, NEW r \in Requests, NEW result \in Outcomes,
         CompleteRun(r, result), UNCHANGED fold
  PROVE  RunTypeOK'
<1>1. job[r] \in Handlers /\ \A k : ActiveRows(k) \subseteq Snapshots
  BY Parts
<1>2. HandlersOK
  BY DEF RunTypeOK
<1>3. CASE SetRun(r, result)
  <2> DEFINE q == [job[r] EXCEPT !.at = "nodes of run", !.off = gone.returned]
  <2>1. q \in Handlers /\ q.at = "nodes of run"
    BY <1>1 DEF Handlers, HandlerPlaces, RunTypeOK
  <2>2. job' = [job EXCEPT ![r] = q]
    BY <1>2, <1>3 DEF SetRun, HandlersOK, Handlers
  <2> HIDE DEF q
  <2>3. HandlersOK'
    BY <1>2, <2>1, <2>2, HandlerMoves
  <2>4. QED
    BY <1>3, <2>3 DEF SetRun, RunTypeOK, RefreshOK
<1>4. CASE ReadNodes(r)
  <2> DEFINE q == [job[r] EXCEPT !.at = "memories", !.nodes = OnPath]
  <2>1. q \in Handlers /\ q.at = "memories"
    BY <1>1 DEF Handlers, HandlerPlaces, OnPath
  <2>2. job' = [job EXCEPT ![r] = q]
    BY <1>2, <1>4 DEF ReadNodes, HandlersOK, Handlers
  <2> HIDE DEF q
  <2>3. HandlersOK'
    BY <1>2, <2>1, <2>2, HandlerMoves
  <2>4. QED
    BY <1>4, <2>3 DEF ReadNodes, RunTypeOK, RefreshOK
<1>5. CASE ReadMemories(r, result)
  <2> DEFINE plan == Summaries(result, job[r].nodes, job[r].off)
             q == [job[r] EXCEPT !.at = "write", !.plan = plan]
  <2>1. plan \in Seq(SummaryRows) /\ plan # <<>>
    BY <1>1, SummaryTypes DEF Handlers
  <2>2. job' = [job EXCEPT ![r] = q]
    BY <1>2, <1>5 DEF ReadMemories, HandlersOK, Handlers
  <2> HIDE DEF plan
  <2>3. q \in Handlers /\ q.at = "write" /\ q.plan # <<>>
    BY <1>1, <2>1 DEF Handlers, HandlerPlaces
  <2> HIDE DEF q
  <2>4. HandlersOK'
    BY <1>2, <2>2, <2>3, HandlerMoves
  <2>5. QED
    BY <1>5, <2>4 DEF ReadMemories, RunTypeOK, RefreshOK
<1>6. CASE ListPrior(r)
  <2> DEFINE q == [job[r] EXCEPT !.at = "supersede",
                                 !.read = ActiveRows(Head(job[r].plan).kind)]
  <2>1. q \in Handlers /\ q.at = "supersede" /\ q.plan = job[r].plan /\ job[r].plan # <<>>
    BY <1>1, <1>2, <1>6 DEF Handlers, HandlerPlaces, ListPrior, Doing, HandlersOK
  <2>2. job' = [job EXCEPT ![r] = q]
    BY <1>2, <1>6 DEF ListPrior, HandlersOK, Handlers
  <2> HIDE DEF q
  <2>3. HandlersOK'
    BY <1>2, <2>1, <2>2, HandlerMoves
  <2>4. QED
    BY <1>6, <2>3 DEF ListPrior, RunTypeOK, RefreshOK
<1>7. CASE SupersedePrior(r)
  <2>1. PICK x \in job[r].read :
          /\ row' = [row EXCEPT ![x.n] = [x.row EXCEPT !.status = "superseded"]]
          /\ job' = [job EXCEPT ![r].read = job[r].read \ {x}]
    BY <1>7 DEF SupersedePrior
  <2>2. [x.row EXCEPT !.status = "superseded"] \in SummaryRows
    BY <1>1, <2>1, RowMarked DEF Handlers, Snapshots
  <2>3. row' \in Seq(SummaryRows)
    BY <2>1, <2>2, RowChanged DEF RunTypeOK
  <2> DEFINE q == [job[r] EXCEPT !.read = job[r].read \ {x}]
  <2>4. q \in Handlers /\ q.at = "supersede" /\ q.plan = job[r].plan /\ job[r].plan # <<>>
    BY <1>1, <1>2, <1>7 DEF Handlers, SupersedePrior, Doing, HandlersOK
  <2>5. job' = [job EXCEPT ![r] = q]
    BY <1>2, <2>1 DEF HandlersOK, Handlers
  <2> HIDE DEF q
  <2>6. HandlersOK'
    BY <1>2, <2>4, <2>5, HandlerMoves
  <2>7. QED
    BY <1>7, <2>3, <2>6 DEF SupersedePrior, RunTypeOK, RefreshOK
<1>8. CASE AddSummary(r)
  <2>1. job[r].plan \in Seq(SummaryRows) /\ job[r].plan # <<>>
    BY <1>1, <1>2, <1>8 DEF AddSummary, Doing, Handlers, HandlersOK
  <2>2. Head(job[r].plan) \in SummaryRows /\ Tail(job[r].plan) \in Seq(SummaryRows)
    BY <2>1, HeadTailProperties
  <2> DEFINE rest == Tail(job[r].plan)
             q == [job[r] EXCEPT !.plan = rest, !.at = IF rest = <<>> THEN "done" ELSE "write"]
  <2>3. row' \in Seq(SummaryRows)
    BY <1>8, <2>2 DEF AddSummary, RunTypeOK
  <2>4. job' = [job EXCEPT ![r] = q]
    BY <1>2, <1>8 DEF AddSummary, HandlersOK, Handlers
  <2>5. rest \in Seq(SummaryRows)
    BY <2>2
  <2> HIDE DEF rest
  <2>6. q \in Handlers /\ q.at \in {"done", "write"} /\ (q.at = "write" => q.plan # <<>>)
    BY <1>1, <2>5 DEF Handlers, HandlerPlaces
  <2> HIDE DEF q
  <2>7. HandlersOK'
    BY <1>2, <2>4, <2>6, HandlerMoves
  <2>8. QED
    BY <1>8, <2>3, <2>7 DEF AddSummary, RunTypeOK, RefreshOK
<1>9. QED
  BY <1>3, <1>4, <1>5, <1>6, <1>7, <1>8 DEF CompleteRun

LEMMA GoneChanged ==
  ASSUME RunTypeOK, NEW S \in SUBSET Steps
  PROVE  /\ [gone EXCEPT !.begun = gone.begun \cup S]
              \in [begun : SUBSET Steps, returned : SUBSET Steps]
         /\ [gone EXCEPT !.returned = gone.returned \cup S]
              \in [begun : SUBSET Steps, returned : SUBSET Steps]
BY DEF RunTypeOK

LEMMA RollbackKeepsType ==
  ASSUME RunTypeOK, NEW r \in Requests, NEW step \in Steps,
         Rollback(r, step), UNCHANGED <<refresh, calm, fold>>
  PROVE  RunTypeOK'
<1>1. job[r] \in Handlers /\ \A n \in DOMAIN row : n \in Nat /\ row[n] \in SummaryRows
  BY Parts
<1>2. HandlersOK
  BY DEF RunTypeOK
<1>3. CASE BeginRollback(r, step)
  <2> DEFINE q == [job[r] EXCEPT !.at = "nodes", !.nodes = Subtree[step], !.todo = Subtree[step]]
  <2>1. Subtree[step] \in SUBSET Steps
    BY RunPathConstants
  <2>2. q \in Handlers /\ q.at = "nodes"
    BY <1>1, <2>1 DEF Handlers, HandlerPlaces
  <2>3. job' = [job EXCEPT ![r] = q]
    BY <1>2, <1>3 DEF BeginRollback, HandlersOK, Handlers
  <2> HIDE DEF q
  <2>4. HandlersOK'
    BY <1>2, <2>2, <2>3, HandlerMoves
  <2>5. gone' \in [begun : SUBSET Steps, returned : SUBSET Steps]
    BY <1>3, <2>1, GoneChanged DEF BeginRollback
  <2>6. QED
    BY <1>3, <2>4, <2>5 DEF BeginRollback, RunTypeOK, RefreshOK
<1>4. CASE RollNode(r)
  <2> DEFINE s == Min(job[r].todo)
             q == [job[r] EXCEPT !.todo = job[r].todo \ {s}]
  <2>1. node' = [node EXCEPT ![s] = "rolled_back"] /\ job' = [job EXCEPT ![r] = q]
    BY <1>2, <1>4 DEF RollNode, HandlersOK, Handlers
  <2> HIDE DEF s
  <2>2. q \in Handlers /\ q.at = "nodes"
    BY <1>1, <1>4 DEF Handlers, RollNode, Doing
  <2> HIDE DEF q
  <2>3. HandlersOK'
    BY <1>2, <2>1, <2>2, HandlerMoves
  <2>4. node' \in [Steps -> {"completed", "rolled_back"}]
    BY <2>1 DEF RunTypeOK
  <2>5. QED
    BY <1>4, <2>3, <2>4 DEF RollNode, RunTypeOK, RefreshOK
<1>5. CASE ListOfBranch(r)
  <2> DEFINE items == {i \in Items : branch[i] # "none" /\ NodeOf[i] \in job[r].nodes}
             read == {[n |-> n, row |-> row[n]] :
                         n \in {k \in DOMAIN row : row[k].leaf \cap job[r].nodes # {}}}
             q == [job[r] EXCEPT !.at = "flip", !.items = items, !.read = read]
  <2>1. job' = [job EXCEPT ![r] = q]
    BY <1>2, <1>5 DEF ListOfBranch, HandlersOK, Handlers
  <2>2. items \subseteq Items /\ read \subseteq Snapshots
    BY <1>1 DEF Snapshots
  <2> HIDE DEF items, read
  <2>3. q \in Handlers /\ q.at = "flip"
    BY <1>1, <2>2 DEF Handlers, HandlerPlaces
  <2> HIDE DEF q
  <2>4. HandlersOK'
    BY <1>2, <2>1, <2>3, HandlerMoves
  <2>5. QED
    BY <1>5, <2>4 DEF ListOfBranch, RunTypeOK, RefreshOK
<1>6. CASE FlipItem(r)
  <2>1. PICK i \in job[r].items : /\ branch' = [branch EXCEPT ![i] = "rolled_back"]
                                  /\ job' = [job EXCEPT ![r].items = job[r].items \ {i}]
    BY <1>6 DEF FlipItem
  <2> DEFINE q == [job[r] EXCEPT !.items = job[r].items \ {i}]
  <2>2. job' = [job EXCEPT ![r] = q]
    BY <1>2, <2>1 DEF HandlersOK, Handlers
  <2>3. q \in Handlers /\ q.at = "flip"
    BY <1>1, <1>6 DEF Handlers, FlipItem, Doing
  <2> HIDE DEF q
  <2>4. HandlersOK'
    BY <1>2, <2>2, <2>3, HandlerMoves
  <2>5. branch' \in [Items -> {"none", "completed", "rolled_back"}]
    BY <2>1 DEF RunTypeOK
  <2>6. QED
    BY <1>6, <2>4, <2>5 DEF FlipItem, RunTypeOK, RefreshOK
<1>7. CASE FlipSummary(r)
  <2>1. PICK x \in job[r].read :
          /\ row' = [row EXCEPT ![x.n] = Written(@, [x.row EXCEPT !.branch = "rolled_back"])]
          /\ job' = [job EXCEPT ![r].read = job[r].read \ {x}]
    BY <1>7 DEF FlipSummary
  <2> DEFINE q == [job[r] EXCEPT !.read = job[r].read \ {x}]
  <2>2. job' = [job EXCEPT ![r] = q]
    BY <1>2, <2>1 DEF HandlersOK, Handlers
  <2>3. q \in Handlers /\ q.at = "flip"
    BY <1>1, <1>7 DEF Handlers, FlipSummary, Doing
  <2> HIDE DEF q
  <2>4. HandlersOK'
    BY <1>2, <2>2, <2>3, HandlerMoves
  <2>5. row' \in Seq(SummaryRows)
    <3> DEFINE e == Written(row[x.n], [x.row EXCEPT !.branch = "rolled_back"])
    <3>1. x.row \in SummaryRows
      BY <1>1, <2>1 DEF Handlers, Snapshots
    <3>2. CASE x.n \in DOMAIN row
      <4>1. e \in SummaryRows
        BY <1>1, <3>1, <3>2, RowMarked
      <4>2. row' = [row EXCEPT ![x.n] = e]
        BY <2>1
      <4>3. QED
        BY <4>1, <4>2, RowChanged DEF RunTypeOK
    <3>3. CASE x.n \notin DOMAIN row
      <4>1. PICK rows \in Seq(SummaryRows) : rows = row
        BY DEF RunTypeOK
      <4>2. rows = [m \in 1..Len(rows) |-> rows[m]]
        OBVIOUS
      <4>3. row' = row
        BY <2>1, <3>3, <4>1, <4>2
      <4>4. QED
        BY <4>3 DEF RunTypeOK
    <3>4. QED
      BY <3>2, <3>3
  <2>6. QED
    BY <1>7, <2>4, <2>5 DEF FlipSummary, RunTypeOK, RefreshOK
<1>8. CASE EndRollback(r)
  <2> DEFINE q == [job[r] EXCEPT !.at = "done"]
  <2>1. job' = [job EXCEPT ![r] = q] /\ q \in Handlers /\ q.at = "done"
    BY <1>1, <1>2, <1>8 DEF EndRollback, Proceed, HandlersOK, Handlers, HandlerPlaces
  <2> HIDE DEF q
  <2>2. HandlersOK'
    BY <1>2, <2>1, HandlerMoves
  <2>3. gone' \in [begun : SUBSET Steps, returned : SUBSET Steps]
    BY <1>1, <1>8, GoneChanged DEF EndRollback, Handlers
  <2>4. QED
    BY <1>8, <2>2, <2>3 DEF EndRollback, RunTypeOK, RefreshOK
<1>9. QED
  BY <1>3, <1>4, <1>5, <1>6, <1>7, <1>8 DEF Rollback

LEMMA ProceedKeepsHandlers ==
  ASSUME HandlersOK, NEW r \in Requests, 
         NEW where \in HandlerPlaces \ {"write", "supersede", "provider"},
         Proceed(r, where)
  PROVE  HandlersOK'
<1> DEFINE q == [job[r] EXCEPT !.at = where]
<1>1. job' = [job EXCEPT ![r] = q] /\ q \in Handlers /\ q.at = where
  BY DEF Proceed, HandlersOK, Handlers
<1> HIDE DEF q
<1>2. QED
  BY <1>1, HandlerMoves

(* What is folded is what was handed over, and no other fact is stated.    *)
LEMMA Folds ==
  ASSUME NEW known, NEW reply \in Replies \cup {RuleReply(known)}, Valid(reply, known),
         NEW pairs \in IF reply.long THEN SUBSET reply.pairs ELSE {reply.pairs}
  PROVE  reply.facts \in SUBSET known /\ pairs \in SUBSET known
BY DEF Valid

LEMMA HistoryKeepsType ==
  ASSUME RunTypeOK, NEW r \in Requests, RetrieveHistory(r), UNCHANGED <<refresh, calm>>
  PROVE  RunTypeOK'
<1>1. job[r] \in Handlers /\ HandlersOK
  BY Parts DEF RunTypeOK
<1>2. CASE ReadPath(r)
  <2> DEFINE at == IF OnPath = {} THEN "done" ELSE "events"
             q == [job[r] EXCEPT !.at = at, !.nodes = OnPath, !.off = gone.returned]
  <2>1. job' = [job EXCEPT ![r] = q]
    BY <1>1, <1>2 DEF ReadPath, HandlersOK, Handlers
  <2>2. at \in HandlerPlaces \ {"write", "supersede", "provider"} /\ OnPath \in SUBSET Steps
    BY DEF OnPath, HandlerPlaces
  <2> HIDE DEF at
  <2>3. q \in Handlers /\ q.at = at
    BY <1>1, <2>2 DEF Handlers, RunTypeOK
  <2> HIDE DEF q
  <2>4. HandlersOK'
    BY <1>1, <2>1, <2>2, <2>3, HandlerMoves
  <2>5. QED
    BY <1>2, <2>4 DEF ReadPath, Quiet, RunTypeOK, RefreshOK
<1>3. CASE ReadEvents(r)
  <2>1. HandlersOK'
    BY <1>1, <1>3, ProceedKeepsHandlers DEF ReadEvents, HandlerPlaces
  <2>2. QED
    BY <1>3, <2>1 DEF ReadEvents, Quiet, RunTypeOK, RefreshOK
<1>4. CASE ReadFacts(r)
  <2> DEFINE items == Retained(job[r].nodes)
             q == [job[r] EXCEPT !.at = "provider", !.items = items]
  <2>1. job' = [job EXCEPT ![r] = q]
    BY <1>1, <1>4 DEF ReadFacts, HandlersOK, Handlers
  <2>2. items \in SUBSET Items /\ items \subseteq Project
    BY RunPathConstants DEF Retained
  <2> HIDE DEF items
  <2>3. q \in Handlers /\ q.at = "provider" /\ q.items = items
    BY <1>1, <2>2 DEF Handlers, HandlerPlaces
  <2> HIDE DEF q
  <2>4. HandlersOK'
    BY <1>1, <2>1, <2>2, <2>3, HandlerMoves
  <2>5. QED
    BY <1>4, <2>4 DEF ReadFacts, Quiet, RunTypeOK, RefreshOK
<1>5. CASE Fold(r)
  <2>1. HandlersOK'
    BY <1>1, <1>5, ProceedKeepsHandlers DEF Fold, HandlerPlaces
  <2>2. fold' = fold \/ \E facts, pairs \in SUBSET job[r].items :
           fold' = [fold EXCEPT ![r] = [made |-> TRUE, facts |-> facts, pairs |-> pairs]]
    BY <1>5, Folds DEF Fold
  <2>3. job[r].items \subseteq Project
    BY <1>1, <1>5 DEF Fold, Doing, HandlersOK
  <2>4. fold' \in [Requests -> [made : BOOLEAN, facts : SUBSET Project, pairs : SUBSET Project]]
    <3>1. ASSUME NEW facts \in SUBSET job[r].items, NEW pairs \in SUBSET job[r].items,
                 fold' = [fold EXCEPT ![r] = [made |-> TRUE, facts |-> facts, pairs |-> pairs]]
          PROVE  fold' \in [Requests -> [made : BOOLEAN, facts : SUBSET Project,
                                         pairs : SUBSET Project]]
      <4>1. facts \in SUBSET Project /\ pairs \in SUBSET Project
        BY <2>3
      <4>2. QED
        BY <3>1, <4>1 DEF RunTypeOK
    <3>2. QED
      BY <2>2, <3>1 DEF RunTypeOK
  <2>5. QED
    BY <1>5, <2>1, <2>4 DEF Fold, Quiet, RunTypeOK, RefreshOK
<1>6. CASE FoldTimesOut(r)
  <2>1. HandlersOK'
    BY <1>1, <1>6, ProceedKeepsHandlers DEF FoldTimesOut, HandlerPlaces
  <2>2. QED
    BY <1>6, <2>1 DEF FoldTimesOut, Quiet, RunTypeOK, RefreshOK
<1>7. QED
  BY <1>2, <1>3, <1>4, <1>5, <1>6 DEF RetrieveHistory

LEMMA ElsewhereKeepsType ==
  ASSUME RunTypeOK, Elsewhere, UNCHANGED <<refresh, calm, fold>>
  PROVE  RunTypeOK'
<1>1. CASE AddItem
  <2>1. PICK i \in Items :
          /\ branch' = [branch EXCEPT ![i] = "completed"]
          /\ spoilt' = [spoilt EXCEPT !.items = IF NodeOf[i] \in gone.begun
                                                THEN spoilt.items \cup {i} ELSE spoilt.items]
    BY <1>1 DEF AddItem
  <2>2. /\ branch' \in [Items -> {"none", "completed", "rolled_back"}]
        /\ spoilt' \in [nodes : SUBSET Steps, items : SUBSET Items]
    BY <2>1 DEF RunTypeOK
  <2>3. QED
    BY <1>1, <2>2 DEF AddItem, RunTypeOK, HandlersOK, RefreshOK
<1>2. CASE WriteNodeBack
  <2>1. PICK s \in Steps : /\ node' = [node EXCEPT ![s] = "completed"]
                           /\ spoilt' = [spoilt EXCEPT !.nodes = spoilt.nodes \cup {s}]
    BY <1>2 DEF WriteNodeBack
  <2>2. /\ node' \in [Steps -> {"completed", "rolled_back"}]
        /\ spoilt' \in [nodes : SUBSET Steps, items : SUBSET Items]
    BY <2>1 DEF RunTypeOK
  <2>3. QED
    BY <1>2, <2>2 DEF WriteNodeBack, RunTypeOK, HandlersOK, RefreshOK
<1>3. CASE Archive
  <2>1. PICK n \in DOMAIN row : row' = [row EXCEPT ![n].status = "archived"]
    BY <1>3 DEF Archive
  <2> DEFINE x == [row[n] EXCEPT !.status = "archived"]
  <2>2. x \in SummaryRows
    BY Parts, RowMarked
  <2>3. row' = [row EXCEPT ![n] = x]
    BY <2>1
  <2>4. row' \in Seq(SummaryRows)
    BY <2>2, <2>3, RowChanged DEF RunTypeOK
  <2>5. QED
    BY <1>3, <2>4 DEF Archive, RunTypeOK, HandlersOK, RefreshOK
<1>4. CASE WriteItemBack
  <2>1. PICK i \in Items : /\ branch' = [branch EXCEPT ![i] = "completed"]
                           /\ spoilt' = [spoilt EXCEPT !.items = spoilt.items \cup {i}]
    BY <1>4 DEF WriteItemBack
  <2>2. /\ branch' \in [Items -> {"none", "completed", "rolled_back"}]
        /\ spoilt' \in [nodes : SUBSET Steps, items : SUBSET Items]
    BY <2>1 DEF RunTypeOK
  <2>3. QED
    BY <1>4, <2>2 DEF WriteItemBack, RunTypeOK, HandlersOK, RefreshOK
<1>5. QED
  BY <1>1, <1>2, <1>3, <1>4 DEF Elsewhere

LEMMA OtherKind ==
  ASSUME NEW kind \in Kinds
  PROVE  Other(kind) \in Kinds /\ Other(kind) # kind
<1>1. \E k \in Kinds : k # kind
  BY DEF Kinds
<1>2. QED
  BY <1>1 DEF Other

LEMMA RefreshKeepsType ==
  ASSUME ServerConstants, RunTypeOK, RefreshStep, UNCHANGED fold
  PROVE  RunTypeOK'
<1>1. refresh \in Refreshes /\ \A k : ActiveRows(k) \subseteq Snapshots
  BY Parts DEF RunTypeOK, RefreshOK
<1>2. ASSUME Rest PROVE RefreshOK'
  <2>1. Other(refresh.kind) \in Kinds
    BY <1>1, OtherKind DEF Refreshes
  <2>2. QED
    BY <1>2, <2>1 DEF Rest, Resting, RefreshOK, Refreshes, RefreshPlaces
<1>3. SUFFICES RefreshOK' /\ UNCHANGED Shared /\ row' \in Seq(SummaryRows)
  BY DEF Shared, RunTypeOK, HandlersOK
<1>4. CASE ListRuns
  <2>1. [refresh EXCEPT !.at = "check", !.off = gone.returned] \in Refreshes
    BY <1>1 DEF Refreshes, RefreshPlaces, RunTypeOK
  <2>2. [refresh EXCEPT !.at = "check", !.off = gone.returned].at = "check"
    BY <1>1 DEF Refreshes
  <2>3. QED
    BY <1>4, <2>1, <2>2 DEF ListRuns, RefreshOK, RunTypeOK
<1>5. CASE CheckMemory
  <2>1. [refresh EXCEPT !.at = "nodes"] \in Refreshes
    BY <1>1 DEF Refreshes, RefreshPlaces
  <2>2. [refresh EXCEPT !.at = "nodes"].at = "nodes"
    BY <1>1 DEF Refreshes
  <2>3. QED
    BY <1>2, <1>5, <2>1, <2>2 DEF CheckMemory, RefreshOK, RunTypeOK
<1>6. CASE RefreshNodes
  <2>1. [refresh EXCEPT !.at = "build", !.nodes = OnPath] \in Refreshes
    BY <1>1 DEF Refreshes, RefreshPlaces, OnPath
  <2>2. [refresh EXCEPT !.at = "build", !.nodes = OnPath].at = "build"
    BY <1>1 DEF Refreshes
  <2>3. QED
    BY <1>6, <2>1, <2>2 DEF RefreshNodes, RefreshOK, RunTypeOK
<1>7. CASE RefreshBuild
  <2>1. Summaries("completed", refresh.nodes, refresh.off) \in Seq(SummaryRows)
    BY <1>1, SummaryTypes DEF Refreshes, Outcomes
  <2>2. ASSUME NEW s \in SummaryRows,
               refresh' = [refresh EXCEPT !.at = "recheck", !.plan = <<s>>]
        PROVE  RefreshOK'
    <3> DEFINE plan == <<s>>
    <3>1. plan \in Seq(SummaryRows) /\ plan # <<>>
      OBVIOUS
    <3>2. refresh' = [refresh EXCEPT !.at = "recheck", !.plan = plan]
      BY <2>2
    <3> HIDE DEF plan
    <3>3. refresh' \in Refreshes /\ refresh'.plan = plan
      BY <1>1, <3>1, <3>2 DEF Refreshes, RefreshPlaces
    <3>4. QED
      BY <3>1, <3>3 DEF RefreshOK
  <2>3. RefreshOK'
    <3> DEFINE built == Summaries("completed", refresh.nodes, refresh.off)
    <3>1. \A n \in DOMAIN built : built[n] \in SummaryRows
      BY <2>1
    <3> HIDE DEF built
    <3>2. Rest \/ \E s \in {built[n] : n \in DOMAIN built} :
                    refresh' = [refresh EXCEPT !.at = "recheck", !.plan = <<s>>]
      BY <1>7 DEF RefreshBuild, built
    <3>3. QED
      BY <1>2, <2>2, <3>1, <3>2
  <2>4. QED
    BY <1>7, <2>3 DEF RefreshBuild, RunTypeOK
<1>8. CASE Recheck
  <2>1. [refresh EXCEPT !.at = "list"] \in Refreshes
    BY <1>1 DEF Refreshes, RefreshPlaces
  <2>2. [refresh EXCEPT !.at = "list"].plan = refresh.plan
    BY <1>1 DEF Refreshes
  <2>3. refresh.at = "recheck" => refresh.plan # <<>>
    BY DEF RunTypeOK, RefreshOK
  <2>4. QED
    BY <1>2, <1>8, <2>1, <2>2, <2>3 DEF Recheck, RefreshOK, RunTypeOK
<1>9. CASE RefreshList
  <2>1. [refresh EXCEPT !.at = "supersede", !.read = ActiveRows(refresh.kind)] \in Refreshes
    BY <1>1 DEF Refreshes, RefreshPlaces
  <2>2. [refresh EXCEPT !.at = "supersede", !.read = ActiveRows(refresh.kind)].plan = refresh.plan
    BY <1>1 DEF Refreshes
  <2>3. refresh.at = "list" => refresh.plan # <<>>
    BY DEF RunTypeOK, RefreshOK
  <2>4. QED
    BY <1>9, <2>1, <2>2, <2>3 DEF RefreshList, RefreshOK, RunTypeOK
<1>10. CASE RefreshSupersede
  <2>1. PICK x \in refresh.read :
          /\ refresh' = [refresh EXCEPT !.read = refresh.read \ {x}]
          /\ row' = [row EXCEPT ![x.n] =
               IF row[x.n].status = "active" THEN [@ EXCEPT !.status = "superseded"] ELSE @]
    BY <1>10 DEF RefreshSupersede
  <2>2. refresh' \in Refreshes /\ refresh'.plan = refresh.plan
    BY <1>1, <2>1 DEF Refreshes
  <2>3. RefreshOK'
    BY <1>10, <2>2 DEF RefreshSupersede, RunTypeOK, RefreshOK
  <2>4. row' \in Seq(SummaryRows)
    <3>1. CASE x.n \in DOMAIN row
      <4> DEFINE e == IF row[x.n].status = "active"
                      THEN [row[x.n] EXCEPT !.status = "superseded"] ELSE row[x.n]
      <4>1. e \in SummaryRows
        BY <3>1, Parts, RowMarked
      <4>2. row' = [row EXCEPT ![x.n] = e]
        BY <2>1
      <4>3. QED
        BY <4>1, <4>2, RowChanged DEF RunTypeOK
    <3>2. CASE x.n \notin DOMAIN row
      <4>1. PICK rows \in Seq(SummaryRows) : rows = row
        BY DEF RunTypeOK
      <4>2. rows = [m \in 1..Len(rows) |-> rows[m]]
        OBVIOUS
      <4>3. row' = row
        BY <2>1, <3>2, <4>1, <4>2
      <4>4. QED
        BY <4>3 DEF RunTypeOK
    <3>3. QED
      BY <3>1, <3>2
  <2>5. QED
    BY <1>10, <2>3, <2>4 DEF RefreshSupersede
<1>11. CASE RefreshAdd
  <2>1. refresh.plan \in Seq(SummaryRows) /\ refresh.plan # <<>>
    BY <1>1, <1>11 DEF Refreshes, RefreshAdd, RunTypeOK, RefreshOK
  <2>2. Head(refresh.plan) \in SummaryRows
    BY <2>1, HeadTailProperties
  <2>3. row' \in Seq(SummaryRows)
    BY <1>11, <2>2 DEF RefreshAdd, RunTypeOK
  <2>4. QED
    BY <1>2, <1>11, <2>3 DEF RefreshAdd
<1>12. QED
  BY <1>4, <1>5, <1>6, <1>7, <1>8, <1>9, <1>10, <1>11 DEF RefreshStep

LEMMA StartIsTyped == Init => RunTypeOK /\ AskedOfRun
<1> SUFFICES ASSUME Init PROVE RunTypeOK /\ AskedOfRun
  OBVIOUS
<1>1. PICK w \in Workloads : GateInitWith(w) /\ PathInit(w.present, w.budget)
  BY DEF Init
<1>2. AskedOfRun
  BY <1>1, ServerConstants DEF ServerConstants, AskedOfRun, GateInitWith, Asks
<1>3. row \in Seq(SummaryRows) /\ HandlersOK
  BY <1>1 DEF PathInit, HandlersOK, Waiting, Handlers, HandlerPlaces
<1>4. RefreshOK
  BY DEF Init, SummaryInit, Resting, RefreshOK, Refreshes, RefreshPlaces, Kinds
<1>5. fold \in [Requests -> [made : BOOLEAN, facts : SUBSET Project, pairs : SUBSET Project]]
  BY DEF Init, FoldInit, NoFold
<1>6. QED
  BY <1>1, <1>2, <1>3, <1>4, <1>5 DEF PathInit, RunTypeOK, Outcomes

(* A step of the server does one of these things to the run, or nothing.   *)
LEMMA StepOfRun ==
  ASSUME [Next]_vars
  PROVE  /\ setup' = setup
         /\ \/ UNCHANGED run
            \/ RefreshStep /\ UNCHANGED fold
            \/ RefreshDies /\ UNCHANGED fold
            \/ Elsewhere /\ UNCHANGED <<refresh, calm, fold>>
            \/ \E r \in Requests :
                 \/ CompleteRun(r, Asks(r).result) /\ UNCHANGED fold
                 \/ Rollback(r, Asks(r).step) /\ UNCHANGED <<refresh, calm, fold>>
                 \/ RetrieveHistory(r) /\ UNCHANGED <<refresh, calm>>
                 \/ Die(r) /\ UNCHANGED fold
<1>1. CASE Tick /\ UNCHANGED run
  BY <1>1 DEF Tick, environment
<1>2. ASSUME NEW r \in Requests, GateStep(r)
      PROVE  setup' = setup /\ (UNCHANGED run \/ (Die(r) /\ UNCHANGED fold))
  <2>1. Step(r) \/ HandlerFails(r)
    BY <1>2 DEF GateStep
  <2>2. setup' = setup
    BY <2>1, SetupStays DEF Step
  <2>3. QED
    BY <1>2, <2>2 DEF GateStep
<1>3. ASSUME NEW r \in Requests, Handle(r)
      PROVE  /\ setup' = setup
             /\ \/ CompleteRun(r, Asks(r).result) /\ UNCHANGED fold
                \/ Rollback(r, Asks(r).step) /\ UNCHANGED <<refresh, calm, fold>>
                \/ RetrieveHistory(r) /\ UNCHANGED <<refresh, calm>>
  BY <1>3 DEF Handle, Asks, gate
<1>4. CASE Maintain
  BY <1>4 DEF Maintain, gate
<1>5. CASE Elsewhere /\ UNCHANGED <<refresh, calm, fold, gate>>
  BY <1>5 DEF gate
<1>6. CASE RefreshDies /\ UNCHANGED <<fold, gate>>
  BY <1>6 DEF gate
<1>7. CASE UNCHANGED vars
  BY <1>7 DEF vars, gate
<1>8. QED
  BY <1>1, <1>2, <1>3, <1>4, <1>5, <1>6, <1>7 DEF Next

LEMMA DeathKeepsType ==
  ASSUME RunTypeOK, (\E r \in Requests : Die(r)) \/ RefreshDies, UNCHANGED fold
  PROVE  RunTypeOK'
<1>1. ASSUME NEW r \in Requests, Die(r) PROVE RunTypeOK'
  <2>1. HandlersOK'
    BY <1>1, ProceedKeepsHandlers DEF Die, RunTypeOK, HandlerPlaces
  <2>2. QED
    BY <1>1, <2>1 DEF Die, RunTypeOK, RefreshOK
<1>2. CASE RefreshDies
  BY <1>2 DEF RefreshDies, RunTypeOK, HandlersOK, RefreshOK, Refreshes, Resting,
              RefreshPlaces, Kinds
<1>3. QED
  BY <1>1, <1>2

LEMMA RunKeepsType ==
  ASSUME RunTypeOK, AskedOfRun, [Next]_vars
  PROVE  RunTypeOK' /\ AskedOfRun'
<1>1. AskedOfRun'
  BY StepOfRun DEF AskedOfRun, Asks
<1>2. CASE UNCHANGED run
  <2>1. /\ outcome' = outcome /\ node' = node /\ branch' = branch /\ row' = row /\ job' = job
        /\ gone' = gone /\ spoilt' = spoilt /\ refresh' = refresh /\ fold' = fold
    BY <1>2 DEF run
  <2>2. HandlersOK' /\ RefreshOK'
    BY <2>1 DEF RunTypeOK, HandlersOK, RefreshOK
  <2>3. QED
    BY <1>1, <2>1, <2>2 DEF RunTypeOK
<1>3. QED
  BY <1>1, <1>2, StepOfRun, ServerConstants, CompletionKeepsType, RollbackKeepsType,
     HistoryKeepsType, RefreshKeepsType, ElsewhereKeepsType, DeathKeepsType DEF AskedOfRun

LEMMA RunTyped == Spec => [](RunTypeOK /\ AskedOfRun)
<1>1. Init => RunTypeOK /\ AskedOfRun
  BY StartIsTyped
<1>2. RunTypeOK /\ AskedOfRun /\ [Next]_vars => (RunTypeOK /\ AskedOfRun)'
  BY RunKeepsType
<1>3. QED
  BY <1>1, <1>2, PTL DEF Spec

-----------------------------------------------------------------------------
(* What a rollback leaves behind.                                          *)
RollInv == TakenAway /\ \A r \in Requests : Undoing(r)

LEMMA StartIsUndone == Init => RollInv
<1> SUFFICES ASSUME Init PROVE RollInv
  OBVIOUS
<1>1. /\ gone = [begun |-> {}, returned |-> {}]
      /\ \A r \in Requests : job[r].at = "idle"
  BY DEF Init, PathInit, Waiting
<1>2. QED
  BY <1>1 DEF RollInv, TakenAway, Undoing

LEMMA NoRollback ==
  ASSUME RollInv, UNCHANGED <<node, branch, gone, spoilt>>,
         \A r \in Requests : job'[r] = job[r] \/ job'[r].at \notin {"nodes", "flip"}
  PROVE  RollInv'
<1>1. TakenAway'
  BY DEF RollInv, TakenAway, Back, Late
<1>2. ASSUME NEW r \in Requests PROVE Undoing(r)'
  BY DEF RollInv, Undoing, Back, Late
<1>3. QED
  BY <1>1, <1>2 DEF RollInv

LEMMA CompletionUndoesNothing ==
  ASSUME RunTypeOK, RollInv, NEW r \in Requests, NEW result, CompleteRun(r, result)
  PROVE  RollInv'
<1>1. job \in [Requests -> Handlers]
  BY DEF RunTypeOK, HandlersOK
<1>2. UNCHANGED <<node, branch, gone, spoilt>>
  BY DEF CompleteRun, SetRun, ReadNodes, ReadMemories, ListPrior, SupersedePrior, AddSummary
<1>3. \A s \in Requests : job'[s] = job[s] \/ job'[s].at \notin {"nodes", "flip"}
  <2>1. CASE SetRun(r, result)
    BY <1>1, <2>1 DEF SetRun, Handlers
  <2>2. CASE ReadNodes(r)
    BY <1>1, <2>2 DEF ReadNodes, Handlers
  <2>3. CASE ReadMemories(r, result)
    BY <1>1, <2>3 DEF ReadMemories, Handlers
  <2>4. CASE ListPrior(r)
    BY <1>1, <2>4 DEF ListPrior, Handlers
  <2>5. CASE SupersedePrior(r)
    BY <1>1, <2>5 DEF SupersedePrior, Doing, Handlers
  <2>6. CASE AddSummary(r)
    BY <1>1, <2>6 DEF AddSummary, Handlers
  <2>7. QED
    BY <2>1, <2>2, <2>3, <2>4, <2>5, <2>6 DEF CompleteRun
<1>4. QED
  BY <1>2, <1>3, NoRollback

LEMMA HistoryUndoesNothing ==
  ASSUME RunTypeOK, RollInv, NEW r \in Requests, RetrieveHistory(r)
  PROVE  RollInv'
<1>1. job \in [Requests -> Handlers]
  BY DEF RunTypeOK, HandlersOK
<1>2. UNCHANGED <<node, branch, gone, spoilt>>
  BY DEF RetrieveHistory, ReadPath, ReadEvents, ReadFacts, Fold, FoldTimesOut, Quiet
<1>3. \A s \in Requests : job'[s] = job[s] \/ job'[s].at \notin {"nodes", "flip"}
  <2>1. CASE ReadPath(r)
    BY <1>1, <2>1 DEF ReadPath, Handlers
  <2>2. CASE ReadFacts(r)
    BY <1>1, <2>2 DEF ReadFacts, Handlers
  <2>3. CASE Proceed(r, "done") \/ Proceed(r, "facts")
    BY <1>1, <2>3 DEF Proceed, Handlers
  <2>4. QED
    BY <2>1, <2>2, <2>3 DEF RetrieveHistory, ReadEvents, Fold, FoldTimesOut
<1>4. QED
  BY <1>2, <1>3, NoRollback

LEMMA RefreshUndoesNothing ==
  ASSUME RunTypeOK, RollInv, RefreshStep \/ RefreshDies \/ (\E r \in Requests : Die(r))
  PROVE  RollInv'
<1>1. job \in [Requests -> Handlers]
  BY DEF RunTypeOK, HandlersOK
<1>2. CASE RefreshStep
  <2>1. UNCHANGED Shared
    BY <1>2 DEF RefreshStep, ListRuns, CheckMemory, RefreshNodes, RefreshBuild, Recheck,
                RefreshList, RefreshSupersede, RefreshAdd
  <2>2. QED
    BY <2>1, NoRollback DEF Shared
<1>3. CASE RefreshDies
  BY <1>3, NoRollback DEF RefreshDies
<1>4. ASSUME NEW r \in Requests, Die(r)
      PROVE  RollInv'
  <2>1. \A s \in Requests : job'[s] = job[s] \/ job'[s].at \notin {"nodes", "flip"}
    BY <1>1, <1>4 DEF Die, Proceed, Handlers
  <2>2. QED
    BY <1>4, <2>1, NoRollback DEF Die
<1>5. QED
  BY <1>2, <1>3, <1>4

LEMMA RollbackIsUndone ==
  ASSUME RunTypeOK, RollInv, NEW r \in Requests, NEW step \in Steps, Rollback(r, step)
  PROVE  RollInv'
<1>1. job \in [Requests -> Handlers] /\ job[r] \in Handlers
  BY DEF RunTypeOK, HandlersOK
<1>2. /\ node \in [Steps -> {"completed", "rolled_back"}]
      /\ branch \in [Items -> {"none", "completed", "rolled_back"}]
      /\ gone \in [begun : SUBSET Steps, returned : SUBSET Steps]
      /\ spoilt \in [nodes : SUBSET Steps, items : SUBSET Items]
  BY DEF RunTypeOK
<1>3. TakenAway /\ Undoing(r)
  BY DEF RollInv
<1>4. \A s \in Requests \ {r} : job'[s] = job[s]
  BY <1>1 DEF Rollback, BeginRollback, RollNode, ListOfBranch, FlipItem, FlipSummary,
              EndRollback, Proceed
<1>5. ASSUME TakenAway', Undoing(r)', gone.begun \subseteq gone'.begun, spoilt' = spoilt,
             \A s \in Steps : Back(s) => Back(s)', \A i \in Items : Late(i) => Late(i)'
      PROVE  RollInv'
  <2>1. ASSUME NEW s \in Requests \ {r} PROVE Undoing(s)'
    <3>1. Undoing(s) /\ job'[s] = job[s] /\ job[s] \in Handlers
      BY <1>1, <1>4 DEF RollInv
    <3>2. job[s].nodes \subseteq Steps
      BY <3>1 DEF Handlers
    <3>3. ASSUME job[s].at \in {"nodes", "flip"}, NEW t \in job[s].nodes \ job[s].todo
          PROVE  Back(t)'
      BY <1>5, <3>1, <3>2, <3>3 DEF Undoing
    <3>4. QED
      BY <1>5, <3>1, <3>3 DEF Undoing
  <2>2. QED
    BY <1>5, <2>1 DEF RollInv
<1>6. CASE BeginRollback(r, step)
  <2> DEFINE S == Subtree[step]
  <2>1. /\ job'[r].at = "nodes" /\ job'[r].nodes = S /\ job'[r].todo = S
        /\ gone'.begun = gone.begun \cup S /\ gone'.returned = gone.returned
        /\ node' = node /\ branch' = branch /\ spoilt' = spoilt
    BY <1>1, <1>2, <1>6 DEF BeginRollback, Handlers
  <2> HIDE DEF S
  <2>2. Undoing(r)'
    BY <2>1 DEF Undoing
  <2>3. TakenAway'
    BY <1>3, <2>1 DEF TakenAway, Back, Late
  <2>4. \A s \in Steps : Back(s) => Back(s)'
    BY <2>1 DEF Back
  <2>5. \A i \in Items : Late(i) => Late(i)'
    BY <2>1 DEF Late
  <2>6. QED
    BY <1>5, <2>1, <2>2, <2>3, <2>4, <2>5
<1>7. CASE RollNode(r)
  <2>1. PICK s : /\ node' = [node EXCEPT ![s] = "rolled_back"]
                 /\ job' = [job EXCEPT ![r].todo = job[r].todo \ {s}]
    BY <1>7 DEF RollNode
  <2>2. /\ branch' = branch /\ gone' = gone /\ spoilt' = spoilt
        /\ job'[r].at = "nodes" /\ job[r].at = "nodes" /\ job'[r].nodes = job[r].nodes
        /\ job'[r].todo = job[r].todo \ {s}
    BY <1>1, <1>7, <2>1 DEF RollNode, Doing, Handlers
  <2>3. \A t \in Steps : (Back(t) \/ t = s) => Back(t)'
    BY <1>2, <2>1, <2>2 DEF Back
  <2>4. \A i \in Items : Late(i) => Late(i)'
    BY <2>2 DEF Late
  <2>5. job[r].nodes \subseteq Steps
    BY <1>1 DEF Handlers
  <2>6. ASSUME NEW t \in job[r].nodes \ (job[r].todo \ {s}) PROVE Back(t)'
    BY <1>3, <2>2, <2>3, <2>5, <2>6 DEF Undoing
  <2>7. Undoing(r)'
    BY <1>3, <2>2, <2>6 DEF Undoing
  <2>8. gone.returned \subseteq Steps
    BY <1>2
  <2>9. TakenAway'
    <3>1. \A t \in gone.returned : Back(t)'
      BY <1>3, <2>3, <2>8 DEF TakenAway
    <3>2. \A i \in Items : NodeOf[i] \in gone.returned => Late(i)'
      BY <1>3, <2>4 DEF TakenAway
    <3>3. QED
      BY <1>3, <2>2, <3>1, <3>2 DEF TakenAway
  <2>10. QED
    BY <1>5, <2>2, <2>3, <2>4, <2>7, <2>9
<1>8. CASE ListOfBranch(r)
  <2>1. /\ node' = node /\ branch' = branch /\ gone' = gone /\ spoilt' = spoilt
        /\ job[r].at = "nodes" /\ job[r].todo = {}
        /\ job'[r].at = "flip" /\ job'[r].todo = {} /\ job'[r].nodes = job[r].nodes
        /\ job'[r].items = {i \in Items : branch[i] # "none" /\ NodeOf[i] \in job[r].nodes}
    BY <1>1, <1>8 DEF ListOfBranch, Doing, Handlers
  <2>2. Undoing(r)'
    BY <1>3, <2>1 DEF Undoing, Back, Late
  <2>3. TakenAway'
    BY <1>3, <2>1 DEF TakenAway, Back, Late
  <2>4. \A s \in Steps : Back(s) => Back(s)'
    BY <2>1 DEF Back
  <2>5. \A i \in Items : Late(i) => Late(i)'
    BY <2>1 DEF Late
  <2>6. QED
    BY <1>5, <2>1, <2>2, <2>3, <2>4, <2>5
<1>9. CASE FlipItem(r)
  <2>1. PICK i \in job[r].items : /\ branch' = [branch EXCEPT ![i] = "rolled_back"]
                                  /\ job' = [job EXCEPT ![r].items = job[r].items \ {i}]
    BY <1>9 DEF FlipItem
  <2>2. /\ node' = node /\ gone' = gone /\ spoilt' = spoilt
        /\ job'[r].at = "flip" /\ job[r].at = "flip" /\ job'[r].nodes = job[r].nodes
        /\ job'[r].todo = job[r].todo /\ job'[r].items = job[r].items \ {i}
    BY <1>1, <1>9, <2>1 DEF FlipItem, Doing, Handlers
  <2>3. \A j \in Items : (Late(j) \/ j = i) => Late(j)'
    BY <1>2, <2>1, <2>2 DEF Late
  <2>4. \A s \in Steps : Back(s) => Back(s)'
    BY <2>2 DEF Back
  <2>5. Undoing(r)'
    <3>1. \A s \in job[r].nodes \ job[r].todo : Back(s)'
      BY <1>3, <2>2 DEF Undoing, Back
    <3>2. \A j \in Items : NodeOf[j] \in job[r].nodes =>
             Late(j)' \/ j \in job[r].items \ {i}
      BY <1>3, <2>2, <2>3 DEF Undoing
    <3>3. QED
      BY <1>3, <2>2, <3>1, <3>2 DEF Undoing
  <2>6. TakenAway'
    <3>1. \A s \in gone.returned : Back(s)'
      BY <1>3, <2>2 DEF TakenAway, Back
    <3>2. \A j \in Items : NodeOf[j] \in gone.returned => Late(j)'
      BY <1>3, <2>3 DEF TakenAway
    <3>3. QED
      BY <1>3, <2>2, <3>1, <3>2 DEF TakenAway
  <2>7. QED
    BY <1>5, <2>2, <2>3, <2>4, <2>5, <2>6
<1>10. CASE FlipSummary(r)
  <2>1. \A s \in Requests : /\ job'[s].at = job[s].at /\ job'[s].nodes = job[s].nodes
                            /\ job'[s].todo = job[s].todo /\ job'[s].items = job[s].items
    BY <1>1, <1>10 DEF FlipSummary, Handlers
  <2>2. node' = node /\ branch' = branch /\ gone' = gone /\ spoilt' = spoilt
    BY <1>10 DEF FlipSummary
  <2>3. QED
    BY <2>1, <2>2 DEF RollInv, TakenAway, Undoing, Back, Late
<1>11. CASE EndRollback(r)
  <2>1. /\ node' = node /\ branch' = branch /\ spoilt' = spoilt
        /\ job'[r].at = "done" /\ job[r].at = "flip" /\ job[r].items = {}
        /\ gone'.begun = gone.begun /\ gone'.returned = gone.returned \cup job[r].nodes
    BY <1>1, <1>2, <1>11 DEF EndRollback, Proceed, Doing, Handlers
  <2>2. Undoing(r)'
    BY <2>1 DEF Undoing
  <2>3. \A s \in Steps : Back(s) <=> Back(s)'
    BY <2>1 DEF Back
  <2>4. \A i \in Items : Late(i) <=> Late(i)'
    BY <2>1 DEF Late
  <2>5. job[r].nodes \subseteq gone.begun /\ job[r].todo = {}
    BY <1>3, <2>1 DEF Undoing
  <2>6. \A s \in gone'.returned : Back(s)'
    BY <1>3, <2>1, <2>5 DEF Undoing, TakenAway, Back
  <2>7. \A i \in Items : NodeOf[i] \in gone'.returned => Late(i)'
    BY <1>3, <2>1, <2>4 DEF Undoing, TakenAway
  <2>8. TakenAway'
    BY <1>3, <2>1, <2>5, <2>6, <2>7 DEF TakenAway
  <2>9. QED
    BY <1>5, <2>1, <2>2, <2>3, <2>4, <2>8
<1>12. QED
  BY <1>6, <1>7, <1>8, <1>9, <1>10, <1>11 DEF Rollback

LEMMA ElsewhereIsUndone ==
  ASSUME RunTypeOK, RollInv, Elsewhere
  PROVE  RollInv'
<1>1. job' = job /\ gone' = gone
  BY DEF Elsewhere, AddItem, WriteItemBack, WriteNodeBack, Archive
<1>2. spoilt \in [nodes : SUBSET Steps, items : SUBSET Items]
  BY DEF RunTypeOK
<1>3. \A i \in Items : NodeOf[i] \in gone.begun /\ Late(i) => Late(i)'
  <2>1. CASE AddItem
    <3>1. PICK j \in Items :
            /\ branch' = [branch EXCEPT ![j] = "completed"]
            /\ spoilt' = [spoilt EXCEPT !.items = IF NodeOf[j] \in gone.begun
                                                  THEN spoilt.items \cup {j} ELSE spoilt.items]
      BY <2>1 DEF AddItem
    <3>2. spoilt.items \subseteq spoilt'.items
      BY <1>2, <3>1
    <3>3. NodeOf[j] \in gone.begun => j \in spoilt'.items
      BY <1>2, <3>1
    <3>4. \A i \in Items \ {j} : branch'[i] = branch[i]
      BY <3>1 DEF RunTypeOK
    <3>5. QED
      BY <3>2, <3>3, <3>4 DEF Late
  <2>2. CASE WriteNodeBack
    BY <1>2, <2>2 DEF WriteNodeBack, Late
  <2>3. CASE Archive
    BY <2>3 DEF Archive, Late
  <2>4. CASE WriteItemBack
    <3>1. PICK j \in Items : /\ branch' = [branch EXCEPT ![j] = "completed"]
                             /\ spoilt' = [spoilt EXCEPT !.items = spoilt.items \cup {j}]
      BY <2>4 DEF WriteItemBack
    <3>2. spoilt.items \subseteq spoilt'.items /\ j \in spoilt'.items
      BY <1>2, <3>1
    <3>3. \A i \in Items \ {j} : branch'[i] = branch[i]
      BY <3>1 DEF RunTypeOK
    <3>4. QED
      BY <3>2, <3>3 DEF Late
  <2>5. QED
    BY <2>1, <2>2, <2>3, <2>4 DEF Elsewhere
<1>4. \A s \in Steps : Back(s) => Back(s)'
  <2>1. CASE AddItem
    BY <1>2, <2>1 DEF AddItem, Back
  <2>2. CASE WriteNodeBack
    <3>1. PICK t \in Steps : /\ node' = [node EXCEPT ![t] = "completed"]
                             /\ spoilt' = [spoilt EXCEPT !.nodes = spoilt.nodes \cup {t}]
      BY <2>2 DEF WriteNodeBack
    <3>2. spoilt.nodes \subseteq spoilt'.nodes /\ t \in spoilt'.nodes
      BY <1>2, <3>1
    <3>3. \A s \in Steps \ {t} : node'[s] = node[s]
      BY <3>1 DEF RunTypeOK
    <3>4. QED
      BY <3>2, <3>3 DEF Back
  <2>3. CASE Archive
    BY <2>3 DEF Archive, Back
  <2>4. CASE WriteItemBack
    BY <1>2, <2>4 DEF WriteItemBack, Back
  <2>5. QED
    BY <2>1, <2>2, <2>3, <2>4 DEF Elsewhere
<1>5. spoilt.items \subseteq spoilt'.items
  BY <1>2 DEF Elsewhere, AddItem, WriteItemBack, WriteNodeBack, Archive
<1>6. gone.begun \subseteq Steps /\ gone.returned \subseteq gone.begun
  BY DEF RunTypeOK, RollInv, TakenAway
<1>7. TakenAway'
  <2>1. \A s \in gone.returned : Back(s)'
    BY <1>4, <1>6 DEF RollInv, TakenAway
  <2>2. \A i \in Items : NodeOf[i] \in gone.returned => Late(i)'
    BY <1>3, <1>6 DEF RollInv, TakenAway
  <2>3. QED
    BY <1>1, <1>6, <2>1, <2>2 DEF TakenAway
<1>8. ASSUME NEW r \in Requests PROVE Undoing(r)'
  <2>1. Undoing(r)
    BY DEF RollInv
  <2>2. ASSUME job[r].at \in {"nodes", "flip"}
        PROVE  /\ job[r].nodes \subseteq gone.begun
               /\ \A s \in job[r].nodes \ job[r].todo : Back(s)'
    <3>1. job[r].nodes \subseteq gone.begun /\ \A s \in job[r].nodes \ job[r].todo : Back(s)
      BY <2>1, <2>2 DEF Undoing
    <3>2. QED
      BY <1>4, <1>6, <3>1
  <2>3. ASSUME job[r].at = "flip", NEW i \in Items, NodeOf[i] \in job[r].nodes
        PROVE  Late(i)' \/ i \in job[r].items
    BY <1>3, <2>1, <2>2, <2>3 DEF Undoing
  <2>4. QED
    BY <1>1, <2>1, <2>2, <2>3 DEF Undoing
<1>9. QED
  BY <1>7, <1>8 DEF RollInv

LEMMA RolledBack == Spec => []RollInv
<1>1. RunTypeOK /\ AskedOfRun /\ RollInv /\ [Next]_vars => RollInv'
  <2> SUFFICES ASSUME RunTypeOK, AskedOfRun, RollInv, [Next]_vars PROVE RollInv'
    OBVIOUS
  <2>1. CASE UNCHANGED run
    BY <2>1, NoRollback DEF run
  <2>2. QED
    BY <2>1, StepOfRun, CompletionUndoesNothing, HistoryUndoesNothing, RefreshUndoesNothing,
       RollbackIsUndone, ElsewhereIsUndone DEF AskedOfRun
<1>2. QED
  BY <1>1, StartIsUndone, RunTyped, PTL DEF Spec

-----------------------------------------------------------------------------
(* What is made of the path.                                               *)
RowsTell == \A t \in Entries(row) : Untold(t)
TellInv == RowsTell /\ RefreshTelling /\ \A r \in Requests : Telling(r)

Grows == /\ spoilt.nodes \subseteq spoilt'.nodes /\ spoilt.items \subseteq spoilt'.items
         /\ gone.returned \subseteq gone'.returned

LEMMA HistoriesGrow ==
  ASSUME RunTypeOK, AskedOfRun, [Next]_vars
  PROVE  Grows
<1>1. /\ gone \in [begun : SUBSET Steps, returned : SUBSET Steps]
      /\ spoilt \in [nodes : SUBSET Steps, items : SUBSET Items]
  BY DEF RunTypeOK
<1>2. CASE gone' = gone /\ spoilt' = spoilt
  BY <1>2 DEF Grows
<1>3. CASE UNCHANGED run
  BY <1>2, <1>3 DEF run
<1>4. CASE RefreshStep
  BY <1>2, <1>4 DEF RefreshStep, ListRuns, CheckMemory, RefreshNodes, RefreshBuild, Recheck,
                    RefreshList, RefreshSupersede, RefreshAdd, Shared
<1>5. CASE RefreshDies
  BY <1>2, <1>5 DEF RefreshDies
<1>6. CASE Elsewhere
  <2>1. gone' = gone
    BY <1>6 DEF Elsewhere, AddItem, WriteItemBack, WriteNodeBack, Archive
  <2>2. spoilt.nodes \subseteq spoilt'.nodes /\ spoilt.items \subseteq spoilt'.items
    BY <1>1, <1>6 DEF Elsewhere, AddItem, WriteItemBack, WriteNodeBack, Archive
  <2>3. QED
    BY <2>1, <2>2 DEF Grows
<1>7. ASSUME NEW r \in Requests, CompleteRun(r, Asks(r).result) PROVE Grows
  BY <1>2, <1>7 DEF CompleteRun, SetRun, ReadNodes, ReadMemories, ListPrior, SupersedePrior,
                    AddSummary
<1>8. ASSUME NEW r \in Requests, Rollback(r, Asks(r).step) PROVE Grows
  <2>1. spoilt' = spoilt /\ gone.returned \subseteq gone'.returned
    BY <1>1, <1>8 DEF Rollback, BeginRollback, RollNode, ListOfBranch, FlipItem, FlipSummary,
                      EndRollback
  <2>2. QED
    BY <2>1 DEF Grows
<1>9. ASSUME NEW r \in Requests, RetrieveHistory(r) PROVE Grows
  BY <1>2, <1>9 DEF RetrieveHistory, ReadPath, ReadEvents, ReadFacts, Fold, FoldTimesOut, Quiet
<1>10. ASSUME NEW r \in Requests, Die(r) PROVE Grows
  BY <1>2, <1>10 DEF Die
<1>11. QED
  BY <1>3, <1>4, <1>5, <1>6, <1>7, <1>8, <1>9, <1>10, StepOfRun

LEMMA EscapedStays ==
  ASSUME Grows
  PROVE  /\ \A i : Escaped(i) => Escaped(i)'
         /\ \A t : Untold(t) => Untold(t)'
BY DEF Grows, Escaped, Untold

LEMMA TellingStays ==
  ASSUME RunTypeOK, TellInv, Grows, NEW s \in Requests, job'[s] = job[s], fold'[s] = fold[s]
  PROVE  Telling(s)'
<1>1. Telling(s)
  BY DEF TellInv
<1>2. job'[s].off \subseteq gone'.returned
  BY <1>1 DEF Telling, Grows
<1>3. job'[s].at \in {"memories", "events", "facts"} =>
        job'[s].nodes \cap job'[s].off \subseteq spoilt'.nodes
  BY <1>1 DEF Telling, Grows
<1>4. job'[s].at = "provider" => \A i \in job'[s].items : NodeOf[i] \in job'[s].off => Escaped(i)'
  BY <1>1, EscapedStays DEF Telling
<1>5. \A t \in Entries(job'[s].plan) : Untold(t)'
  BY <1>1, EscapedStays DEF Telling
<1>6. \A x \in job'[s].read : Untold(x.row)'
  <2>1. \A t : (\E x \in job[s].read : t = x.row) => Untold(t)'
    BY <1>1, EscapedStays DEF Telling
  <2>2. QED
    BY <2>1
<1>7. fold'[s].made =>
        /\ job'[s].at # "idle"
        /\ \A i \in fold'[s].facts \cup fold'[s].pairs : NodeOf[i] \in job'[s].off => Escaped(i)'
  BY <1>1, EscapedStays DEF Telling
<1>8. QED
  BY <1>2, <1>3, <1>4, <1>5, <1>6, <1>7 DEF Telling

LEMMA RefreshTellingStays ==
  ASSUME RunTypeOK, TellInv, Grows, refresh' = refresh
  PROVE  RefreshTelling'
<1>1. RefreshTelling
  BY DEF TellInv
<1>2. \A t \in Entries(refresh'.plan) : Untold(t)'
  BY <1>1, EscapedStays DEF RefreshTelling
<1>3. QED
  BY <1>1, <1>2 DEF RefreshTelling, Grows

LEMMA RowsTellStays ==
  ASSUME RunTypeOK, TellInv, Grows, row' = row
  PROVE  RowsTell'
<1>1. \A t \in Entries(row') : Untold(t)'
  BY EscapedStays DEF TellInv, RowsTell
<1>2. QED
  BY <1>1 DEF RowsTell

LEMMA RowsTellChanged ==
  ASSUME RunTypeOK, TellInv, Grows, NEW n, NEW x, Untold(x)',
         row' = [row EXCEPT ![n] = x] \/ (x \in SummaryRows /\ row' = Append(row, x))
  PROVE  RowsTell'
<1>1. PICK rows \in Seq(SummaryRows) : rows = row
  BY DEF RunTypeOK
<1>2. \A t \in Entries(row') : t = x \/ t \in Entries(row)
  <2>1. CASE row' = [row EXCEPT ![n] = x]
    BY <2>1 DEF Entries
  <2>2. CASE x \in SummaryRows /\ row' = Append(row, x)
    <3>0. Append(rows, x) \in Seq(SummaryRows)
      BY <2>2, AppendProperties
    <3>1. PICK longer \in Seq(SummaryRows) : longer = Append(rows, x)
      BY <3>0
    <3>2. /\ Len(longer) = Len(rows) + 1 /\ longer[Len(rows) + 1] = x
          /\ \A m \in 1..Len(rows) : longer[m] = rows[m]
      BY <2>2, <3>1, AppendProperties
    <3>3. \A m \in DOMAIN longer : longer[m] = x \/ (m \in DOMAIN rows /\ longer[m] = rows[m])
      BY <3>2
    <3>4. QED
      BY <1>1, <2>2, <3>1, <3>3 DEF Entries
  <2>3. QED
    BY <2>1, <2>2
<1>3. \A t \in Entries(row) : Untold(t)'
  <2>1. \A t : t \in Entries(row) => Untold(t)
    BY DEF TellInv, RowsTell
  <2>2. QED
    BY <2>1, EscapedStays
<1>4. \A t \in Entries(row') : Untold(t)'
  BY <1>2, <1>3
<1>5. QED
  BY <1>4 DEF RowsTell

LEMMA PathTells ==
  ASSUME RunTypeOK, RollInv, NEW off \in SUBSET gone.returned
  PROVE  OnPath \cap off \subseteq spoilt.nodes
<1> SUFFICES ASSUME NEW s \in OnPath \cap off PROVE s \in spoilt.nodes
  OBVIOUS
<1>1. s \in Steps /\ node[s] = "completed"
  BY RunPathConstants DEF OnPath
<1>2. QED
  BY <1>1 DEF RollInv, TakenAway, Back

LEMMA LateTells ==
  ASSUME RunTypeOK, RollInv, NEW off \in SUBSET gone.returned, NEW nodes,
         nodes \cap off \subseteq spoilt.nodes,
         NEW i \in Items, branch[i] = "completed", NodeOf[i] \in nodes, NodeOf[i] \in off
  PROVE  Escaped(i)
BY DEF RollInv, TakenAway, Late, Escaped

LEMMA SummariesTell ==
  ASSUME RunTypeOK, RollInv, NEW off \in SUBSET gone.returned, NEW nodes,
         nodes \cap off \subseteq spoilt.nodes, NEW result
  PROVE  \A t \in Entries(Summaries(result, nodes, off)) : Untold(t)
<1>1. Untold(Episodic(result, nodes, off))
  BY DEF Episodic, Untold
<1>2. Untold(Procedural(nodes, off))
  <2>1. ProjectConstraint \subseteq Project
    <3> DEFINE stored == {i \in Project : branch[i] # "none"}
    <3>1. stored \subseteq Nat
      BY RunPathConstants
    <3>2. stored # {} => Min(stored) \in stored
      BY <3>1, FirstNumber
    <3>3. QED
      BY <3>2 DEF ProjectConstraint
  <2>2. \A i \in ToolEvidence(nodes) : NodeOf[i] \in off => Escaped(i)
    BY LateTells DEF ToolEvidence
  <2>3. QED
    BY <2>1, <2>2 DEF Procedural, Untold
<1>3. \A t \in Entries(Summaries(result, nodes, off)) :
        t \in {Episodic(result, nodes, off), Procedural(nodes, off)}
  BY DEF Summaries, Entries
<1>4. QED
  BY <1>1, <1>2, <1>3

LEMMA OneTells ==
  ASSUME RunTypeOK, TellInv, Grows, NEW r \in Requests,
         \A s \in Requests \ {r} : job'[s] = job[s] /\ fold'[s] = fold[s],
         Telling(r)', refresh' = refresh, RowsTell'
  PROVE  TellInv'
<1>1. \A s \in Requests \ {r} : Telling(s)'
  BY TellingStays
<1>2. QED
  BY <1>1, RefreshTellingStays DEF TellInv

LEMMA CompletionTells ==
  ASSUME RunTypeOK, RollInv, TellInv, Grows, NEW r \in Requests, NEW result,
         CompleteRun(r, result), UNCHANGED fold
  PROVE  TellInv'
<1>1. job \in [Requests -> Handlers] /\ job[r] \in Handlers /\ row \in Seq(SummaryRows)
  BY DEF RunTypeOK, HandlersOK
<1>2. /\ gone' = gone /\ spoilt' = spoilt /\ refresh' = refresh /\ fold' = fold
      /\ \A s \in Requests \ {r} : job'[s] = job[s]
  BY <1>1 DEF CompleteRun, SetRun, ReadNodes, ReadMemories, ListPrior, SupersedePrior,
              AddSummary
<1>3. Telling(r)
  BY DEF TellInv
<1>4. \A t : Untold(t)' <=> Untold(t)
  BY <1>2 DEF Untold, Escaped
<1>5. \A i : Escaped(i)' <=> Escaped(i)
  BY <1>2 DEF Escaped
<1>6. ASSUME job[r].at \notin {"idle", "provider"},
             job'[r].off = job[r].off, job'[r].at \notin {"provider", "idle"},
             job'[r].at \in {"memories", "events", "facts"} =>
               job'[r].nodes \cap job'[r].off \subseteq spoilt.nodes,
             \A t \in Entries(job'[r].plan) : Untold(t),
             \A x \in job'[r].read : Untold(x.row)
      PROVE  Telling(r)'
  <2>1. \A t \in Entries(job'[r].plan) : Untold(t)'
    BY <1>4, <1>6
  <2>2. \A t : (\E x \in job'[r].read : t = x.row) => Untold(t)'
    BY <1>4, <1>6
  <2>3. QED
    BY <1>2, <1>3, <1>5, <1>6, <2>1, <2>2 DEF Telling
<1>7. CASE SetRun(r, result)
  <2>1. /\ job'[r].off = gone.returned /\ job'[r].at = "nodes of run" /\ job[r].at = "idle"
        /\ job'[r].plan = job[r].plan /\ job'[r].read = job[r].read /\ row' = row
    BY <1>1, <1>7 DEF SetRun, Doing, Handlers
  <2>2. \A t \in Entries(job'[r].plan) : Untold(t)'
    BY <1>3, <1>4, <2>1 DEF Telling
  <2>3. \A x \in job'[r].read : Untold(x.row)'
    <3>1. \A t : (\E x \in job'[r].read : t = x.row) => Untold(t)'
      BY <1>3, <1>4, <2>1 DEF Telling
    <3>2. QED
      BY <3>1
  <2>4. ~fold'[r].made
    BY <1>2, <1>3, <2>1 DEF Telling
  <2>5. Telling(r)'
    BY <1>2, <2>1, <2>2, <2>3, <2>4 DEF Telling
  <2>6. RowsTell'
    BY <2>1, RowsTellStays
  <2>7. QED
    BY <1>2, <2>5, <2>6, OneTells
<1>8. CASE ReadNodes(r)
  <2>1. /\ job'[r].off = job[r].off /\ job'[r].at = "memories" /\ job[r].at = "nodes of run"
        /\ job'[r].plan = job[r].plan /\ job'[r].read = job[r].read /\ job'[r].nodes = OnPath
        /\ row' = row
    BY <1>1, <1>8 DEF ReadNodes, Doing, Handlers
  <2>2. OnPath \cap job[r].off \subseteq spoilt.nodes
    BY <1>3, PathTells DEF Telling
  <2>3. Telling(r)'
    BY <1>3, <1>6, <2>1, <2>2 DEF Telling
  <2>4. RowsTell'
    BY <2>1, RowsTellStays
  <2>5. QED
    BY <1>2, <2>3, <2>4, OneTells
<1>9. CASE ReadMemories(r, result)
  <2> DEFINE plan == Summaries(result, job[r].nodes, job[r].off)
  <2>1. /\ job'[r].off = job[r].off /\ job'[r].at = "write" /\ job[r].at = "memories"
        /\ job'[r].plan = plan /\ job'[r].read = job[r].read /\ row' = row
    BY <1>1, <1>9 DEF ReadMemories, Doing, Handlers
  <2>2. \A t \in Entries(plan) : Untold(t)
    BY <1>3, <2>1, SummariesTell DEF Telling
  <2> HIDE DEF plan
  <2>3. Telling(r)'
    BY <1>3, <1>6, <2>1, <2>2 DEF Telling
  <2>4. RowsTell'
    BY <2>1, RowsTellStays
  <2>5. QED
    BY <1>2, <2>3, <2>4, OneTells
<1>10. CASE ListPrior(r)
  <2>1. /\ job'[r].off = job[r].off /\ job'[r].at = "supersede" /\ job[r].at = "write"
        /\ job'[r].plan = job[r].plan /\ job'[r].read = ActiveRows(Head(job[r].plan).kind)
        /\ row' = row
    BY <1>1, <1>10 DEF ListPrior, Doing, Handlers
  <2>2. \A x \in job'[r].read : Untold(x.row)
    BY <2>1 DEF ActiveRows, TellInv, RowsTell, Entries
  <2>3. Telling(r)'
    BY <1>3, <1>6, <2>1, <2>2 DEF Telling
  <2>4. RowsTell'
    BY <2>1, RowsTellStays
  <2>5. QED
    BY <1>2, <2>3, <2>4, OneTells
<1>11. CASE SupersedePrior(r)
  <2>1. PICK x \in job[r].read :
          /\ row' = [row EXCEPT ![x.n] = [x.row EXCEPT !.status = "superseded"]]
          /\ job' = [job EXCEPT ![r].read = job[r].read \ {x}]
    BY <1>11 DEF SupersedePrior
  <2>2. /\ job'[r].off = job[r].off /\ job'[r].at = "supersede" /\ job[r].at = "supersede"
        /\ job'[r].plan = job[r].plan /\ job'[r].read = job[r].read \ {x}
    BY <1>1, <1>11, <2>1 DEF SupersedePrior, Doing, Handlers
  <2>3. Telling(r)'
    BY <1>3, <1>6, <2>2 DEF Telling
  <2>4. RowsTell'
    <3>1. x.row \in SummaryRows
      BY <1>1, <2>1 DEF Handlers, Snapshots
    <3>0. PICK e : e = [x.row EXCEPT !.status = "superseded"]
      OBVIOUS
    <3>2. e.from = x.row.from /\ e.off = x.row.off
      BY <3>0, <3>1 DEF SummaryRows
    <3>3. Untold(e)
      BY <1>3, <2>1, <3>2 DEF Telling, Untold
    <3>4. row' = [row EXCEPT ![x.n] = e]
      BY <2>1, <3>0
    <3>5. Untold(e)'
      BY <1>4, <3>3
    <3>6. QED
      BY <3>4, <3>5, RowsTellChanged
  <2>5. QED
    BY <1>2, <2>3, <2>4, OneTells
<1>12. CASE AddSummary(r)
  <2>1. job[r].plan \in Seq(SummaryRows) /\ job[r].plan # <<>>
    BY <1>1, <1>12 DEF AddSummary, Doing, Handlers, RunTypeOK, HandlersOK
  <2>2. /\ job'[r].off = job[r].off /\ job'[r].at \in {"done", "write"} /\ job[r].at = "supersede"
        /\ job'[r].plan = Tail(job[r].plan) /\ job'[r].read = job[r].read
        /\ row' = Append(row, Head(job[r].plan))
    BY <1>1, <1>12 DEF AddSummary, Doing, Handlers
  <2>3. Entries(Tail(job[r].plan)) \subseteq Entries(job[r].plan)
    BY <2>1 DEF Entries
  <2>4. PICK x \in SummaryRows : x = Head(job[r].plan) /\ x \in Entries(job[r].plan)
    BY <2>1 DEF Entries
  <2>5. Telling(r)'
    BY <1>3, <1>6, <2>2, <2>3 DEF Telling
  <2>6. Untold(x)'
    BY <1>3, <1>4, <2>4 DEF Telling
  <2>7. RowsTell'
    BY <2>2, <2>4, <2>6, RowsTellChanged
  <2>8. QED
    BY <1>2, <2>5, <2>7, OneTells
<1>13. QED
  BY <1>7, <1>8, <1>9, <1>10, <1>11, <1>12 DEF CompleteRun

LEMMA RollbackMoves ==
  ASSUME HandlersOK, NEW r \in Requests, NEW step, Rollback(r, step)
  PROVE  /\ job'[r].off = job[r].off /\ job'[r].plan = job[r].plan
         /\ job'[r].at \in {"nodes", "flip", "done"}
         /\ job'[r].read \subseteq job[r].read \/ ListOfBranch(r)
         /\ \A s \in Requests \ {r} : job'[s] = job[s]
<1>1. job \in [Requests -> Handlers] /\ job[r] \in Handlers
  BY DEF HandlersOK
<1>2. CASE BeginRollback(r, step)
  BY <1>1, <1>2 DEF BeginRollback, Handlers
<1>3. CASE RollNode(r)
  BY <1>1, <1>3 DEF RollNode, Doing, Handlers
<1>4. CASE ListOfBranch(r)
  BY <1>1, <1>4 DEF ListOfBranch, Handlers
<1>5. CASE FlipItem(r)
  BY <1>1, <1>5 DEF FlipItem, Doing, Handlers
<1>6. CASE FlipSummary(r)
  BY <1>1, <1>6 DEF FlipSummary, Doing, Handlers
<1>7. CASE EndRollback(r)
  BY <1>1, <1>7 DEF EndRollback, Proceed, Handlers
<1>8. QED
  BY <1>2, <1>3, <1>4, <1>5, <1>6, <1>7 DEF Rollback

LEMMA HistoryMoves ==
  ASSUME HandlersOK, NEW r \in Requests, RetrieveHistory(r)
  PROVE  /\ job'[r].plan = job[r].plan /\ job'[r].read = job[r].read
         /\ \A s \in Requests \ {r} : job'[s] = job[s]
<1>1. job \in [Requests -> Handlers] /\ job[r] \in Handlers
  BY DEF HandlersOK
<1>2. CASE ReadPath(r)
  BY <1>1, <1>2 DEF ReadPath, Handlers
<1>3. CASE ReadFacts(r)
  BY <1>1, <1>3 DEF ReadFacts, Handlers
<1>4. CASE Proceed(r, "done") \/ Proceed(r, "facts")
  BY <1>1, <1>4 DEF Proceed, Handlers
<1>5. QED
  BY <1>2, <1>3, <1>4 DEF RetrieveHistory, ReadEvents, Fold, FoldTimesOut

LEMMA RollbackTells ==
  ASSUME RunTypeOK, TellInv, Grows, NEW r \in Requests, NEW step, Rollback(r, step),
         UNCHANGED <<refresh, fold>>
  PROVE  TellInv'
<1>1. job \in [Requests -> Handlers] /\ job[r] \in Handlers
  BY DEF RunTypeOK, HandlersOK
<1>2. HandlersOK
  BY DEF RunTypeOK
<1>3. /\ job'[r].off = job[r].off /\ job'[r].plan = job[r].plan
      /\ job'[r].at \in {"nodes", "flip", "done"}
      /\ job'[r].read \subseteq job[r].read \/ ListOfBranch(r)
      /\ \A s \in Requests \ {r} : job'[s] = job[s]
  BY <1>2, RollbackMoves
<1>4. \A x \in job'[r].read : Untold(x.row)
  <2>1. CASE job'[r].read \subseteq job[r].read
    BY <2>1 DEF TellInv, Telling
  <2>2. CASE ListOfBranch(r)
    <3>1. job'[r].read \subseteq {[n |-> n, row |-> row[n]] : n \in DOMAIN row}
      BY <1>1, <2>2 DEF ListOfBranch, Handlers
    <3>2. QED
      BY <3>1 DEF TellInv, RowsTell, Entries
  <2>3. QED
    BY <1>3, <2>1, <2>2
<1>5. Telling(r)'
  <2>1. job'[r].off \subseteq gone'.returned
    BY <1>3 DEF TellInv, Telling, Grows
  <2>2. \A t \in Entries(job'[r].plan) : Untold(t)'
    <3>1. \A t \in Entries(job'[r].plan) : Untold(t)
      BY <1>3 DEF TellInv, Telling
    <3>2. QED
      BY <3>1, EscapedStays
  <2>3. \A x \in job'[r].read : Untold(x.row)'
    <3>1. \A t : (\E x \in job'[r].read : t = x.row) => Untold(t)
      BY <1>4
    <3>2. \A t : (\E x \in job'[r].read : t = x.row) => Untold(t)'
      BY <3>1, EscapedStays
    <3>3. QED
      BY <3>2
  <2>4. fold[r].made =>
          \A i \in fold[r].facts \cup fold[r].pairs : NodeOf[i] \in job[r].off => Escaped(i)'
    <3>1. fold[r].made =>
            \A i \in fold[r].facts \cup fold[r].pairs : NodeOf[i] \in job[r].off => Escaped(i)
      BY DEF TellInv, Telling
    <3>2. QED
      BY <3>1, EscapedStays
  <2>5. QED
    BY <1>3, <2>1, <2>2, <2>3, <2>4 DEF Telling
<1>6. RowsTell'
  <2>1. CASE row' = row
    BY <2>1, RowsTellStays
  <2>2. CASE FlipSummary(r)
    <3>1. PICK x \in job[r].read :
            row' = [row EXCEPT ![x.n] = Written(@, [x.row EXCEPT !.branch = "rolled_back"])]
      BY <2>2 DEF FlipSummary
    <3>2. PICK e : e = Written(row[x.n], [x.row EXCEPT !.branch = "rolled_back"])
      OBVIOUS
    <3>3. x.row \in SummaryRows
      BY <1>1, <3>1 DEF Handlers, Snapshots
    <3>4. e.from = x.row.from /\ e.off = x.row.off
      BY <3>2, <3>3 DEF Written, SummaryRows
    <3>5. Untold(e)
      BY <3>1, <3>4 DEF TellInv, Telling, Untold
    <3>6. row' = [row EXCEPT ![x.n] = e]
      BY <3>1, <3>2
    <3>7. QED
      BY <3>5, <3>6, EscapedStays, RowsTellChanged
  <2>3. QED
    BY <2>1, <2>2 DEF Rollback, BeginRollback, RollNode, ListOfBranch, FlipItem, EndRollback
<1>7. QED
  BY <1>3, <1>5, <1>6, OneTells

LEMMA HistoryTells ==
  ASSUME RunTypeOK, RollInv, TellInv, Grows, NEW r \in Requests, RetrieveHistory(r),
         UNCHANGED refresh
  PROVE  TellInv'
<1>1. /\ job \in [Requests -> Handlers] /\ job[r] \in Handlers
      /\ fold \in [Requests -> [made : BOOLEAN, facts : SUBSET Project, pairs : SUBSET Project]]
  BY DEF RunTypeOK, HandlersOK
<1>2. /\ row' = row /\ gone' = gone /\ spoilt' = spoilt
      /\ \A s \in Requests \ {r} : job'[s] = job[s] /\ fold'[s] = fold[s]
  BY <1>1 DEF RetrieveHistory, ReadPath, ReadEvents, ReadFacts, Fold, FoldTimesOut, Quiet, Proceed
<1>3. Telling(r)
  BY DEF TellInv
<1>4. /\ \A t : Untold(t)' <=> Untold(t)
      /\ \A i : Escaped(i)' <=> Escaped(i)
  BY <1>2 DEF Untold, Escaped
<1>5. SUFFICES Telling(r)'
  BY <1>2, RowsTellStays, OneTells
<1>6. job'[r].plan = job[r].plan /\ job'[r].read = job[r].read
  BY HistoryMoves DEF RunTypeOK
<1>7. /\ \A t \in Entries(job'[r].plan) : Untold(t)'
      /\ \A x \in job'[r].read : Untold(x.row)'
  <2>1. \A t : (t \in Entries(job'[r].plan) \/ \E x \in job'[r].read : t = x.row) => Untold(t)'
    BY <1>3, <1>4, <1>6 DEF Telling
  <2>2. QED
    BY <2>1
<1>8. CASE ReadPath(r)
  <2>1. /\ job[r].at = "idle" /\ job'[r].at \in {"done", "events"} /\ job'[r].nodes = OnPath
        /\ job'[r].off = gone.returned /\ fold' = fold
    BY <1>1, <1>8 DEF ReadPath, Doing, Handlers
  <2>2. OnPath \cap gone.returned \subseteq spoilt.nodes
    BY PathTells
  <2>3. ~fold'[r].made
    BY <1>3, <2>1 DEF Telling
  <2>4. QED
    BY <1>2, <1>7, <2>1, <2>2, <2>3 DEF Telling
<1>9. CASE ReadEvents(r)
  <2>1. /\ job[r].at = "events" /\ job'[r].at \in {"done", "facts"} /\ fold' = fold
        /\ job'[r].nodes = job[r].nodes /\ job'[r].off = job[r].off
    BY <1>1, <1>9 DEF ReadEvents, Proceed, Doing, Handlers
  <2>2. QED
    BY <1>2, <1>3, <1>4, <1>7, <2>1 DEF Telling
<1>10. CASE ReadFacts(r)
  <2>1. /\ job[r].at = "facts" /\ job'[r].at = "provider" /\ fold' = fold
        /\ job'[r].items = Retained(job[r].nodes) /\ job'[r].off = job[r].off
    BY <1>1, <1>10 DEF ReadFacts, Doing, Handlers
  <2>2. \A i \in Retained(job[r].nodes) : NodeOf[i] \in job[r].off => Escaped(i)
    <3>1. job[r].off \subseteq gone.returned /\ job[r].nodes \cap job[r].off \subseteq spoilt.nodes
      BY <1>3, <2>1 DEF Telling
    <3>2. QED
      BY <3>1, RunPathConstants, LateTells DEF Retained
  <2>3. QED
    BY <1>2, <1>3, <1>4, <1>7, <2>1, <2>2 DEF Telling
<1>11. CASE Fold(r)
  <2>1. job[r].at = "provider" /\ job'[r].at = "done" /\ job'[r].off = job[r].off
    BY <1>1, <1>11 DEF Fold, Proceed, Doing, Handlers
  <2>2. fold' = fold \/ \E facts, pairs \in SUBSET job[r].items :
           fold' = [fold EXCEPT ![r] = [made |-> TRUE, facts |-> facts, pairs |-> pairs]]
    BY <1>11, Folds DEF Fold
  <2>3. fold'[r] = fold[r] \/ fold'[r].facts \cup fold'[r].pairs \subseteq job[r].items
    BY <1>1, <2>2
  <2>4. fold'[r].made =>
          \A i \in fold'[r].facts \cup fold'[r].pairs : NodeOf[i] \in job'[r].off => Escaped(i)'
    BY <1>3, <1>4, <2>1, <2>3 DEF Telling
  <2>5. QED
    BY <1>2, <1>3, <1>7, <2>1, <2>4 DEF Telling
<1>12. CASE FoldTimesOut(r)
  <2>1. /\ job[r].at # "idle" /\ job'[r].at = "done" /\ job'[r].off = job[r].off /\ fold' = fold
    BY <1>1, <1>12 DEF FoldTimesOut, Proceed, Handlers
  <2>2. QED
    BY <1>2, <1>3, <1>4, <1>7, <2>1 DEF Telling
<1>13. QED
  BY <1>8, <1>9, <1>10, <1>11, <1>12 DEF RetrieveHistory

LEMMA OthersTell ==
  ASSUME RunTypeOK, TellInv, Grows, UNCHANGED fold,
         (Elsewhere /\ refresh' = refresh) \/ RefreshDies \/ \E r \in Requests : Die(r)
  PROVE  TellInv'
<1>1. /\ job \in [Requests -> Handlers] /\ row \in Seq(SummaryRows)
      /\ fold' = fold
  BY DEF RunTypeOK, HandlersOK
<1>2. CASE Elsewhere /\ refresh' = refresh
  <2>1. RowsTell'
    <3>1. CASE row' = row
      BY <3>1, RowsTellStays
    <3>2. CASE Archive
      <4>1. PICK n \in DOMAIN row : row' = [row EXCEPT ![n].status = "archived"]
        BY <3>2 DEF Archive
      <4>2. PICK e : e = [row[n] EXCEPT !.status = "archived"]
        OBVIOUS
      <4>3. row[n] \in SummaryRows
        BY Parts
      <4>4. e.from = row[n].from /\ e.off = row[n].off
        BY <4>2, <4>3 DEF SummaryRows
      <4>5. Untold(e)
        BY <4>4 DEF TellInv, RowsTell, Entries, Untold
      <4>6. row' = [row EXCEPT ![n] = e]
        BY <4>1, <4>2
      <4>7. QED
        BY <4>5, <4>6, EscapedStays, RowsTellChanged
    <3>3. QED
      BY <1>2, <3>1, <3>2 DEF Elsewhere, AddItem, WriteItemBack, WriteNodeBack
  <2>2. job' = job
    BY <1>2 DEF Elsewhere, AddItem, WriteItemBack, WriteNodeBack, Archive
  <2>3. \A s \in Requests : Telling(s)'
    BY <1>1, <2>2, TellingStays
  <2>4. QED
    BY <1>2, <2>1, <2>3, RefreshTellingStays DEF TellInv
<1>3. CASE RefreshDies
  <2>1. job' = job /\ row' = row /\ refresh' = Resting("episodic")
    BY <1>3 DEF RefreshDies
  <2>2. \A s \in Requests : Telling(s)'
    BY <1>1, <2>1, TellingStays
  <2>3. RefreshTelling'
    BY <2>1 DEF RefreshTelling, Resting, Entries
  <2>4. QED
    BY <2>1, <2>2, <2>3, RowsTellStays DEF TellInv
<1>4. ASSUME NEW r \in Requests, Die(r) PROVE TellInv'
  <2>1. /\ row' = row /\ gone' = gone /\ spoilt' = spoilt /\ refresh' = refresh
        /\ \A s \in Requests \ {r} : job'[s] = job[s]
    BY <1>1, <1>4 DEF Die, Proceed
  <2>2. /\ job'[r].off = job[r].off /\ job'[r].plan = job[r].plan /\ job'[r].read = job[r].read
        /\ job'[r].at = "dead"
    BY <1>1, <1>4 DEF Die, Proceed, Handlers
  <2>3. Telling(r)
    BY DEF TellInv
  <2>4. /\ \A t : Untold(t)' <=> Untold(t)
        /\ \A i : Escaped(i)' <=> Escaped(i)
    BY <2>1 DEF Untold, Escaped
  <2>5. \A t : (t \in Entries(job'[r].plan) \/ \E x \in job'[r].read : t = x.row) => Untold(t)'
    BY <2>2, <2>3, <2>4 DEF Telling
  <2>6. Telling(r)'
    BY <1>1, <2>1, <2>2, <2>3, <2>4, <2>5 DEF Telling
  <2>7. QED
    BY <1>1, <2>1, <2>6, RowsTellStays, OneTells
<1>5. QED
  BY <1>2, <1>3, <1>4

LEMMA RefreshTells ==
  ASSUME RunTypeOK, RollInv, TellInv, Grows, RefreshStep, UNCHANGED fold
  PROVE  TellInv'
<1>1. /\ job \in [Requests -> Handlers] /\ row \in Seq(SummaryRows) /\ refresh \in Refreshes
      /\ gone \in [begun : SUBSET Steps, returned : SUBSET Steps]
  BY DEF RunTypeOK, HandlersOK, RefreshOK
<1>2. UNCHANGED Shared
  BY DEF RefreshStep, ListRuns, CheckMemory, RefreshNodes, RefreshBuild, Recheck,
         RefreshList, RefreshSupersede, RefreshAdd
<1>3. job' = job /\ gone' = gone /\ spoilt' = spoilt /\ fold' = fold
  BY <1>2 DEF Shared
<1>4. \A s \in Requests : Telling(s)'
  BY <1>3, TellingStays
<1>5. RefreshTelling
  BY DEF TellInv
<1>6. \A t : Untold(t)' <=> Untold(t)
  BY <1>3 DEF Untold, Escaped
<1>7. ASSUME Rest PROVE RefreshTelling'
  BY <1>7 DEF Rest, Resting, RefreshTelling, Entries
<1>8. SUFFICES RefreshTelling' /\ RowsTell'
  BY <1>4 DEF TellInv
<1>9. ASSUME refresh'.off \subseteq gone.returned,
             refresh'.at = "build" => refresh'.nodes \cap refresh'.off \subseteq spoilt.nodes,
             \A t \in Entries(refresh'.plan) : Untold(t)
      PROVE  RefreshTelling'
  <2>1. \A t \in Entries(refresh'.plan) : Untold(t)'
    BY <1>6, <1>9
  <2>2. QED
    BY <1>3, <1>9, <2>1 DEF RefreshTelling
<1>10. CASE ListRuns
  <2>1. refresh'.off = gone.returned /\ refresh'.at = "check" /\ refresh'.plan = refresh.plan
    BY <1>1, <1>10 DEF ListRuns, Refreshes
  <2>2. QED
    BY <1>5, <1>9, <1>10, <2>1, RowsTellStays DEF ListRuns, RefreshTelling
<1>11. CASE ~Rest /\ (CheckMemory \/ Recheck \/ RefreshList)
  <2>1. refresh'.off = refresh.off /\ refresh'.at # "build" /\ refresh'.plan = refresh.plan
    BY <1>1, <1>11 DEF CheckMemory, Recheck, RefreshList, Refreshes
  <2>2. row' = row
    BY <1>11 DEF CheckMemory, Recheck, RefreshList
  <2>3. QED
    BY <1>5, <1>9, <2>1, <2>2, RowsTellStays DEF RefreshTelling
<1>12. CASE RefreshNodes
  <2>1. refresh'.off = refresh.off /\ refresh'.nodes = OnPath /\ refresh'.plan = refresh.plan
    BY <1>1, <1>12 DEF RefreshNodes, Refreshes
  <2>2. OnPath \cap refresh.off \subseteq spoilt.nodes
    BY <1>5, PathTells DEF RefreshTelling
  <2>3. QED
    BY <1>5, <1>9, <1>12, <2>1, <2>2, RowsTellStays DEF RefreshNodes, RefreshTelling
<1>13. CASE RefreshBuild /\ ~Rest
  <2> DEFINE built == Summaries("completed", refresh.nodes, refresh.off)
  <2>1. \A t \in Entries(built) : Untold(t)
    BY <1>5, <1>13, SummariesTell DEF RefreshTelling, RefreshBuild
  <2>2. PICK s \in Entries(built) : refresh' = [refresh EXCEPT !.at = "recheck", !.plan = <<s>>]
    BY <1>13 DEF RefreshBuild, Entries
  <2>3. refresh'.off = refresh.off /\ refresh'.at = "recheck" /\ refresh'.plan = <<s>>
    BY <1>1, <2>2 DEF Refreshes
  <2>4. \A t \in Entries(refresh'.plan) : Untold(t)
    BY <2>1, <2>3 DEF Entries
  <2>5. QED
    BY <1>5, <1>9, <1>13, <2>3, <2>4, RowsTellStays DEF RefreshBuild, RefreshTelling
<1>14. CASE RefreshSupersede
  <2>1. PICK x \in refresh.read :
          /\ refresh' = [refresh EXCEPT !.read = refresh.read \ {x}]
          /\ row' = [row EXCEPT ![x.n] =
               IF row[x.n].status = "active" THEN [@ EXCEPT !.status = "superseded"] ELSE @]
    BY <1>14 DEF RefreshSupersede
  <2>2. /\ refresh'.off = refresh.off /\ refresh'.at = "supersede" /\ refresh.at = "supersede"
        /\ refresh'.plan = refresh.plan
    BY <1>1, <1>14, <2>1 DEF RefreshSupersede, Refreshes
  <2>3. RowsTell'
    <3>1. CASE x.n \in DOMAIN row
      <4>1. PICK e : e = IF row[x.n].status = "active"
                         THEN [row[x.n] EXCEPT !.status = "superseded"] ELSE row[x.n]
        OBVIOUS
      <4>2. row[x.n] \in SummaryRows
        BY <3>1, Parts
      <4>3. e.from = row[x.n].from /\ e.off = row[x.n].off
        BY <4>1, <4>2 DEF SummaryRows
      <4>4. Untold(e)
        BY <3>1, <4>3 DEF TellInv, RowsTell, Entries, Untold
      <4>5. row' = [row EXCEPT ![x.n] = e]
        BY <2>1, <4>1
      <4>6. QED
        BY <4>4, <4>5, EscapedStays, RowsTellChanged
    <3>2. CASE x.n \notin DOMAIN row
      <4>1. PICK rows \in Seq(SummaryRows) : rows = row
        BY <1>1
      <4>2. rows = [m \in 1..Len(rows) |-> rows[m]]
        OBVIOUS
      <4>3. row' = row
        BY <2>1, <3>2, <4>1, <4>2
      <4>4. QED
        BY <4>3, RowsTellStays
    <3>3. QED
      BY <3>1, <3>2
  <2>4. QED
    BY <1>5, <1>9, <2>2, <2>3 DEF RefreshTelling
<1>15. CASE RefreshAdd
  <2>1. refresh.plan \in Seq(SummaryRows) /\ refresh.plan # <<>>
    BY <1>1, <1>15 DEF Refreshes, RefreshAdd, RunTypeOK, RefreshOK
  <2>2. PICK x \in SummaryRows : x = Head(refresh.plan) /\ x \in Entries(refresh.plan)
    BY <2>1 DEF Entries
  <2>3. Untold(x)'
    BY <1>5, <1>6, <2>2 DEF RefreshTelling
  <2>4. RowsTell'
    BY <1>15, <2>2, <2>3, RowsTellChanged DEF RefreshAdd
  <2>5. QED
    BY <1>7, <1>15, <2>4 DEF RefreshAdd
<1>16. CASE Rest /\ (CheckMemory \/ Recheck \/ RefreshBuild \/ RefreshList)
  BY <1>7, <1>16, RowsTellStays DEF CheckMemory, Recheck, RefreshBuild, RefreshList
<1>17. QED
  BY <1>10, <1>11, <1>12, <1>13, <1>14, <1>15, <1>16 DEF RefreshStep

LEMMA StartTellsNothing == Init => TellInv
<1> SUFFICES ASSUME Init PROVE TellInv
  OBVIOUS
<1>1. /\ row = <<>> /\ job = [r \in Requests |-> Waiting] /\ refresh = Resting("episodic")
      /\ fold = [r \in Requests |-> NoFold]
  BY DEF Init, PathInit, SummaryInit, FoldInit
<1>2. RowsTell /\ RefreshTelling
  BY <1>1 DEF RowsTell, RefreshTelling, Resting, Entries
<1>3. ASSUME NEW r \in Requests PROVE Telling(r)
  BY <1>1 DEF Telling, Waiting, NoFold, Entries
<1>4. QED
  BY <1>2, <1>3 DEF TellInv

(* Of a step whose rollback had returned before they were begun, a         *)
(* completed run's procedure distils no tool evidence, and the history     *)
(* folded for an agent retains no fact and states no key=value pair,       *)
(* however rollbacks, completions, folds, refreshes, deaths, late items,   *)
(* items and nodes put back interleave: only an item of which both marks   *)
(* are undone, stored late or put back, and its node put back, is told.    *)
(* The project memory a procedure names may be of such a step              *)
(* (summarizer.py, _history_retained_facts, rollback_branch).              *)
THEOREM RolledBackStaysOut == Spec => []BranchStaysOut
<1>1. RunTypeOK /\ AskedOfRun /\ RollInv /\ TellInv /\ [Next]_vars => TellInv'
  <2> SUFFICES ASSUME RunTypeOK, AskedOfRun, RollInv, TellInv, [Next]_vars PROVE TellInv'
    OBVIOUS
  <2>1. Grows
    BY HistoriesGrow
  <2>2. CASE UNCHANGED run
    <3>1. job' = job /\ row' = row /\ refresh' = refresh /\ fold' = fold
      BY <2>2 DEF run
    <3>2. \A r \in Requests : Telling(r)'
      BY <2>1, <3>1, TellingStays
    <3>3. QED
      BY <2>1, <3>1, <3>2, RowsTellStays, RefreshTellingStays DEF TellInv
  <2>3. QED
    BY <2>1, <2>2, StepOfRun, CompletionTells, HistoryTells, RollbackTells, RefreshTells,
       OthersTell
<1>2. TellInv => BranchStaysOut
  BY DEF TellInv, RowsTell, Telling, Entries, Untold, BranchStaysOut, FailureStaysOut,
         FoldStaysOnPath
<1>3. QED
  BY <1>1, <1>2, StartTellsNothing, RunTyped, RolledBack, PTL DEF Spec

-----------------------------------------------------------------------------
(* What a step does to the summaries: it lowers some, or adds one.         *)
Lowers ==
  /\ DOMAIN row' = DOMAIN row
  /\ \A n \in DOMAIN row :
       /\ row'[n].kind = row[n].kind /\ row'[n].tells = row[n].tells
       /\ row'[n].status = "active" => row[n].status = "active"
Adds(x) ==
  /\ DOMAIN row' = 1..(Len(row) + 1) /\ row'[Len(row) + 1] = x
  /\ \A n \in DOMAIN row : row'[n] = row[n]

LEMMA SameLowers ==
  ASSUME row' = row
  PROVE  Lowers
BY DEF Lowers

LEMMA OneLowered ==
  ASSUME RunTypeOK, NEW n, NEW e,
         row' = [row EXCEPT ![n] = e],
         n \in DOMAIN row =>
           /\ e.kind = row[n].kind /\ e.tells = row[n].tells
           /\ e.status = "active" => row[n].status = "active"
  PROVE  Lowers
<1>1. PICK rows \in Seq(SummaryRows) : rows = row
  BY DEF RunTypeOK
<1>2. DOMAIN row' = DOMAIN row /\ \A m \in DOMAIN row : row'[m] = IF m = n THEN e ELSE row[m]
  BY <1>1
<1>3. QED
  BY <1>2 DEF Lowers

LEMMA OneAdded ==
  ASSUME RunTypeOK, NEW x \in SummaryRows, row' = Append(row, x)
  PROVE  Adds(x)
<1>1. PICK rows \in Seq(SummaryRows) : rows = row
  BY DEF RunTypeOK
<1>2. Append(rows, x) \in Seq(SummaryRows)
  BY AppendProperties
<1>3. PICK longer \in Seq(SummaryRows) : longer = Append(rows, x)
  BY <1>2
<1>4. /\ Len(longer) = Len(rows) + 1 /\ longer[Len(rows) + 1] = x
      /\ \A m \in 1..Len(rows) : longer[m] = rows[m]
  BY <1>3, AppendProperties
<1>5. QED
  BY <1>1, <1>3, <1>4 DEF Adds

LEMMA Fitting ==
  ASSUME RunTypeOK, Lowers \/ \E x : Adds(x)
  PROVE  \A y : Fits(y) => Fits(y)'
<1>1. PICK rows \in Seq(SummaryRows) : rows = row
  BY DEF RunTypeOK
<1>2. ASSUME NEW x, Adds(x) PROVE \A n \in DOMAIN row : n \in DOMAIN row' /\ row'[n] = row[n]
  BY <1>1, <1>2 DEF Adds
<1>3. \A n \in DOMAIN row :
        n \in DOMAIN row' /\ row'[n].kind = row[n].kind /\ row'[n].tells = row[n].tells
  BY <1>2 DEF Lowers
<1>4. QED
  BY <1>3 DEF Fits

LEMMA FlipLowers ==
  ASSUME RunTypeOK, FitInv, NEW r \in Requests, FlipSummary(r)
  PROVE  Lowers
<1>1. PICK x \in job[r].read :
        row' = [row EXCEPT ![x.n] = Written(@, [x.row EXCEPT !.branch = "rolled_back"])]
  BY DEF FlipSummary
<1>2. PICK e : e = Written(row[x.n], [x.row EXCEPT !.branch = "rolled_back"])
  OBVIOUS
<1>3. x.row \in SummaryRows /\ Fits(x)
  BY <1>1 DEF FitInv, Completing, RunTypeOK, HandlersOK, Handlers, Snapshots
<1>4. e.kind = x.row.kind /\ e.tells = x.row.tells
  BY <1>2, <1>3 DEF Written, SummaryRows
<1>5. e.status = "active" => row[x.n].status = "active"
  BY <1>2, <1>3 DEF Written, SummaryRows
<1>6. row' = [row EXCEPT ![x.n] = e]
  BY <1>1, <1>2
<1>7. QED
  BY <1>3, <1>4, <1>5, <1>6, OneLowered DEF Fits

LEMMA SupersedeLowers ==
  ASSUME RunTypeOK, FitInv, NEW r \in Requests, SupersedePrior(r)
  PROVE  /\ Lowers
         /\ \E x \in job[r].read : /\ job' = [job EXCEPT ![r].read = job[r].read \ {x}]
                                   /\ x.n \in DOMAIN row /\ row'[x.n].status # "active"
<1>1. PICK x \in job[r].read :
        /\ row' = [row EXCEPT ![x.n] = [x.row EXCEPT !.status = "superseded"]]
        /\ job' = [job EXCEPT ![r].read = job[r].read \ {x}]
  BY DEF SupersedePrior
<1>2. PICK e : e = [x.row EXCEPT !.status = "superseded"]
  OBVIOUS
<1>3. x.row \in SummaryRows /\ Fits(x)
  BY <1>1 DEF FitInv, Completing, RunTypeOK, HandlersOK, Handlers, Snapshots
<1>4. e.kind = x.row.kind /\ e.tells = x.row.tells /\ e.status = "superseded"
  BY <1>2, <1>3 DEF SummaryRows
<1>5. row' = [row EXCEPT ![x.n] = e]
  BY <1>1, <1>2
<1>6. Lowers
  BY <1>3, <1>4, <1>5, OneLowered DEF Fits
<1>7. x.n \in DOMAIN row /\ row'[x.n] = e
  BY <1>3, <1>5 DEF Fits
<1>8. QED
  BY <1>1, <1>4, <1>6, <1>7

LEMMA RefreshLowers ==
  ASSUME RunTypeOK, FitInv, RefreshSupersede
  PROVE  /\ Lowers
         /\ \E x \in refresh.read : /\ refresh' = [refresh EXCEPT !.read = refresh.read \ {x}]
                                    /\ x.n \in DOMAIN row /\ row'[x.n].status # "active"
<1>1. PICK x \in refresh.read :
        /\ refresh' = [refresh EXCEPT !.read = refresh.read \ {x}]
        /\ row' = [row EXCEPT ![x.n] =
             IF row[x.n].status = "active" THEN [@ EXCEPT !.status = "superseded"] ELSE @]
  BY DEF RefreshSupersede
<1>2. PICK e : e = IF row[x.n].status = "active"
                   THEN [row[x.n] EXCEPT !.status = "superseded"] ELSE row[x.n]
  OBVIOUS
<1>3. x.n \in DOMAIN row
  BY <1>1 DEF FitInv, RefreshMaking, Fits
<1>4. row[x.n] \in SummaryRows
  BY <1>3, Parts
<1>5. e.kind = row[x.n].kind /\ e.tells = row[x.n].tells /\ e.status # "active"
  BY <1>2, <1>4 DEF SummaryRows
<1>6. row' = [row EXCEPT ![x.n] = e]
  BY <1>1, <1>2
<1>7. Lowers
  BY <1>5, <1>6, OneLowered
<1>8. row'[x.n] = e
  BY <1>3, <1>6
<1>9. QED
  BY <1>1, <1>3, <1>5, <1>7, <1>8

LEMMA ArchiveLowers ==
  ASSUME RunTypeOK, Archive
  PROVE  Lowers
<1>1. PICK n \in DOMAIN row : row' = [row EXCEPT ![n].status = "archived"]
  BY DEF Archive
<1>2. PICK e : e = [row[n] EXCEPT !.status = "archived"]
  OBVIOUS
<1>3. row[n] \in SummaryRows
  BY Parts
<1>4. e.kind = row[n].kind /\ e.tells = row[n].tells /\ e.status = "archived"
  BY <1>2, <1>3 DEF SummaryRows
<1>5. row' = [row EXCEPT ![n] = e]
  BY <1>1, <1>2
<1>6. QED
  BY <1>4, <1>5, OneLowered

LEMMA RowsFit ==
  ASSUME RunTypeOK, NEW kind, NEW x \in ActiveRows(kind)
  PROVE  Fits(x)
BY DEF ActiveRows, Fits

LEMMA Tells ==
  ASSUME NEW result, NEW nodes, NEW off
  PROVE  \A t \in Entries(Summaries(result, nodes, off)) : t.tells = result
<1>1. Episodic(result, nodes, off).tells = result
  BY DEF Episodic
<1>2. Procedural(nodes, off).tells = "completed"
  BY DEF Procedural
<1>3. \A t \in Entries(Summaries(result, nodes, off)) :
        \/ t = Episodic(result, nodes, off)
        \/ t = Procedural(nodes, off) /\ result = "completed"
  BY DEF Summaries, Distils, Entries
<1>4. QED
  BY <1>1, <1>2, <1>3

LEMMA RestEntries ==
  ASSUME NEW p \in Seq(SummaryRows), p # <<>>
  PROVE  /\ Head(p) \in SummaryRows /\ Tail(p) \in Seq(SummaryRows)
         /\ Entries(Tail(p)) \subseteq Entries(p) /\ Head(p) \in Entries(p)
<1>1. Head(p) \in SummaryRows /\ Tail(p) \in Seq(SummaryRows)
  BY HeadTailProperties
<1>2. QED
  BY <1>1 DEF Entries

LEMMA CompletingStays ==
  ASSUME RunTypeOK, FitInv, setup' = setup, Lowers \/ \E x : Adds(x), NEW r \in Requests,
         \A x \in job'[r].read : x \in job[r].read \/ Fits(x),
         job'[r].at \in {"write", "supersede"} =>
           \A t \in Entries(job'[r].plan) : t.tells = Asks(r).result
  PROVE  Completing(r)'
<1>1. \A y : (\E x \in job'[r].read : x = y) => Fits(y)'
  BY Fitting DEF FitInv, Completing
<1>2. \A x \in job'[r].read : Fits(x)'
  BY <1>1
<1>3. QED
  BY <1>2 DEF Completing, Asks

LEMMA RefreshFitStays ==
  ASSUME RunTypeOK, FitInv, Lowers \/ \E x : Adds(x),
         \A x \in refresh'.read : x \in refresh.read \/ Fits(x),
         refresh'.at \in {"recheck", "list", "supersede"} =>
           Head(refresh'.plan).tells = "completed" /\ Head(refresh'.plan).kind = refresh'.kind
  PROVE  RefreshMaking'
<1>1. \A y : (\E x \in refresh'.read : x = y) => Fits(y)'
  BY Fitting DEF FitInv, RefreshMaking
<1>2. \A x \in refresh'.read : Fits(x)'
  BY <1>1
<1>3. QED
  BY <1>2 DEF RefreshMaking

LEMMA OthersFit ==
  ASSUME RunTypeOK, FitInv, setup' = setup, Lowers \/ \E x : Adds(x), refresh' = refresh,
         NEW r \in Requests, \A s \in Requests \ {r} : job'[s] = job[s], Completing(r)'
  PROVE  FitInv'
<1>1. \A s \in Requests \ {r} : Completing(s)'
  BY CompletingStays DEF FitInv, Completing
<1>2. RefreshMaking'
  BY RefreshFitStays DEF FitInv, RefreshMaking
<1>3. QED
  BY <1>1, <1>2 DEF FitInv

LEMMA CompletionFits ==
  ASSUME RunTypeOK, FitInv, setup' = setup, NEW r \in Requests, CompleteRun(r, Asks(r).result)
  PROVE  FitInv'
<1>1. job \in [Requests -> Handlers] /\ job[r] \in Handlers /\ row \in Seq(SummaryRows)
  BY DEF RunTypeOK, HandlersOK
<1>2. refresh' = refresh /\ \A s \in Requests \ {r} : job'[s] = job[s]
  BY <1>1 DEF CompleteRun, SetRun, ReadNodes, ReadMemories, ListPrior, SupersedePrior,
              AddSummary
<1>3. Completing(r)
  BY DEF FitInv
<1>4. CASE SetRun(r, Asks(r).result) \/ ReadNodes(r)
  <2>1. /\ job'[r].at \in {"nodes of run", "memories"} /\ job'[r].read = job[r].read
        /\ row' = row
    <3>1. CASE SetRun(r, Asks(r).result)
      BY <1>1, <3>1 DEF SetRun, Handlers
    <3>2. CASE ReadNodes(r)
      BY <1>1, <3>2 DEF ReadNodes, Handlers
    <3>3. QED
      BY <1>4, <3>1, <3>2
  <2>2. Completing(r)'
    BY <2>1, SameLowers, CompletingStays
  <2>3. QED
    BY <1>2, <2>1, <2>2, SameLowers, OthersFit
<1>5. CASE ReadMemories(r, Asks(r).result)
  <2> DEFINE plan == Summaries(Asks(r).result, job[r].nodes, job[r].off)
  <2>1. job'[r].plan = plan /\ job'[r].read = job[r].read /\ row' = row
    BY <1>1, <1>5 DEF ReadMemories, Handlers
  <2>2. \A t \in Entries(plan) : t.tells = Asks(r).result
    BY Tells
  <2> HIDE DEF plan
  <2>3. Completing(r)'
    BY <2>1, <2>2, SameLowers, CompletingStays
  <2>4. QED
    BY <1>2, <2>1, <2>3, SameLowers, OthersFit
<1>6. CASE ListPrior(r)
  <2>1. /\ job'[r].plan = job[r].plan /\ job[r].at = "write" /\ row' = row
        /\ job'[r].read = ActiveRows(Head(job[r].plan).kind)
    BY <1>1, <1>6 DEF ListPrior, Doing, Handlers
  <2>2. Completing(r)'
    BY <1>3, <2>1, RowsFit, SameLowers, CompletingStays DEF Completing
  <2>3. QED
    BY <1>2, <2>1, <2>2, SameLowers, OthersFit
<1>7. CASE SupersedePrior(r)
  <2>1. Lowers /\ \E x \in job[r].read : job' = [job EXCEPT ![r].read = job[r].read \ {x}]
    BY <1>7, SupersedeLowers
  <2>2. /\ job'[r].plan = job[r].plan /\ job[r].at = "supersede"
        /\ job'[r].read \subseteq job[r].read
    BY <1>1, <1>7, <2>1 DEF SupersedePrior, Doing, Handlers
  <2>3. Completing(r)'
    BY <1>3, <2>1, <2>2, CompletingStays DEF Completing
  <2>4. QED
    BY <1>2, <2>1, <2>3, OthersFit
<1>8. CASE AddSummary(r)
  <2>1. job[r].plan \in Seq(SummaryRows) /\ job[r].plan # <<>> /\ job[r].at = "supersede"
    BY <1>1, <1>8 DEF AddSummary, Doing, Handlers, RunTypeOK, HandlersOK
  <2>2. job'[r].plan = Tail(job[r].plan) /\ job'[r].read = job[r].read
        /\ row' = Append(row, Head(job[r].plan))
    BY <1>1, <1>8 DEF AddSummary, Handlers
  <2>3. PICK x \in SummaryRows : x = Head(job[r].plan)
    BY <2>1, RestEntries
  <2>4. Adds(x)
    BY <2>2, <2>3, OneAdded
  <2>5. \A t \in Entries(job'[r].plan) : t.tells = Asks(r).result
    BY <1>3, <2>1, <2>2, RestEntries DEF Completing
  <2>6. Completing(r)'
    BY <2>2, <2>4, <2>5, CompletingStays
  <2>7. QED
    BY <1>2, <2>4, <2>6, OthersFit
<1>9. QED
  BY <1>4, <1>5, <1>6, <1>7, <1>8 DEF CompleteRun

LEMMA RollbackFits ==
  ASSUME RunTypeOK, FitInv, setup' = setup, NEW r \in Requests, NEW step, Rollback(r, step),
         refresh' = refresh
  PROVE  FitInv' /\ Lowers
<1>1. HandlersOK /\ job \in [Requests -> Handlers]
  BY DEF RunTypeOK, HandlersOK
<1>2. Lowers
  <2>1. CASE FlipSummary(r)
    BY <2>1, FlipLowers
  <2>2. QED
    BY <2>1, SameLowers DEF Rollback, BeginRollback, RollNode, ListOfBranch, FlipItem, EndRollback
<1>3. /\ job'[r].at \in {"nodes", "flip", "done"}
      /\ job'[r].read \subseteq job[r].read \/ ListOfBranch(r)
      /\ \A s \in Requests \ {r} : job'[s] = job[s]
  BY <1>1, RollbackMoves
<1>4. \A x \in job'[r].read : x \in job[r].read \/ Fits(x)
  <2>1. CASE ListOfBranch(r)
    <3>1. job'[r].read \subseteq {[n |-> n, row |-> row[n]] : n \in DOMAIN row}
      BY <1>1, <2>1 DEF ListOfBranch, Handlers
    <3>2. QED
      BY <3>1 DEF Fits
  <2>2. QED
    BY <1>3, <2>1
<1>5. Completing(r)'
  BY <1>2, <1>3, <1>4, CompletingStays
<1>6. QED
  BY <1>2, <1>3, <1>5, OthersFit

LEMMA OthersLower ==
  ASSUME RunTypeOK, FitInv, setup' = setup, NEW r \in Requests,
         RetrieveHistory(r) \/ Die(r), refresh' = refresh
  PROVE  FitInv' /\ Lowers
<1>1. job \in [Requests -> Handlers] /\ HandlersOK
  BY DEF RunTypeOK, HandlersOK
<1>2. CASE RetrieveHistory(r)
  <2>1. Lowers
    BY <1>2, SameLowers DEF RetrieveHistory, ReadPath, ReadEvents, ReadFacts, Fold, FoldTimesOut,
                            Quiet
  <2>2. job'[r].read = job[r].read /\ \A s \in Requests \ {r} : job'[s] = job[s]
    BY <1>1, <1>2, HistoryMoves
  <2>3. job'[r].at \notin {"write", "supersede"}
    <3>1. CASE ReadPath(r)
      BY <1>1, <3>1 DEF ReadPath, Handlers
    <3>2. CASE ReadFacts(r)
      BY <1>1, <3>2 DEF ReadFacts, Handlers
    <3>3. CASE Proceed(r, "done") \/ Proceed(r, "facts")
      BY <1>1, <3>3 DEF Proceed, Handlers
    <3>4. QED
      BY <1>2, <3>1, <3>2, <3>3 DEF RetrieveHistory, ReadEvents, Fold, FoldTimesOut
  <2>4. Completing(r)'
    BY <2>1, <2>2, <2>3, CompletingStays
  <2>5. QED
    BY <2>1, <2>2, <2>4, OthersFit
<1>3. CASE Die(r)
  <2>1. /\ job'[r].read = job[r].read /\ job'[r].at = "dead" /\ row' = row
        /\ \A s \in Requests \ {r} : job'[s] = job[s]
    BY <1>1, <1>3 DEF Die, Proceed, Handlers
  <2>2. Completing(r)'
    BY <2>1, SameLowers, CompletingStays
  <2>3. QED
    BY <2>1, <2>2, SameLowers, OthersFit
<1>4. QED
  BY <1>2, <1>3

LEMMA ElsewhereLowers ==
  ASSUME RunTypeOK, FitInv, setup' = setup, (Elsewhere /\ refresh' = refresh) \/ RefreshDies
  PROVE  FitInv' /\ Lowers
<1>1. Lowers /\ job' = job
  BY SameLowers, ArchiveLowers DEF Elsewhere, AddItem, WriteItemBack, WriteNodeBack, Archive,
                                   RefreshDies
<1>2. \A s \in Requests : Completing(s)'
  BY <1>1, CompletingStays DEF FitInv, Completing
<1>3. RefreshMaking'
  <2>1. CASE refresh' = refresh
    BY <1>1, <2>1, RefreshFitStays DEF FitInv, RefreshMaking
  <2>2. CASE refresh' = Resting("episodic")
    BY <2>2 DEF Resting, RefreshMaking
  <2>3. QED
    BY <2>1, <2>2 DEF RefreshDies
<1>4. QED
  BY <1>1, <1>2, <1>3 DEF FitInv

LEMMA RefreshFits ==
  ASSUME RunTypeOK, FitInv, setup' = setup, RefreshStep
  PROVE  FitInv' /\ (Lowers \/ RefreshAdd)
<1>1. refresh \in Refreshes /\ row \in Seq(SummaryRows) /\ RefreshMaking /\ RefreshOK
  BY DEF RunTypeOK, RefreshOK, FitInv
<1>2. UNCHANGED Shared
  BY DEF RefreshStep, ListRuns, CheckMemory, RefreshNodes, RefreshBuild, Recheck,
         RefreshList, RefreshSupersede, RefreshAdd
<1>3. job' = job
  BY <1>2 DEF Shared
<1>4. Lowers \/ RefreshAdd
  <2>1. CASE row' = row
    BY <2>1, SameLowers
  <2>2. CASE RefreshSupersede
    BY <2>2, RefreshLowers
  <2>3. QED
    BY <2>1, <2>2 DEF RefreshStep, ListRuns, CheckMemory, RefreshNodes, RefreshBuild, Recheck,
                      RefreshList
<1>5. Lowers \/ \E x : Adds(x)
  <2>1. CASE RefreshAdd
    <3>1. refresh.plan \in Seq(SummaryRows) /\ refresh.plan # <<>>
      BY <1>1, <2>1 DEF Refreshes, RefreshAdd, RefreshOK
    <3>2. PICK x \in SummaryRows : x = Head(refresh.plan)
      BY <3>1, RestEntries
    <3>3. Adds(x)
      BY <2>1, <3>2, OneAdded DEF RefreshAdd
    <3>4. QED
      BY <3>3
  <2>2. QED
    BY <1>4, <2>1
<1>6. \A s \in Requests : Completing(s)'
  BY <1>3, <1>5, CompletingStays DEF FitInv, Completing
<1>7. ASSUME Rest PROVE RefreshMaking'
  BY <1>7 DEF Rest, Resting, RefreshMaking
<1>8. RefreshMaking'
  <2>1. CASE ListRuns \/ RefreshNodes \/ (CheckMemory /\ ~Rest)
    <3>1. refresh'.read = refresh.read /\ refresh'.at \in {"check", "build", "nodes"}
      BY <1>1, <2>1 DEF ListRuns, RefreshNodes, CheckMemory, Refreshes
    <3>2. QED
      BY <1>5, <3>1, RefreshFitStays
  <2>2. CASE RefreshBuild /\ ~Rest
    <3> DEFINE built == Summaries("completed", refresh.nodes, refresh.off)
    <3>1. PICK s \in Entries(built) : /\ refresh' = [refresh EXCEPT !.at = "recheck", !.plan = <<s>>]
                                      /\ s.kind = refresh.kind
      BY <2>2 DEF RefreshBuild, Entries
    <3>2. s.tells = "completed"
      BY <3>1, Tells
    <3>3. refresh'.read = refresh.read /\ refresh'.plan = <<s>> /\ refresh'.kind = refresh.kind
      BY <1>1, <3>1 DEF Refreshes
    <3>4. Head(refresh'.plan) = s
      BY <3>3
    <3>5. QED
      BY <1>5, <3>1, <3>2, <3>3, <3>4, RefreshFitStays
  <2>3. CASE Recheck /\ ~Rest
    <3>1. /\ refresh'.read = refresh.read /\ refresh.at = "recheck"
          /\ refresh'.plan = refresh.plan /\ refresh'.kind = refresh.kind
      BY <1>1, <2>3 DEF Recheck, Refreshes
    <3>2. QED
      BY <1>1, <1>5, <3>1, RefreshFitStays DEF RefreshMaking
  <2>4. CASE RefreshList
    <3>1. /\ refresh'.read = ActiveRows(refresh.kind) /\ refresh.at = "list"
          /\ refresh'.plan = refresh.plan /\ refresh'.kind = refresh.kind
      BY <1>1, <2>4 DEF RefreshList, Refreshes
    <3>2. \A x \in refresh'.read : Fits(x)
      BY <3>1, RowsFit
    <3>3. QED
      BY <1>1, <1>5, <3>1, <3>2, RefreshFitStays DEF RefreshMaking
  <2>5. CASE RefreshSupersede
    <3>1. \E x \in refresh.read : refresh' = [refresh EXCEPT !.read = refresh.read \ {x}]
      BY <2>5 DEF RefreshSupersede
    <3>2. /\ refresh'.read \subseteq refresh.read /\ refresh.at = "supersede"
          /\ refresh'.plan = refresh.plan /\ refresh'.kind = refresh.kind
      BY <1>1, <2>5, <3>1 DEF RefreshSupersede, Refreshes
    <3>3. QED
      BY <1>1, <1>5, <3>2, RefreshFitStays DEF RefreshMaking
  <2>6. QED
    BY <1>7, <2>1, <2>2, <2>3, <2>4, <2>5 DEF RefreshStep, RefreshAdd
<1>9. QED
  BY <1>4, <1>6, <1>8 DEF FitInv

LEMMA StartFits == Init => FitInv
<1> SUFFICES ASSUME Init PROVE FitInv
  OBVIOUS
<1>1. job = [r \in Requests |-> Waiting] /\ refresh = Resting("episodic")
  BY DEF Init, PathInit, SummaryInit
<1>2. QED
  BY <1>1 DEF FitInv, RefreshMaking, Completing, Waiting, Resting

LEMMA Fit == Spec => []FitInv
<1>1. RunTypeOK /\ AskedOfRun /\ FitInv /\ [Next]_vars => FitInv'
  <2> SUFFICES ASSUME RunTypeOK, AskedOfRun, FitInv, [Next]_vars PROVE FitInv'
    OBVIOUS
  <2>1. setup' = setup
    BY StepOfRun
  <2>2. CASE UNCHANGED run
    <3>1. job' = job /\ row' = row /\ refresh' = refresh
      BY <2>2 DEF run
    <3>2. \A r \in Requests : Completing(r)'
      BY <2>1, <3>1, SameLowers, CompletingStays DEF FitInv, Completing
    <3>3. RefreshMaking'
      BY <3>1, SameLowers, RefreshFitStays DEF FitInv, RefreshMaking
    <3>4. QED
      BY <3>2, <3>3 DEF FitInv
  <2>3. \A r \in Requests : Die(r) \/ CompleteRun(r, Asks(r).result) => refresh' = refresh
    BY DEF Die, CompleteRun, SetRun, ReadNodes, ReadMemories, ListPrior, SupersedePrior,
           AddSummary
  <2>4. QED
    BY <2>1, <2>2, <2>3, StepOfRun, CompletionFits, RollbackFits, OthersLower,
       ElsewhereLowers, RefreshFits
<1>2. QED
  BY <1>1, StartFits, RunTyped, PTL DEF Spec

-----------------------------------------------------------------------------
(* One memory of each kind.                                                *)
LEMMA Lowered ==
  ASSUME Lowers
  PROVE  /\ \A k : Active(k)' \subseteq Active(k)
         /\ Single => Single'
         /\ Told /\ outcome' = outcome => Told'
         /\ \A read, kind : Listed(read, kind) => Listed(read, kind)'
<1>1. \A k : Active(k)' \subseteq Active(k)
  BY DEF Lowers, Active
<1>2. Told /\ outcome' = outcome => Told'
  BY <1>1 DEF Told, Lowers, Active
<1>3. \A read, kind : Listed(read, kind) => Listed(read, kind)'
  BY <1>1 DEF Listed
<1>4. QED
  BY <1>1, <1>2, <1>3 DEF Single

LEMMA AllListed ==
  ASSUME NEW kind
  PROVE  Listed(ActiveRows(kind), kind)
<1> SUFFICES ASSUME NEW n \in Active(kind) PROVE \E x \in ActiveRows(kind) : x.n = n
  BY DEF Listed
<1> DEFINE x == [n |-> n, row |-> row[n]]
<1>1. x \in ActiveRows(kind)
  BY DEF Active, ActiveRows
<1>2. QED
  BY <1>1

LEMMA Added ==
  ASSUME RunTypeOK, NEW x, Adds(x), Active(x.kind) = {}
  PROVE  /\ Single => Single'
         /\ \A n \in Active("episodic")' :
              row'[n] = x \/ (n \in Active("episodic") /\ row'[n] = row[n])
         /\ x.kind = "episodic" => \A n \in Active("episodic")' : row'[n] = x
<1>1. PICK rows \in Seq(SummaryRows) : rows = row
  BY DEF RunTypeOK
<1>2. /\ DOMAIN row' = 1..(Len(rows) + 1) /\ row'[Len(rows) + 1] = x
      /\ \A n \in 1..Len(rows) : row'[n] = rows[n]
  BY <1>1 DEF Adds
<1>3. \A n \in DOMAIN row' : n = Len(rows) + 1 \/ (n \in DOMAIN row /\ row'[n] = row[n])
  BY <1>1, <1>2
<1>4. \A k : Active(k)' \subseteq Active(k) \cup {Len(rows) + 1}
  BY <1>3 DEF Active
<1>5. \A k : k # x.kind => Active(k)' \subseteq Active(k)
  BY <1>2, <1>3 DEF Active
<1>6. Active(x.kind)' \subseteq {Len(rows) + 1}
  <2>1. PICK kind : kind = x.kind
    OBVIOUS
  <2>2. Active(kind)' \subseteq {Len(rows) + 1}
    BY <1>4, <2>1
  <2>3. QED
    BY <2>1, <2>2
<1>7. Single => Single'
  <2> SUFFICES ASSUME Single, NEW k \in Kinds, NEW m \in Active(k)', NEW n \in Active(k)'
               PROVE  m = n
    BY DEF Single
  <2>1. CASE k = x.kind
    BY <1>6, <2>1
  <2>2. CASE k # x.kind
    BY <1>5, <2>2 DEF Single
  <2>3. QED
    BY <2>1, <2>2
<1>8. \A n \in Active("episodic")' :
        row'[n] = x \/ (n \in Active("episodic") /\ row'[n] = row[n])
  BY <1>2, <1>3, <1>4 DEF Active
<1>9. x.kind = "episodic" => \A n \in Active("episodic")' : row'[n] = x
  BY <1>2, <1>6
<1>10. QED
  BY <1>7, <1>8, <1>9

LEMMA AloneBesides ==
  ASSUME RunTypeOK, Alone, setup' = setup, outcome' = outcome, refresh' = refresh, Lowers,
         \A s \in Requests : job'[s] = job[s] \/ (~Making(s) /\ ~Making(s)')
  PROVE  Alone'
<1>1. \A s \in Requests : Making(s)' => Making(s) /\ job'[s] = job[s]
  BY DEF Making
<1>2. \A s \in Requests : Making(s) => Making(s)' /\ job'[s] = job[s]
  BY DEF Making
<1>3. ASSUME NEW s \in Requests PROVE HandlerListed(s)'
  <2> SUFFICES ASSUME job'[s].at = "supersede" PROVE HandlerListed(s)'
    BY DEF HandlerListed
  <2>1. job'[s] = job[s]
    BY <1>1 DEF Making
  <2>2. PICK read : read = job[s].read
    OBVIOUS
  <2>3. PICK kind : kind = Head(job[s].plan).kind
    OBVIOUS
  <2>4. Listed(read, kind)'
    BY <2>1, <2>2, <2>3, Lowered DEF Alone, HandlerListed
  <2>5. QED
    BY <2>1, <2>2, <2>3, <2>4 DEF HandlerListed
<1>4. RefreshListed'
  <2>1. PICK read : read = refresh.read
    OBVIOUS
  <2>2. PICK kind : kind = refresh.kind
    OBVIOUS
  <2>3. refresh.at = "supersede" => Listed(read, kind)'
    BY <2>1, <2>2, Lowered DEF Alone, RefreshListed
  <2>4. QED
    BY <2>1, <2>2, <2>3 DEF RefreshListed
<1>5. Single'
  BY Lowered DEF Alone
<1>6. Told' \/ \E s \in Requests : ToTell(s)'
  <2>1. CASE Told
    BY <2>1, Lowered
  <2>2. ASSUME NEW s \in Requests, ToTell(s) PROVE ToTell(s)'
    BY <1>2, <2>2 DEF ToTell
  <2>3. QED
    BY <2>1, <2>2 DEF Alone
<1>7. Refreshing' => outcome' = "completed" /\ \A r \in Requests : ~Making(r)'
  BY <1>1 DEF Alone, Refreshing
<1>8. /\ \A r, s \in Requests : Making(r)' /\ Making(s)' => r = s
      /\ \A r \in Requests : Making(r)' => outcome' = Asks(r).result
  BY <1>1 DEF Alone
<1>9. \A r \in Requests : Asks(r)' = Asks(r)
  BY DEF Asks
<1>10. QED
  BY <1>3, <1>4, <1>5, <1>6, <1>7, <1>8, <1>9 DEF Alone

(* The only maker at work goes on, or is done.                             *)
LEMMA MakerGoesOn ==
  ASSUME RunTypeOK, Alone, setup' = setup, outcome' = outcome, refresh' = refresh,
         NEW r \in Requests, Making(r), \A s \in Requests \ {r} : job'[s] = job[s],
         Single', HandlerListed(r)', Told' \/ ToTell(r)'
  PROVE  Alone'
<1>1. /\ \A s \in Requests \ {r} : ~Making(s) /\ ~Making(s)'
      /\ ~Refreshing /\ outcome = Asks(r).result
  BY DEF Alone, Making
<1>2. \A s \in Requests \ {r} : HandlerListed(s)'
  BY <1>1 DEF Making, HandlerListed
<1>3. RefreshListed' /\ ~Refreshing'
  BY <1>1 DEF Refreshing, RefreshListed
<1>4. \A s \in Requests : Asks(s)' = Asks(s)
  BY DEF Asks
<1>5. /\ \A s, t \in Requests : Making(s)' /\ Making(t)' => s = t
      /\ \A s \in Requests : Making(s)' => outcome' = Asks(s)'.result
  BY <1>1, <1>4
<1>6. QED
  BY <1>2, <1>3, <1>5 DEF Alone

LEMMA CompletionIsAlone ==
  ASSUME RunTypeOK, FitInv, calm => Alone, setup' = setup, NEW r \in Requests,
         CompleteRun(r, Asks(r).result), calm'
  PROVE  Alone'
<1>1. job \in [Requests -> Handlers] /\ job[r] \in Handlers /\ HandlersOK
  BY DEF RunTypeOK, HandlersOK
<1>2. calm /\ Alone
  BY DEF CompleteRun, SetRun, ReadNodes, ReadMemories, ListPrior, SupersedePrior, AddSummary
<1>3. refresh' = refresh /\ \A s \in Requests \ {r} : job'[s] = job[s]
  BY <1>1 DEF CompleteRun, SetRun, ReadNodes, ReadMemories, ListPrior, SupersedePrior,
              AddSummary
<1>4. CASE SetRun(r, Asks(r).result)
  <2>1. /\ outcome' = Asks(r).result /\ row' = row /\ ~Refreshing
        /\ job[r].at = "idle" /\ job'[r].at = "nodes of run"
        /\ \A s \in Requests \ {r} : ~Making(s)
    BY <1>1, <1>2, <1>4 DEF SetRun, Doing, OthersAtWork, Handlers
  <2>2. \A s \in Requests \ {r} : ~Making(s)' /\ HandlerListed(s)'
    BY <1>3, <2>1 DEF Making, HandlerListed
  <2>3. ToTell(r)' /\ HandlerListed(r)'
    BY <2>1 DEF ToTell, Making, HandlerListed
  <2>4. RefreshListed' /\ ~Refreshing'
    BY <1>3, <2>1 DEF RefreshListed, Refreshing
  <2>5. Single'
    BY <1>2, <2>1, SameLowers, Lowered DEF Alone
  <2>6. \A s \in Requests : Asks(s)' = Asks(s)
    BY DEF Asks
  <2>7. /\ \A s, t \in Requests : Making(s)' /\ Making(t)' => s = t
        /\ \A s \in Requests : Making(s)' => outcome' = Asks(s)'.result
    BY <2>1, <2>2, <2>6
  <2>8. QED
    BY <2>2, <2>3, <2>4, <2>5, <2>7 DEF Alone
<1>5. CASE ReadNodes(r)
  <2>1. /\ outcome' = outcome /\ row' = row /\ job[r].at = "nodes of run"
        /\ job'[r].at = "memories"
    BY <1>1, <1>5 DEF ReadNodes, Doing, Handlers
  <2>2. ToTell(r)' /\ HandlerListed(r)' /\ Making(r)
    BY <2>1 DEF ToTell, Making, HandlerListed
  <2>3. Single'
    BY <1>2, <2>1, SameLowers, Lowered DEF Alone
  <2>4. QED
    BY <1>2, <1>3, <2>1, <2>2, <2>3, MakerGoesOn
<1>6. CASE ReadMemories(r, Asks(r).result)
  <2>1. /\ outcome' = outcome /\ row' = row /\ job[r].at = "memories"
        /\ job'[r].at = "write"
        /\ job'[r].plan = Summaries(Asks(r).result, job[r].nodes, job[r].off)
    BY <1>1, <1>6 DEF ReadMemories, Doing, Handlers
  <2>2. Head(job'[r].plan).kind = "episodic"
    BY <2>1 DEF Summaries, Episodic
  <2>3. ToTell(r)' /\ HandlerListed(r)' /\ Making(r)
    BY <2>1, <2>2 DEF ToTell, Making, HandlerListed
  <2>4. Single'
    BY <1>2, <2>1, SameLowers, Lowered DEF Alone
  <2>5. QED
    BY <1>2, <1>3, <2>1, <2>3, <2>4, MakerGoesOn
<1>7. ASSUME job[r].at \in {"write", "supersede"}, job'[r].at \in {"write", "supersede"},
             job'[r].plan = job[r].plan, Lowers, outcome' = outcome
      PROVE  Making(r) /\ Single' /\ (Told' \/ ToTell(r)')
  <2>1. Making(r) /\ Single'
    BY <1>2, <1>7, Lowered DEF Making, Alone
  <2>2. Told \/ ToTell(r)
    BY <1>2, <2>1 DEF Alone, ToTell
  <2>3. ToTell(r) => ToTell(r)'
    BY <1>7 DEF ToTell, Making
  <2>4. QED
    BY <1>7, <2>1, <2>2, <2>3, Lowered
<1>8. CASE ListPrior(r)
  <2>1. /\ outcome' = outcome /\ row' = row /\ job[r].at = "write" /\ job'[r].at = "supersede"
        /\ job'[r].plan = job[r].plan /\ job'[r].read = ActiveRows(Head(job[r].plan).kind)
    BY <1>1, <1>8 DEF ListPrior, Doing, Handlers
  <2>2. HandlerListed(r)'
    <3>1. PICK kind : kind = Head(job[r].plan).kind
      OBVIOUS
    <3>2. PICK read : read = ActiveRows(kind)
      OBVIOUS
    <3>3. Listed(read, kind)
      BY <3>2, AllListed
    <3>4. Listed(read, kind)'
      BY <2>1, <3>3, SameLowers, Lowered
    <3>5. QED
      BY <2>1, <3>1, <3>2, <3>4 DEF HandlerListed
  <2>3. QED
    BY <1>2, <1>3, <1>7, <2>1, <2>2, SameLowers, MakerGoesOn
<1>9. CASE SupersedePrior(r)
  <2>1. PICK x \in job[r].read : /\ job' = [job EXCEPT ![r].read = job[r].read \ {x}]
                                 /\ x.n \in DOMAIN row /\ row'[x.n].status # "active"
    BY <1>9, SupersedeLowers
  <2>2. Lowers
    BY <1>9, SupersedeLowers
  <2>3. /\ outcome' = outcome /\ job[r].at = "supersede" /\ job'[r].at = "supersede"
        /\ job'[r].plan = job[r].plan /\ job'[r].read = job[r].read \ {x}
    BY <1>1, <1>9, <2>1 DEF SupersedePrior, Doing, Handlers
  <2>4. HandlerListed(r)'
    <3>1. PICK kind : kind = Head(job[r].plan).kind
      OBVIOUS
    <3>2. PICK read : read = job[r].read
      OBVIOUS
    <3>3. Listed(read, kind)
      BY <1>2, <2>3, <3>1, <3>2 DEF Alone, HandlerListed
    <3>4. \A n \in Active(kind)' : n # x.n /\ n \in Active(kind)
      BY <2>1, <2>2, Lowered DEF Active
    <3>5. Listed(read \ {x}, kind)'
      BY <3>3, <3>4 DEF Listed
    <3>6. QED
      BY <2>3, <3>1, <3>2, <3>5 DEF HandlerListed
  <2>5. QED
    BY <1>2, <1>3, <1>7, <2>2, <2>3, <2>4, MakerGoesOn
<1>10. CASE AddSummary(r)
  <2>1. job[r].plan \in Seq(SummaryRows) /\ job[r].plan # <<>>
    BY <1>1, <1>10 DEF AddSummary, Doing, Handlers, HandlersOK
  <2>2. /\ outcome' = outcome /\ job[r].at = "supersede" /\ job[r].read = {}
        /\ job'[r].at = (IF job'[r].plan = <<>> THEN "done" ELSE "write")
        /\ row' = Append(row, Head(job[r].plan))
    BY <1>1, <1>10 DEF AddSummary, Doing, Handlers
  <2>3. PICK x \in SummaryRows : x = Head(job[r].plan) /\ x \in Entries(job[r].plan)
    BY <2>1, RestEntries
  <2>4. x.tells = outcome
    <3>1. x.tells = Asks(r).result
      BY <2>2, <2>3 DEF FitInv, Completing
    <3>2. QED
      BY <1>2, <2>2, <3>1 DEF Alone, Making
  <2>5. Adds(x)
    BY <2>2, <2>3, OneAdded
  <2>6. Active(x.kind) = {}
    BY <1>2, <2>2, <2>3 DEF Alone, HandlerListed, Listed
  <2>7. Single'
    BY <1>2, <2>5, <2>6, Added DEF Alone
  <2>8. Told'
    <3>1. CASE x.kind = "episodic"
      BY <2>2, <2>4, <2>5, <2>6, <3>1, Added DEF Told
    <3>2. CASE x.kind # "episodic"
      <4>1. Told
        BY <1>2, <2>2, <2>3, <3>2 DEF Alone, ToTell, Making
      <4>2. QED
        BY <2>2, <2>4, <2>5, <2>6, <4>1, Added DEF Told
    <3>3. QED
      BY <3>1, <3>2
  <2>9. HandlerListed(r)' /\ Making(r)
    BY <2>2 DEF HandlerListed, Making
  <2>10. QED
    BY <1>2, <1>3, <2>2, <2>7, <2>8, <2>9, MakerGoesOn
<1>11. QED
  BY <1>4, <1>5, <1>6, <1>8, <1>9, <1>10 DEF CompleteRun

LEMMA RefreshIsAlone ==
  ASSUME RunTypeOK, FitInv, calm => Alone, setup' = setup, RefreshStep, calm'
  PROVE  Alone'
<1>1. refresh \in Refreshes /\ RefreshOK
  BY DEF RunTypeOK, RefreshOK
<1>2. UNCHANGED Shared
  BY DEF RefreshStep, ListRuns, CheckMemory, RefreshNodes, RefreshBuild, Recheck,
         RefreshList, RefreshSupersede, RefreshAdd
<1>3. job' = job /\ outcome' = outcome
  BY <1>2 DEF Shared
<1>4. calm /\ Alone
  BY DEF RefreshStep, ListRuns, CheckMemory, RefreshNodes, RefreshBuild, Recheck,
         RefreshList, RefreshSupersede, RefreshAdd
<1>5. (\A s \in Requests : ~Making(s)) /\ outcome = "completed" /\ Told
  <2>1. CASE ListRuns
    BY <1>4, <2>1 DEF ListRuns, Alone, ToTell
  <2>2. CASE Refreshing
    BY <1>4, <2>2 DEF Alone, ToTell
  <2>3. QED
    BY <2>1, <2>2 DEF RefreshStep, CheckMemory, RefreshNodes, RefreshBuild, Recheck,
                      RefreshList, RefreshSupersede, RefreshAdd, Refreshing
<1>6. SUFFICES Single' /\ Told' /\ RefreshListed'
  <2>1. \A s \in Requests : ~Making(s)' /\ HandlerListed(s)'
    BY <1>3, <1>5 DEF Making, HandlerListed
  <2>2. QED
    BY <1>3, <1>5, <1>6, <2>1 DEF Alone
<1>7. ASSUME Rest PROVE RefreshListed'
  BY <1>7 DEF Rest, Resting, RefreshListed
<1>8. ASSUME Lowers PROVE Single' /\ Told'
  BY <1>3, <1>4, <1>5, <1>8, Lowered DEF Alone
<1>9. CASE RefreshSupersede
  <2>1. PICK x \in refresh.read : /\ refresh' = [refresh EXCEPT !.read = refresh.read \ {x}]
                                  /\ x.n \in DOMAIN row /\ row'[x.n].status # "active"
    BY <1>9, RefreshLowers
  <2>2. Lowers
    BY <1>9, RefreshLowers
  <2>3. /\ refresh.at = "supersede" /\ refresh'.kind = refresh.kind
        /\ refresh'.read = refresh.read \ {x}
    BY <1>1, <1>9, <2>1 DEF RefreshSupersede, Refreshes
  <2>4. PICK kind : kind = refresh.kind
    OBVIOUS
  <2>5. PICK read : read = refresh.read
    OBVIOUS
  <2>6. Listed(read, kind)
    BY <1>4, <2>3, <2>4, <2>5 DEF Alone, RefreshListed
  <2>7. \A n \in Active(kind)' : n # x.n /\ n \in Active(kind)
    BY <2>1, <2>2, Lowered DEF Active
  <2>8. Listed(read \ {x}, kind)'
    BY <2>6, <2>7 DEF Listed
  <2>9. RefreshListed'
    BY <2>3, <2>4, <2>5, <2>8 DEF RefreshListed
  <2>10. QED
    BY <1>8, <2>2, <2>9
<1>10. CASE RefreshAdd
  <2>1. refresh.plan \in Seq(SummaryRows) /\ refresh.plan # <<>> /\ refresh.at = "supersede"
    BY <1>1, <1>10 DEF Refreshes, RefreshAdd, RefreshOK
  <2>2. PICK x \in SummaryRows : x = Head(refresh.plan)
    BY <2>1, RestEntries
  <2>3. x.tells = "completed" /\ x.kind = refresh.kind
    BY <2>1, <2>2 DEF FitInv, RefreshMaking
  <2>4. Adds(x)
    BY <1>10, <2>2, OneAdded DEF RefreshAdd
  <2>5. Active(x.kind) = {}
    BY <1>4, <1>10, <2>1, <2>3 DEF RefreshAdd, Alone, RefreshListed, Listed
  <2>6. Single'
    BY <1>4, <2>4, <2>5, Added DEF Alone
  <2>7. Told'
    BY <1>3, <1>5, <2>3, <2>4, <2>5, Added DEF Told
  <2>8. QED
    BY <1>7, <1>10, <2>6, <2>7 DEF RefreshAdd
<1>11. CASE RefreshList
  <2>1. /\ row' = row /\ refresh'.read = ActiveRows(refresh.kind)
        /\ refresh'.kind = refresh.kind
    BY <1>1, <1>11 DEF RefreshList, Refreshes
  <2>2. PICK kind : kind = refresh.kind
    OBVIOUS
  <2>3. PICK read : read = ActiveRows(kind)
    OBVIOUS
  <2>4. Listed(read, kind)
    BY <2>3, AllListed
  <2>5. Listed(read, kind)'
    BY <2>1, <2>4, SameLowers, Lowered
  <2>6. RefreshListed'
    BY <2>1, <2>2, <2>3, <2>5 DEF RefreshListed
  <2>7. QED
    BY <1>8, <2>1, <2>6, SameLowers
<1>12. CASE ListRuns \/ CheckMemory \/ RefreshNodes \/ RefreshBuild \/ Recheck
  <2>1. row' = row
    BY <1>12 DEF ListRuns, CheckMemory, RefreshNodes, RefreshBuild, Recheck
  <2>2. Rest \/ refresh'.at # "supersede"
    BY <1>1, <1>12 DEF ListRuns, CheckMemory, RefreshNodes, RefreshBuild, Recheck, Refreshes
  <2>3. RefreshListed'
    BY <1>7, <2>2 DEF RefreshListed
  <2>4. QED
    BY <1>8, <2>1, <2>3, SameLowers
<1>13. QED
  BY <1>9, <1>10, <1>11, <1>12 DEF RefreshStep

LEMMA StartIsAlone == Init => Alone
<1> SUFFICES ASSUME Init PROVE Alone
  OBVIOUS
<1>1. row = <<>> /\ job = [r \in Requests |-> Waiting] /\ refresh = Resting("episodic")
  BY DEF Init, PathInit, SummaryInit
<1>2. \A r \in Requests : ~Making(r) /\ HandlerListed(r)
  BY <1>1 DEF Waiting, Making, HandlerListed
<1>3. ~Refreshing /\ RefreshListed
  BY <1>1 DEF Resting, Refreshing, RefreshListed
<1>4. Single /\ Told
  BY <1>1 DEF Single, Told, Active
<1>5. QED
  BY <1>2, <1>3, <1>4 DEF Alone

LEMMA StaysAlone ==
  ASSUME RunTypeOK, AskedOfRun, FitInv, calm => Alone, [Next]_vars
  PROVE  calm' => Alone'
<1> SUFFICES ASSUME calm' PROVE Alone'
  OBVIOUS
<1>1. setup' = setup /\ job \in [Requests -> Handlers] /\ HandlersOK
  BY StepOfRun DEF RunTypeOK, HandlersOK
<1>2. CASE UNCHANGED run
  BY <1>1, <1>2, SameLowers, AloneBesides DEF run
<1>3. CASE RefreshStep
  BY <1>1, <1>3, RefreshIsAlone
<1>4. CASE RefreshDies
  BY <1>4 DEF RefreshDies
<1>5. CASE Elsewhere /\ UNCHANGED <<refresh, calm, fold>>
  <2>1. Lowers
    BY <1>1, <1>5, ElsewhereLowers
  <2>2. job' = job /\ outcome' = outcome
    BY <1>5 DEF Elsewhere, AddItem, WriteItemBack, WriteNodeBack, Archive
  <2>3. QED
    BY <1>1, <1>5, <2>1, <2>2, AloneBesides
<1>6. ASSUME NEW r \in Requests, CompleteRun(r, Asks(r).result)
      PROVE  Alone'
  BY <1>1, <1>6, CompletionIsAlone
<1>7. ASSUME NEW r \in Requests, Rollback(r, Asks(r).step), UNCHANGED <<refresh, calm, fold>>
      PROVE  Alone'
  <2>1. Lowers
    BY <1>1, <1>7, RollbackFits
  <2>2. outcome' = outcome /\ ~Making(r)
    BY <1>7 DEF Rollback, BeginRollback, RollNode, ListOfBranch, FlipItem, FlipSummary,
                EndRollback, Making, Doing
  <2>3. ~Making(r)' /\ \A s \in Requests \ {r} : job'[s] = job[s]
    BY <1>1, <1>7, RollbackMoves DEF Making
  <2>4. QED
    BY <1>1, <1>7, <2>1, <2>2, <2>3, AloneBesides
<1>8. ASSUME NEW r \in Requests, RetrieveHistory(r), UNCHANGED <<refresh, calm>>
      PROVE  Alone'
  <2>1. Lowers
    BY <1>1, <1>8, OthersLower
  <2>2. outcome' = outcome /\ ~Making(r)
    BY <1>8 DEF RetrieveHistory, ReadPath, ReadEvents, ReadFacts, Fold, FoldTimesOut, Quiet,
                Making, Doing
  <2>3. ~Making(r)'
    <3>1. CASE ReadPath(r)
      BY <1>1, <3>1 DEF ReadPath, Making, Handlers
    <3>2. CASE ReadFacts(r)
      BY <1>1, <3>2 DEF ReadFacts, Making, Handlers
    <3>3. CASE Proceed(r, "done") \/ Proceed(r, "facts")
      BY <1>1, <3>3, ZenonT(30) DEF Proceed, Making, Handlers
    <3>4. QED
      BY <1>8, <3>1, <3>2, <3>3 DEF RetrieveHistory, ReadEvents, Fold, FoldTimesOut
  <2>4. \A s \in Requests \ {r} : job'[s] = job[s]
    BY <1>1, <1>8, HistoryMoves
  <2>5. QED
    BY <1>1, <1>8, <2>1, <2>2, <2>3, <2>4, AloneBesides
<1>9. ASSUME NEW r \in Requests, Die(r)
      PROVE  Alone'
  <2>1. calm /\ ~Making(r) /\ outcome' = outcome /\ refresh' = refresh /\ row' = row
    BY <1>9 DEF Die
  <2>2. ~Making(r)' /\ \A s \in Requests \ {r} : job'[s] = job[s]
    BY <1>1, <1>9 DEF Die, Proceed, Making, Handlers
  <2>3. QED
    BY <1>1, <2>1, <2>2, SameLowers, AloneBesides
<1>10. QED
  BY <1>2, <1>3, <1>4, <1>5, <1>6, <1>7, <1>8, <1>9, StepOfRun

(* While completions and refreshes of a run have not overlapped or died    *)
(* half-way, there is at most one active memory of each kind between them, *)
(* and the episodic one tells how the run ended last, for any number of    *)
(* completions, refreshes, rollbacks and archived summaries (complete_run, *)
(* _supersede_run_summary_key, _refresh_completed_run_memory).             *)
THEOREM OneOfEachKind == Spec => []OneSummary
<1>1. RunTypeOK /\ AskedOfRun /\ FitInv /\ (calm => Alone) /\ [Next]_vars => (calm => Alone)'
  BY StaysAlone
<1>2. Init => (calm => Alone)
  BY StartIsAlone
<1>3. (calm => Alone) => OneSummary
  <2> SUFFICES ASSUME Alone, \A r \in Requests : ~Making(r)
               PROVE  /\ \A k \in Kinds : Cardinality(ActiveRows(k)) <= 1
                      /\ \A x \in ActiveRows("episodic") : x.row.tells = outcome
    BY DEF OneSummary
  <2>1. Told
    BY DEF Alone, ToTell
  <2>2. \A x \in ActiveRows("episodic") : x.row.tells = outcome
    BY <2>1 DEF Told, Active, ActiveRows
  <2>3. ASSUME NEW k \in Kinds PROVE Cardinality(ActiveRows(k)) <= 1
    <3>1. \A x, y \in ActiveRows(k) : x = y
      BY DEF Alone, Single, Active, ActiveRows
    <3>2. CASE ActiveRows(k) = {}
      BY <3>2, FS_EmptySet
    <3>3. CASE ActiveRows(k) # {}
      <4>1. PICK x : ActiveRows(k) = {x}
        BY <3>1, <3>3
      <4>2. Cardinality({x}) = 1
        BY FS_Singleton
      <4>3. QED
        BY <4>1, <4>2
    <3>4. QED
      BY <3>2, <3>3
  <2>4. QED
    BY <2>2, <2>3
<1>4. QED
  BY <1>1, <1>2, <1>3, RunTyped, Fit, PTL DEF Spec

(* The tables of the server, the gate's and the run's, are always well     *)
(* formed, and so are what its handlers and the refresh hold of them       *)
(* (storage/sql_repository.py, runtime/memory_runtime.py).                 *)
THEOREM ServerTypeCorrect == Spec => []TypeOK
<1>1. GateTypeOK /\ RunTypeOK => TypeOK
  <2> SUFFICES ASSUME GateTypeOK, RunTypeOK PROVE TypeOK
    OBVIOUS
  <2>1. \A n \in DOMAIN row : row[n] \in SummaryRows
    BY Parts
  <2>2. \A r \in Requests : fold[r].facts \cup fold[r].pairs \subseteq Project
    BY DEF RunTypeOK
  <2>3. QED
    BY <2>1, <2>2 DEF RunTypeOK, TypeOK
<1>2. QED
  BY <1>1, TypeCorrect, RunTyped, PTL
=============================================================================
