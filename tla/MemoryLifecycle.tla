--------------------------- MODULE MemoryLifecycle ---------------------------
(***************************************************************************)
(* One memory row and the requests that read it, think, and write it back: *)
(* the audited status changes of administrators and of the maintenance     *)
(* scheduler (apps/api/app/memory/lifecycle.py and scheduler.py), the      *)
(* whole-row updates of the write path and of the two index jobs, and the  *)
(* access counter of retrieval.  Each write is one transaction holding the *)
(* row lock (update_memory, transition_memory_with_audit and               *)
(* bump_memory_access of storage/sql_repository.py); between the read and  *)
(* the write of a request any other request may run.                       *)
(*                                                                         *)
(* Every operation treats the memories it lists one after the other, so    *)
(* one row shows all that happens to each of them.  `body' stands for the  *)
(* versioned fields an update changes, `tagged' for the index marks in     *)
(* lifecycle_metadata; superseded_by travels with the status and is left   *)
(* out, and so are scores, embeddings and dates.                           *)
(***************************************************************************)
EXTENDS Integers, FiniteSets

CONSTANTS
  Updaters,   \* requests that end in update_memory
  Movers,     \* requests that end in transition_memory_with_audit
  Bumpers,    \* retrievals that accept the memory
  Bodies      \* what the versioned content may be

MemoryStatus == {"active", "dormant", "archived", "deleted", "pinned",
                 "conflicted", "quarantined", "superseded"}
Retrievable == {"active", "pinned", "conflicted", "quarantined"}
SafeUnpin == {"active", "dormant", "archived"}
Pinnable == {"active", "dormant", "archived"}
UpdateJobs == {"flip", "fold", "retire", "conflict", "reindex", "tag"}
MoveJobs == {"admin", "decay", "archive", "quarantine", "supersede"}
Requests == Updaters \cup Movers \cup Bumpers

ASSUME LifecycleConstants ==
  /\ Updaters \cap Movers = {} /\ Updaters \cap Bumpers = {}
  /\ Movers \cap Bumpers = {}
  /\ IsFiniteSet(Bumpers)
  /\ Bodies # {}

Rows == [status : MemoryStatus, prev : MemoryStatus \cup {"none"},
         tagged : BOOLEAN, body : Bodies, access : Nat]
Jobs == [kind : UpdateJobs \cup MoveJobs \cup {"none"},
         to : MemoryStatus \cup {"none"}, body : Bodies]

VARIABLES
  row,      \* the memory row
  version,  \* the newest version snapshot, or the row as it was added
  pc,       \* pc[x]: "idle", "read" (about to write) or "done"
  copy,     \* copy[x]: the row as request x read it
  job,      \* job[x]: what request x does with it
  bumped    \* history: the bumps that were committed

vars == <<row, version, pc, copy, job, bumped>>

(* add_memory: the resolver may add a memory that lost or tied at once.    *)
NewRow(s, b) == [status |-> s, prev |-> "none", tagged |-> FALSE,
                 body |-> b, access |-> 0]
NoJob(b) == [kind |-> "none", to |-> "none", body |-> b]

Init ==
  /\ \E s \in {"active", "conflicted", "superseded"}, b \in Bodies :
       /\ row = NewRow(s, b)
       /\ job = [x \in Requests |-> NoJob(b)]
  /\ version = row
  /\ pc = [x \in Requests |-> "idle"]
  /\ copy = [x \in Requests |-> row]
  /\ bumped = {}

-----------------------------------------------------------------------------
(* Versions.                                                               *)

(* _VERSIONED_FIELDS: everything but the access bookkeeping.               *)
SameVersion(r, q) ==
  /\ r.status = q.status /\ r.prev = q.prev
  /\ r.tagged = q.tagged /\ r.body = q.body

NextVersion(before, after) ==
  IF SameVersion(before, after) THEN version ELSE after

-----------------------------------------------------------------------------
(* Whole-row updates.                                                      *)

(* Which memories a job picks from its listing.                            *)
UpdatePicks(k) ==
  /\ k \in {"fold", "retire", "conflict"} => row.status = "active"
  /\ k = "tag" => row.status \in Retrievable /\ ~ row.tagged

ReadToUpdate(u, k, b) ==
  /\ pc[u] = "idle"
  /\ UpdatePicks(k)
  /\ k \notin {"flip", "fold"} => b = row.body
  /\ copy' = [copy EXCEPT ![u] = row]
  /\ job' = [job EXCEPT ![u] = [kind |-> k, to |-> "none", body |-> b]]
  /\ pc' = [pc EXCEPT ![u] = "read"]
  /\ UNCHANGED <<row, version, bumped>>

(* What the job hands to update_memory.                                    *)
Incoming(c, j) ==
  CASE j.kind = "retire"   -> [c EXCEPT !.status = "superseded"]
    [] j.kind = "conflict" -> [c EXCEPT !.status = "conflicted"]
    [] j.kind = "tag"      -> [c EXCEPT !.tagged = TRUE]
    [] OTHER               -> [c EXCEPT !.body = j.body]

\* Mutant of Preserved: a stale copy wins.
CopyWins(before, incoming) == [incoming EXCEPT !.access = before.access]

\* Mutant of Preserved: the status is kept, lifecycle_metadata is not.
StatusKept(before, incoming) ==
  [incoming EXCEPT !.access = before.access,
     !.status = IF @ = "active" THEN before.status ELSE @]

\* Mutant of Preserved: access bookkeeping comes from the copy.
AccessCopied(before, incoming) ==
  IF before.status # "active" /\ incoming.status = "active"
  THEN [incoming EXCEPT !.status = before.status, !.prev = before.prev,
                        !.tagged = before.tagged]
  ELSE incoming

(* Access bookkeeping is always the row's; the lifecycle fields are the    *)
(* row's when a copy read while the row was active meets one that is not.  *)
Preserved(before, incoming) ==
  IF before.status # "active" /\ incoming.status = "active"
  THEN [incoming EXCEPT !.status = before.status, !.prev = before.prev,
                        !.tagged = before.tagged, !.access = before.access]
  ELSE [incoming EXCEPT !.access = before.access]

\* Mutant of UpdateMemory: the version is taken before fields are preserved.
VersionFirst(u) ==
  LET incoming == Incoming(copy[u], job[u])
  IN  /\ pc[u] = "read"
      /\ row' = Preserved(row, incoming)
      /\ version' = NextVersion(row, incoming)
      /\ pc' = [pc EXCEPT ![u] = "done"]
      /\ UNCHANGED <<copy, job, bumped>>

UpdateMemory(u) ==
  LET after == Preserved(row, Incoming(copy[u], job[u]))
  IN  /\ pc[u] = "read"
      /\ row' = after
      /\ version' = NextVersion(row, after)
      /\ pc' = [pc EXCEPT ![u] = "done"]
      /\ UNCHANGED <<copy, job, bumped>>

-----------------------------------------------------------------------------
(* Audited status changes.                                                 *)

CanMove(from, to) ==
  \/ to = "pinned" /\ from \in Pinnable
  \/ from = "pinned" /\ to = "active"
  \/ <<from, to>> \in {<<"active", "dormant">>, <<"dormant", "archived">>,
                       <<"archived", "deleted">>, <<"conflicted", "superseded">>,
                       <<"active", "conflicted">>, <<"active", "quarantined">>,
                       <<"active", "superseded">>}

(* transition_memory_status: the copy it returns.                          *)
Moved(c, to) ==
  CASE to = "pinned" -> [c EXCEPT !.status = "pinned", !.prev = c.status]
    [] c.status = "pinned" /\ to = "active" ->
         [c EXCEPT !.status = IF c.prev \in SafeUnpin THEN c.prev ELSE "active"]
    [] OTHER -> [c EXCEPT !.status = to]

(* An administrator may ask for any status; a scheduler job picks the      *)
(* memories it judges, whatever their retention score, by their status.    *)
(* Duplicates and replaced run summaries are superseded.                   *)
MovePicks(k, s, to) ==
  \/ k = "admin"
  \/ k = "decay" /\ s = "active" /\ to = "dormant"
  \/ k = "archive" /\ <<s, to>> \in {<<"active", "dormant">>, <<"dormant", "archived">>}
  \/ k = "quarantine" /\ s = "active" /\ to = "quarantined"
  \/ k = "supersede" /\ s = "active" /\ to = "superseded"

ReadToMove(m, k, to) ==
  /\ pc[m] = "idle"
  /\ MovePicks(k, row.status, to) /\ CanMove(row.status, to)
  /\ copy' = [copy EXCEPT ![m] = row]
  /\ job' = [job EXCEPT ![m] = [@ EXCEPT !.kind = k, !.to = to]]
  /\ pc' = [pc EXCEPT ![m] = "read"]
  /\ UNCHANGED <<row, version, bumped>>

\* Mutant of Fresh: no compare, only set.
AlwaysFresh(m) == TRUE

(* The compare-and-set of transition_memory_with_audit.                    *)
Fresh(m) == row.status = copy[m].status

(* archive_memory goes on from dormant to archived with its own copy.      *)
GoesOn(m) == job[m].kind = "archive" /\ job[m].to = "dormant"

TransitionWithAudit(m) ==
  LET moved == Moved(copy[m], job[m].to)
      after == [row EXCEPT !.status = moved.status, !.prev = moved.prev,
                           !.tagged = moved.tagged]
  IN  /\ pc[m] = "read" /\ Fresh(m)
      /\ row' = after
      /\ version' = NextVersion(row, after)
      /\ IF GoesOn(m)
         THEN /\ copy' = [copy EXCEPT ![m] = moved]
              /\ job' = [job EXCEPT ![m].to = "archived"]
              /\ UNCHANGED pc
         ELSE /\ pc' = [pc EXCEPT ![m] = "done"]
              /\ UNCHANGED <<copy, job>>
      /\ UNCHANGED bumped

(* "stale lifecycle transition": nothing is written.                       *)
StaleTransition(m) ==
  /\ pc[m] = "read" /\ ~ Fresh(m)
  /\ pc' = [pc EXCEPT ![m] = "done"]
  /\ UNCHANGED <<row, version, copy, job, bumped>>

-----------------------------------------------------------------------------
(* One UPDATE ... SET access_count = access_count + 1.                     *)
BumpAccess(b) ==
  /\ pc[b] = "idle"
  /\ row' = [row EXCEPT !.access = @ + 1]
  /\ pc' = [pc EXCEPT ![b] = "done"]
  /\ bumped' = bumped \cup {b}
  /\ UNCHANGED <<version, copy, job>>

Next ==
  \/ \E u \in Updaters :
       \/ \E k \in UpdateJobs, b \in Bodies : ReadToUpdate(u, k, b)
       \/ UpdateMemory(u)
  \/ \E m \in Movers :
       \/ \E k \in MoveJobs, to \in MemoryStatus : ReadToMove(m, k, to)
       \/ TransitionWithAudit(m)
       \/ StaleTransition(m)
  \/ \E b \in Bumpers : BumpAccess(b)

Spec == Init /\ [][Next]_vars

-----------------------------------------------------------------------------
(* Every variable holds values of its kind: one row, one snapshot, and for *)
(* each request where it stands, what it read and what it is doing.        *)
TypeOK ==
  /\ row \in Rows /\ version \in Rows
  /\ pc \in [Requests -> {"idle", "read", "done"}]
  /\ copy \in [Requests -> Rows]
  /\ job \in [Requests -> Jobs]
  /\ bumped \subseteq Bumpers

(* The newest version snapshot, or the row as it was added, is what the    *)
(* row now holds in its versioned fields: update_memory decides on a       *)
(* version, and takes it, after it has put back the fields it preserves.   *)
HistoryIsRow == SameVersion(version, row)

(* access_count is the number of committed bumps: no whole-row update from *)
(* a copy read before a bump takes it back.                                *)
NoAccessLost == row.access = Cardinality(bumped)

(* While a memory is pinned its row remembers a status an unpin may        *)
(* restore, whichever stale copies were written over it since.             *)
PinRemembersStatus == row.status = "pinned" => row.prev \in SafeUnpin

(* A memory that left `active' comes back to it by an audited unpin only,  *)
(* never by an update_memory with a copy read while it was active.         *)
NoReactivation ==
  [][row.status # "active" /\ row'.status = "active"
     => row.status = "pinned" /\ \E m \in Movers : TransitionWithAudit(m)]_vars

(* No decision the scheduler took before an administrator pinned a memory  *)
(* moves it out of `pinned'.                                               *)
SchedulerSparesPins ==
  [][\A m \in Movers :
       row.status = "pinned" /\ TransitionWithAudit(m) => job[m].kind = "admin"]_vars

(* update_memory never moves a memory to a status its caller did not mean  *)
(* to set: a rollback's flip, a fold or an index job that leaves the       *)
(* status of its copy alone leaves that of the row alone.  The code        *)
(* violates it for copies that were not active.                            *)
OrdinaryUpdateKeepsStatus ==
  [][\A u \in Updaters :
       UpdateMemory(u) /\ job[u].kind \in {"flip", "fold", "reindex", "tag"}
       => row'.status = row.status]_vars
=============================================================================
