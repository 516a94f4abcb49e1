---------------------------- MODULE ConflictReview ----------------------------
(***************************************************************************)
(* The memories of one single-valued key and scope of a workspace, and all *)
(* that judges them: the write path, which resolves an incoming memory     *)
(* against the active ones (memory/resolver.py, with the rules of          *)
(* memory/conflict_policy.py) and scans for conflicts after it; the        *)
(* maintenance conflict scan and deduplication (memory/scheduler.py); and  *)
(* the administrators who close conflict records (api/admin_routes.py).    *)
(* Every read of a list and every write of a row is a transaction of its   *)
(* own (storage/sql_repository.py), and the others run between them.       *)
(*                                                                         *)
(* Memories are numbered in the order they are created.  A conflict is     *)
(* named by its members: conflict_id is a digest of the workspace, the key *)
(* and the sorted member ids (detect_memory_conflicts).  Scores other than *)
(* trust, texts, versions and audits are left out.                         *)
(***************************************************************************)
EXTENDS Integers, FiniteSets, FiniteSetsExt

CONSTANTS
  Memories,   \* the memories that may be written, numbers from 1
  Values,     \* normalised values
  Standing,   \* Standing[m]: the signals of rules R4, R5, R6 and R2
  Trust,      \* Trust[m]: the trust score a memory is created with
  Writers, Scanners, Cleaners, Reviewers,
  Read,       \* bound: the memories a retrieval may accept
  Ageing,     \* bound: the memories that may go dormant
  MaxClock    \* bound: how often updated_at can tell two writes apart

None == 0
Judges == Writers \cup Cleaners \cup Reviewers
Processes == Judges \cup Scanners

ASSUME ReviewConstants ==
  /\ Memories \subseteq Nat \ {None} /\ IsFiniteSet(Memories)
  /\ Standing \in [Memories -> [1..4 -> Nat]]
  /\ Trust \in [Memories -> Nat]
  /\ Values # {} /\ MaxClock \in Nat /\ Read \cup Ageing \subseteq Memories

Statuses == {"absent", "active", "conflicted", "superseded", "dormant"}
Rows == [status : Statuses, by : Memories \cup {None}, value : Values,
         trust : Nat, upd : 0..MaxClock]
ConflictIds == SUBSET Memories
Detectors == {"runtime_write_path", "maintenance_conflict_scan_v1"}
Records == [status : {"none", "open", "resolved", "resolved_false_positive",
                      "resolved_choose_winner"},
            detector : Detectors]

VARIABLES
  row,      \* row[m]: the memory row
  conf,     \* conf[c]: the record of the conflict among c
  made,     \* how many memories have been created, stored or not
  clock,    \* what updated_at is set to
  job,      \* job[p]: what process p is doing, see Jobs
  clean     \* history: no decision was cut short or ran into another

vars == <<row, conf, made, clock, job, clean>>

(* What a process knows: the rows it will write or has read, the memories  *)
(* it still has to write, the conflict it reviews or found in its scan,    *)
(* the records it is about to close as stale, and the memory it adds or    *)
(* lets win.                                                               *)
Jobs == [at : {"idle", "writing", "retiring", "scanning", "listing", "upserting",
               "closing", "reading"},
         copy : [Memories -> Rows], todo : SUBSET Memories,
         subject : ConflictIds, stale : SUBSET ConflictIds,
         winner : Memories \cup {None}]

Live(rows) == {m \in Memories : rows[m].status \in {"active", "conflicted"}}
Present(rows) == {m \in Memories : rows[m].status # "absent"}

AnyValue == CHOOSE v \in Values : TRUE
Absent(m) == [status |-> "absent", by |-> None, value |-> AnyValue,
              trust |-> Trust[m], upd |-> 0]
Only(rows, S) == [m \in Memories |-> IF m \in S THEN rows[m] ELSE Absent(m)]
Idle == [at |-> "idle", copy |-> [m \in Memories |-> Absent(m)], todo |-> {},
         subject |-> {}, stale |-> {}, winner |-> None]

Init ==
  /\ row = [m \in Memories |-> Absent(m)]
  /\ conf = [c \in ConflictIds |->
               [status |-> "none", detector |-> "runtime_write_path"]]
  /\ made = 0 /\ clock = 0
  /\ job = [p \in Processes |-> Idle]
  /\ clean = TRUE

At(p, where) == job[p].at = where
Deciding(p) == job[p].at \in {"writing", "retiring"}
Finish(p) == job' = [job EXCEPT ![p] = Idle]
Alone(p) == \A q \in Judges \ {p} : ~ Deciding(q)

-----------------------------------------------------------------------------
(* The policy: rule by rule, the larger signal is the stronger.            *)

Signal(rows, m) ==
  [i \in 1..6 |-> CASE i <= 4 -> Standing[m][i]
                    [] i = 5  -> rows[m].trust
                    [] OTHER  -> rows[m].upd]

Beats(rows, m, n) ==
  \E i \in 1..6 :
    /\ Signal(rows, m)[i] > Signal(rows, n)[i]
    /\ \A j \in 1..(i - 1) : Signal(rows, m)[j] = Signal(rows, n)[j]

Tied(rows, C) == {m \in C : \A n \in C : ~ Beats(rows, n, m)}

(* A single top supersedes the others; tied tops are all marked conflicted *)
(* and the weaker ones point to the smallest of them (rule R3).            *)
Adjudicated(rows, C, at) ==
  LET top == Tied(rows, C)
  IN  [m \in Memories |->
         IF m \in C \ top
         THEN [rows[m] EXCEPT !.status = "superseded", !.by = Min(top), !.upd = at]
         ELSE IF m \in top /\ Cardinality(top) > 1
         THEN [rows[m] EXCEPT !.status = "conflicted", !.upd = at]
         ELSE rows[m]]

-----------------------------------------------------------------------------
(* The write path.                                                         *)

Strongest(rows, S) ==
  CHOOSE m \in S : \A n \in S \ {m} :
    \/ rows[m].trust > rows[n].trust
    \/ rows[m].trust = rows[n].trust /\ m < n

(* resolve: an incoming memory that repeats a value is folded into the     *)
(* strongest active memory that has it; then the policy decides between    *)
(* the one that stands for the value and the active ones that differ.      *)
Same(rows, m, A) == {n \in A : rows[n].value = rows[m].value}

Standin(rows, m, A) ==
  IF Same(rows, m, A) = {} THEN m ELSE Strongest(rows, Same(rows, m, A))

Folded(rows, m, A, at) ==
  LET same == Same(rows, m, A)
      primary == Standin(rows, m, A)
  IN  [n \in Memories |->
         IF n = primary /\ same # {}
         THEN [rows[n] EXCEPT !.trust = Max({rows[k].trust : k \in same \cup {m}}),
                              !.upd = at]
         ELSE IF n \in same
         THEN [rows[n] EXCEPT !.status = "superseded", !.by = primary, !.upd = at]
         ELSE rows[n]]

Resolved(rows, m, A, at) ==
  LET folded == Folded(rows, m, A, at)
      C == {Standin(rows, m, A)} \cup (A \ Same(rows, m, A))
  IN  IF Cardinality(C) = 1 THEN folded ELSE Adjudicated(folded, C, at)

(* Every active memory is the stand-in, a repetition of it or a candidate. *)
Write(w, v) ==
  LET m == made + 1
      rows == [row EXCEPT ![m] = [status |-> "active", by |-> None, value |-> v,
                                  trust |-> Trust[m], upd |-> clock]]
      A == {n \in Memories : row[n].status = "active"}
  IN  /\ At(w, "idle") /\ m \in Memories
      /\ made' = m
      /\ job' = [job EXCEPT ![w] =
                   [Idle EXCEPT !.at = "writing", !.todo = A,
                      !.copy = Only(Resolved(rows, m, A, clock), A \cup {m}),
                      !.winner = IF Same(rows, m, A) = {} THEN m ELSE None]]
      /\ clean' = (clean /\ Alone(w))
      /\ UNCHANGED <<row, conf, clock>>

(* update_memory keeps the lifecycle fields of a row that stopped being    *)
(* active after it was read (_preserved_lifecycle_fields).                 *)
Preserved(now, new) ==
  IF now.status # "active" /\ new.status = "active"
  THEN [new EXCEPT !.status = now.status, !.by = now.by]
  ELSE new

WriteBack(w) ==
  /\ At(w, "writing")
  /\ \E m \in job[w].todo :
       /\ row' = [row EXCEPT ![m] = Preserved(row[m], job[w].copy[m])]
       /\ job' = [job EXCEPT ![w].todo = @ \ {m}, ![w].copy[m] = Absent(m)]
  /\ UNCHANGED <<conf, made, clock, clean>>

AddMemory(w) ==
  LET m == job[w].winner
  IN  /\ At(w, "writing") /\ job[w].todo = {}
      /\ row' = IF m = None THEN row ELSE [row EXCEPT ![m] = job[w].copy[m]]
      /\ job' = [job EXCEPT ![w] = [Idle EXCEPT !.at = "scanning"]]
      /\ UNCHANGED <<conf, made, clock, clean>>

(* A worker or a request dies between two writes of one decision.          *)
Crash(p) ==
  /\ Deciding(p)
  /\ Finish(p)
  /\ clean' = FALSE
  /\ UNCHANGED <<row, conf, made, clock>>

-----------------------------------------------------------------------------
(* Conflict scans: of the write path after each write, and of maintenance. *)

Detector(p) ==
  IF p \in Scanners THEN "maintenance_conflict_scan_v1" ELSE "runtime_write_path"

(* detect_memory_conflicts, of one key: the live memories, if they differ. *)
Detected(rows) ==
  IF Cardinality({rows[m].value : m \in Live(rows)}) > 1 THEN Live(rows) ELSE {}

\* Mutant of Outdated: every detector closes the write path's records.
OutdatedOfOther(p) ==
  {c \in ConflictIds \ {job[p].subject} :
     conf[c].status = "open" /\ conf[c].detector = "runtime_write_path"}

Outdated(p) ==
  {c \in ConflictIds \ {job[p].subject} :
     conf[c].status = "open" /\ conf[c].detector = Detector(p)}

(* The maintenance scan lists its open records before it upserts, the      *)
(* write path after.                                                       *)
ListMemories(p) ==
  /\ At(p, IF p \in Scanners THEN "idle" ELSE "scanning")
  /\ job' = [job EXCEPT ![p] =
               [@ EXCEPT !.subject = Detected(row),
                         !.at = IF p \in Scanners THEN "listing" ELSE "upserting"]]
  /\ UNCHANGED <<row, conf, made, clock, clean>>

ListOpen(p) ==
  /\ At(p, "listing")
  /\ job' = [job EXCEPT ![p] =
               [@ EXCEPT !.stale = Outdated(p),
                         !.at = IF p \in Scanners THEN "upserting" ELSE "closing"]]
  /\ UNCHANGED <<row, conf, made, clock, clean>>

\* Mutant of Upsert: a record that exists is left as it is.
InsertOnly(p) ==
  LET c == job[p].subject
  IN  /\ At(p, "upserting")
      /\ conf' = IF c = {} \/ conf[c].status # "none" THEN conf
                 ELSE [conf EXCEPT ![c] = [status |-> "open", detector |-> Detector(p)]]
      /\ job' = [job EXCEPT ![p].at = IF p \in Scanners THEN "closing" ELSE "listing"]
      /\ UNCHANGED <<row, made, clock, clean>>

Upsert(p) ==
  LET c == job[p].subject
  IN  /\ At(p, "upserting")
      /\ conf' = IF c = {} THEN conf
                 ELSE [conf EXCEPT ![c] = [status |-> "open", detector |-> Detector(p)]]
      /\ job' = [job EXCEPT ![p].at = IF p \in Scanners THEN "closing" ELSE "listing"]
      /\ UNCHANGED <<row, made, clock, clean>>

CloseStale(p) ==
  /\ At(p, "closing")
  /\ \/ /\ job[p].stale = {}
        /\ Finish(p) /\ UNCHANGED conf
     \/ \E c \in job[p].stale :
          /\ conf' = [conf EXCEPT ![c] = [status |-> "resolved",
                                         detector |-> Detector(p)]]
          /\ job' = [job EXCEPT ![p].stale = @ \ {c}]
  /\ UNCHANGED <<row, made, clock, clean>>

(* A worker or a request dies in the middle of its scan.                   *)
ScanDies(p) ==
  /\ job[p].at \in {"scanning", "listing", "upserting", "closing"}
  /\ Finish(p)
  /\ UNCHANGED <<row, conf, made, clock, clean>>

-----------------------------------------------------------------------------
(* Audited retirements: transition_memory_with_audit refuses a row whose   *)
(* status is no longer the one that was read.                              *)

Planned(m, successor) == [Absent(m) EXCEPT !.status = row[m].status, !.by = successor]

Fresh(p, m) == row[m].status = job[p].copy[m].status

Retire(p, m) ==
  row' = [row EXCEPT ![m] = [@ EXCEPT !.status = "superseded",
                                      !.by = job[p].copy[m].by, !.upd = clock]]

Planning(p, successor) ==
  job' = [job EXCEPT ![p] =
            [Idle EXCEPT !.at = "retiring", !.subject = job[p].subject,
               !.todo = DOMAIN successor,
               !.copy = [m \in Memories |-> IF m \in DOMAIN successor
                                            THEN Planned(m, successor[m]) ELSE Absent(m)]]]

Done(p, m) == [job EXCEPT ![p].todo = @ \ {m}, ![p].copy[m] = Absent(m)]

(* dedup_memory: of the active memories with one value, the most trusted   *)
(* stays; duplicates whose status moved are passed over (_try_transition). *)
Survivor(m) ==
  Strongest(row, {n \in Memories : row[n].status = "active"
                                   /\ row[n].value = row[m].value})

ListDuplicates(d) ==
  LET doubles == {m \in Memories : row[m].status = "active" /\ Survivor(m) # m}
  IN  /\ At(d, "idle") /\ doubles # {}
      /\ Planning(d, [m \in doubles |-> Survivor(m)])
      /\ clean' = (clean /\ Alone(d))
      /\ UNCHANGED <<row, conf, made, clock>>

RetireDuplicate(d) ==
  /\ At(d, "retiring")
  /\ \/ job[d].todo = {} /\ Finish(d) /\ UNCHANGED row
     \/ \E m \in job[d].todo :
          /\ IF Fresh(d, m) THEN Retire(d, m) ELSE UNCHANGED row
          /\ job' = Done(d, m)
  /\ UNCHANGED <<conf, made, clock, clean>>

-----------------------------------------------------------------------------
(* An administrator closes a conflict record.                              *)

OpenConflict(r, c) ==
  /\ At(r, "idle")
  /\ conf[c].status = "open"
  /\ job' = [job EXCEPT ![r] = [Idle EXCEPT !.at = "reading", !.subject = c]]
  /\ UNCHANGED <<row, conf, made, clock, clean>>

(* update_memory_conflict: the status is the caller's, the detector stays. *)
SetStatus(c, s) == conf' = [conf EXCEPT ![c].status = s]

MarkFalsePositive(r) ==
  /\ At(r, "reading")
  /\ SetStatus(job[r].subject, "resolved_false_positive")
  /\ Finish(r)
  /\ UNCHANGED <<row, made, clock, clean>>

(* apply_suggested asks the policy about the members not superseded and    *)
(* refuses a tie.                                                          *)
Suggested(rows, c) ==
  LET top == Tied(rows, {m \in c : rows[m].status # "superseded"})
  IN  IF Cardinality(top) = 1 THEN top ELSE {}

(* The losers are read and every transition is tried before the first one  *)
(* is written: one that cannot be superseded refuses the request.          *)
\* Mutant of PlanLosers: the winner is planned too.
PlanMembers(r, w) ==
  LET losers == {m \in job[r].subject : row[m].status # "superseded"}
  IN  IF losers \subseteq Live(row) THEN Planning(r, [m \in losers |-> w]) ELSE Finish(r)

PlanLosers(r, w) ==
  LET losers == {m \in job[r].subject \ {w} : row[m].status # "superseded"}
  IN  IF losers \subseteq Live(row) THEN Planning(r, [m \in losers |-> w]) ELSE Finish(r)

ApplySuggested(r) ==
  /\ At(r, "reading")
  /\ \E w \in Suggested(row, job[r].subject) : PlanLosers(r, w)
  /\ clean' = (clean /\ Alone(r))
  /\ UNCHANGED <<row, conf, made, clock>>

(* choose_winner takes any member, and does not ask for its status.        *)
ChooseWinner(r) ==
  /\ At(r, "reading")
  /\ \E w \in job[r].subject :
       /\ PlanLosers(r, w)
       /\ clean' = (clean /\ Alone(r) /\ row[w].status # "superseded")
  /\ UNCHANGED <<row, conf, made, clock>>

(* A loser whose status moved refuses the rest and leaves the record open. *)
RetireLoser(r) ==
  /\ At(r, "retiring")
  /\ \E m \in job[r].todo :
       IF Fresh(r, m)
       THEN Retire(r, m) /\ job' = Done(r, m)
       ELSE Finish(r) /\ UNCHANGED row
  /\ UNCHANGED <<conf, made, clock, clean>>

CloseReviewed(r) ==
  /\ At(r, "retiring") /\ job[r].todo = {}
  /\ SetStatus(job[r].subject, "resolved_choose_winner")
  /\ Finish(r)
  /\ UNCHANGED <<row, made, clock, clean>>

-----------------------------------------------------------------------------
(* What else happens to the rows: a retrieval bumps updated_at, the        *)
(* scheduler lets an active memory go dormant.                             *)

Bump(m) ==
  /\ row[m].status # "absent" /\ row[m].upd # clock
  /\ row' = [row EXCEPT ![m].upd = clock]
  /\ UNCHANGED <<conf, made, clock, job, clean>>

GoDormant(m) ==
  /\ row[m].status = "active"
  /\ row' = [row EXCEPT ![m].status = "dormant"]
  /\ UNCHANGED <<conf, made, clock, job, clean>>

Tick ==
  /\ clock < MaxClock
  /\ clock' = clock + 1
  /\ UNCHANGED <<row, conf, made, job, clean>>

Next ==
  \/ \E w \in Writers :
       \/ \E v \in Values : Write(w, v)
       \/ WriteBack(w) \/ AddMemory(w)
  \/ \E p \in Writers \cup Scanners :
       ListMemories(p) \/ ListOpen(p) \/ Upsert(p) \/ CloseStale(p) \/ ScanDies(p)
  \/ \E d \in Cleaners : ListDuplicates(d) \/ RetireDuplicate(d)
  \/ \E r \in Reviewers :
       \/ \E c \in ConflictIds : OpenConflict(r, c)
       \/ MarkFalsePositive(r) \/ ApplySuggested(r) \/ ChooseWinner(r)
       \/ RetireLoser(r) \/ CloseReviewed(r)
  \/ \E p \in Judges : Crash(p)
  \/ \E m \in Read : Bump(m)
  \/ \E m \in Ageing : GoDormant(m)
  \/ Tick

Spec == Init /\ [][Next]_vars

-----------------------------------------------------------------------------
(* What the state is made of.                                              *)
TypeOK ==
  /\ row \in [Memories -> Rows]
  /\ conf \in [ConflictIds -> Records]
  /\ clock \in 0..MaxClock
  /\ job \in [Processes -> Jobs]

(* As long as decisions neither overlap nor break off, a superseded memory *)
(* leads, successor by successor, to a stored memory that is not           *)
(* superseded: the key never ends without a value.                         *)
Retired == {m \in Memories : row[m].status = "superseded"}

SuccessionEnds ==
  clean /\ (\A p \in Judges : ~ Deciding(p)) =>
    \A C \in (SUBSET Retired) \ {{}} : \E m \in C : row[m].by \in Present(row) \ C

(* Nothing in the code starts a maintenance scan by itself: Celery beat is *)
(* off by default (config.py) and its message is refused by the task.  A   *)
(* scan is what an administrator asks for.  The two properties below are   *)
(* about those who keep asking: scans are completed again and again.       *)
ScanCompletes(s) == job[s].stale = {} /\ CloseStale(s)

ScansRecur == \E s \in Scanners : []<><<ScanCompletes(s)>>_vars

(* Then, whatever the write path, the reviewers and scans that die do      *)
(* meanwhile, a disagreement that maintenance reported and that is gone is *)
(* eventually closed (conflict_scan) ...                                   *)
StaleConflictsClosed ==
  ScansRecur =>
    <>[](\A c \in ConflictIds :
           conf[c].status = "open" /\ conf[c].detector = "maintenance_conflict_scan_v1"
             => c = Detected(row))

(* ... and one that persists is reported again and again, also after a     *)
(* stale scan or a reviewer closed it.                                     *)
LiveConflictReported ==
  ScansRecur => []<>(Detected(row) = {} \/ conf[Detected(row)].status = "open")
=============================================================================
