--------------------------- MODULE MaintenanceRun ---------------------------
(***************************************************************************)
(* Maintenance runs of a workspace: an administrator stores a pending run  *)
(* and enqueues its task, or executes it within the request                *)
(* (apps/api/app/api/admin_routes.py); a worker that acquires the task's   *)
(* dedupe key (apps/api/app/async_tasks/tasks.py) adopts the run, executes *)
(* its operations in order with one attempt row each, and closes it        *)
(* (apps/api/app/memory/maintenance.py).                                   *)
(*                                                                         *)
(* Every repository or Redis call is one action.  The broker may deliver a *)
(* message again, the key may expire while its holder works, a call may    *)
(* raise before or after its effect, and a process may die: `Faults' says  *)
(* which.  Operations are numbered in the order they were supplied; what   *)
(* one does to memories is MemoryLifecycle's subject, here it succeeds or  *)
(* raises.  A run row is never deleted, so a delivered task finds its run. *)
(***************************************************************************)
EXTENDS Integers

CONSTANTS
  Runs,          \* the runs administrators may ask for
  Handlers,      \* worker slots and API requests that execute a run
  LastOp,        \* a run has the operations 1 .. LastOp
  Redeliveries,  \* bound: how often a broker may repeat one message
  Faults         \* what may go wrong

FaultKinds == {"enqueue", "enqueue_reply", "acquire", "release", "run_row",
               "attempt_row", "operation", "expiry", "death"}

\* validate_operations refuses an empty list of operations.
ASSUME MaintenanceConstants ==
  /\ LastOp \in Nat \ {0}
  /\ Redeliveries \in Nat
  /\ Faults \subseteq FaultKinds

Operations == 1 .. LastOp
SchedulerRunStatus == {"absent", "pending", "running", "completed", "failed"}
SchedulerTaskStatus == {"absent", "running", "completed", "failed", "skipped"}
Stages == {"idle", "adopt", "add", "handle", "record", "close", "release"}
Jobs == [at : Stages, run : Runs, op : Operations, outcome : SchedulerTaskStatus,
         failed : BOOLEAN]

\* A job at its first operation; an idle handler has one whose run means nothing.
NewJob(r, stage) ==
  [at |-> stage, run |-> r, op |-> 1, outcome |-> "absent", failed |-> FALSE]

VARIABLES
  run,        \* status of the row of a run
  attempt,    \* status of the attempt row of each operation of a run
  request,    \* how far the administrator's request for a run has come
  mail,       \* copies of a run's task message that wait at the broker
  again,      \* how often the broker may still repeat the message of a run
  key,        \* runs whose dedupe key is held in the idempotency store
  dry,        \* runs asked for as a preview; the rows never change this
  job,        \* what each handler is executing
  executed,   \* history: how often the handler of an operation was called
  abandoned   \* history: runs a process died with, or could not write the row of

vars == <<run, attempt, request, mail, again, key, dry, job, executed, abandoned>>

Init ==
  /\ run = [r \in Runs |-> "absent"]
  /\ attempt = [r \in Runs |-> [i \in Operations |-> "absent"]]
  /\ request = [r \in Runs |-> "none"]
  /\ mail = [r \in Runs |-> 0]
  /\ again = [r \in Runs |-> Redeliveries]
  /\ key = {}
  /\ dry \in SUBSET Runs
  /\ job \in [Handlers -> {NewJob(r, "idle") : r \in Runs}]
  /\ executed = [r \in Runs |-> [i \in Operations |-> 0]]
  /\ abandoned = {}

-----------------------------------------------------------------------------
(* start_maintenance_run                                                   *)

AddQueuedRun(r) ==
  /\ request[r] = "none"
  /\ request' = [request EXCEPT ![r] = "enqueue"]
  /\ run' = [run EXCEPT ![r] = "pending"]
  /\ UNCHANGED <<attempt, mail, again, key, job, executed, abandoned, dry>>

\* With a fresh run id and without a dedupe key.
StartDirectly(h, r) ==
  /\ request[r] = "none"
  /\ job[h].at = "idle"
  /\ request' = [request EXCEPT ![r] = "direct"]
  /\ run' = [run EXCEPT ![r] = "running"]
  /\ job' = [job EXCEPT ![h] = NewJob(r, "add")]
  /\ UNCHANGED <<attempt, mail, again, key, executed, abandoned, dry>>

Post(r) == mail' = [mail EXCEPT ![r] = @ + 1]

Enqueue(r) ==
  /\ request[r] = "enqueue"
  /\ Post(r)
  /\ request' = [request EXCEPT ![r] = "done"]
  /\ UNCHANGED <<run, attempt, again, key, job, executed, abandoned, dry>>

\* The broker may have taken a message whose sending raises.
EnqueueRaises(r) ==
  /\ request[r] = "enqueue"
  /\ \/ "enqueue" \in Faults /\ UNCHANGED mail
     \/ "enqueue_reply" \in Faults /\ Post(r)
  /\ request' = [request EXCEPT ![r] = "mark"]
  /\ UNCHANGED <<run, attempt, again, key, job, executed, abandoned, dry>>

MarkEnqueueFailed(r) ==
  /\ request[r] = "mark"
  /\ \/ run' = [run EXCEPT ![r] = "failed"] /\ UNCHANGED abandoned
     \/ /\ "run_row" \in Faults
        /\ abandoned' = abandoned \cup {r}
        /\ UNCHANGED run
  /\ request' = [request EXCEPT ![r] = "done"]
  /\ UNCHANGED <<attempt, mail, again, key, job, executed, dry>>

\* The administrator's process dies before it has enqueued or marked the run.
RequestDies(r) ==
  /\ "death" \in Faults
  /\ request[r] \in {"enqueue", "mark"}
  /\ request' = [request EXCEPT ![r] = "done"]
  /\ abandoned' = abandoned \cup {r}
  /\ UNCHANGED <<run, attempt, mail, again, key, job, executed, dry>>

-----------------------------------------------------------------------------
(* process_memory_maintenance: the delivery of a task                      *)

\* The broker hands out a message, once or once more.
Consume(r) ==
  /\ mail[r] > 0
  /\ \/ mail' = [mail EXCEPT ![r] = @ - 1] /\ UNCHANGED again
     \/ again[r] > 0 /\ again' = [again EXCEPT ![r] = @ - 1] /\ UNCHANGED mail

\* SET NX: the key is taken unless somebody holds it.
Acquire(h, r) ==
  /\ Consume(r)
  /\ job[h].at = "idle"
  /\ r \notin key
  /\ key' = key \cup {r}
  /\ job' = [job EXCEPT ![h] = NewJob(r, "adopt")]
  /\ UNCHANGED <<run, attempt, request, executed, abandoned, dry>>

SkipDuplicate(h, r) ==
  /\ Consume(r)
  /\ job[h].at = "idle"
  /\ r \in key
  /\ UNCHANGED <<run, attempt, request, key, job, executed, abandoned, dry>>

\* Acquiring is outside the try block: the task is gone, and nothing retries it.
AcquireRaises(h, r) ==
  /\ "acquire" \in Faults
  /\ Consume(r)
  /\ job[h].at = "idle"
  /\ abandoned' = abandoned \cup {r}
  /\ UNCHANGED <<run, attempt, request, key, job, executed, dry>>

KeyExpires(r) ==
  /\ "expiry" \in Faults
  /\ r \in key
  /\ key' = key \ {r}
  /\ UNCHANGED <<run, attempt, request, mail, again, job, executed, abandoned, dry>>

\* The end of a task that completed, and of any request.
Finished(h) == job' = [job EXCEPT ![h] = NewJob(job[h].run, "idle")]

\* The end of one that did not: a task gives its dedupe key back.
Unfinished(h) ==
  IF request[job[h].run] = "direct" THEN Finished(h)
  ELSE job' = [job EXCEPT ![h].at = "release"]

\* DEL, whoever holds the key by now; it may raise.
Release(h) ==
  /\ job[h].at = "release"
  /\ Finished(h)
  /\ \/ key' = key \ {job[h].run}
     \/ "release" \in Faults /\ UNCHANGED key
  /\ UNCHANGED <<run, attempt, request, mail, again, executed, abandoned, dry>>

-----------------------------------------------------------------------------
(* run_workspace_maintenance                                               *)

\* The stored run becomes running again, whatever its status was.
AdoptRun(h) ==
  /\ job[h].at = "adopt"
  /\ run' = [run EXCEPT ![job[h].run] = "running"]
  /\ job' = [job EXCEPT ![h].at = "add"]
  /\ UNCHANGED <<attempt, request, mail, again, key, executed, abandoned, dry>>

\* Mutant of GiveUp: a failed bookkeeping call fails its operation alone.
GiveUpOperation(h) ==
  job' = [job EXCEPT ![h].at = IF job[h].op < LastOp THEN "add" ELSE "close",
                     ![h].op = IF job[h].op < LastOp THEN job[h].op + 1 ELSE LastOp,
                     ![h].failed = TRUE]

\* Mutant of GiveUp: a failed bookkeeping call is not counted.
GiveUpSilently(h) == job' = [job EXCEPT ![h].at = "close"]

\* A failed bookkeeping call ends the loop over the operations.
GiveUp(h) == job' = [job EXCEPT ![h].at = "close", ![h].failed = TRUE]

\* Mutant of AddAttempt: no unique constraint, merge overwrites the row.
AddAttemptAgain(h) ==
  /\ job[h].at = "add"
  /\ attempt' = [attempt EXCEPT ![job[h].run][job[h].op] = "running"]
  /\ job' = [job EXCEPT ![h].at = "handle"]
  /\ UNCHANGED <<run, request, mail, again, key, executed, abandoned, dry>>

\* One row per run and operation: a second one violates the unique constraint.
AddAttempt(h) ==
  LET r == job[h].run
      i == job[h].op
  IN /\ job[h].at = "add"
     /\ \/ /\ attempt[r][i] = "absent"
           /\ attempt' = [attempt EXCEPT ![r][i] = "running"]
           /\ job' = [job EXCEPT ![h].at = "handle"]
        \/ /\ attempt[r][i] # "absent"
           /\ GiveUp(h)
           /\ UNCHANGED attempt
     /\ UNCHANGED <<run, request, mail, again, key, executed, abandoned, dry>>

\* A preview calls no operation; one that raises fails alone.
CallHandler(h) ==
  LET r == job[h].run
      i == job[h].op
  IN /\ job[h].at = "handle"
     /\ \/ /\ r \in dry
           /\ job' = [job EXCEPT ![h].at = "record", ![h].outcome = "skipped"]
           /\ UNCHANGED executed
        \/ /\ r \notin dry
           /\ executed' = [executed EXCEPT ![r][i] = @ + 1]
           /\ \E o \in {"completed"} \cup (IF "operation" \in Faults THEN {"failed"} ELSE {}) :
                job' = [job EXCEPT ![h].at = "record", ![h].outcome = o]
     /\ UNCHANGED <<run, attempt, request, mail, again, key, abandoned, dry>>

RecordAttempt(h) ==
  LET r == job[h].run
      i == job[h].op
  IN /\ job[h].at = "record"
     /\ attempt' = [attempt EXCEPT ![r][i] = job[h].outcome]
     /\ job' = [job EXCEPT ![h].at = IF i = LastOp THEN "close" ELSE "add",
                           ![h].op = IF i = LastOp THEN i ELSE i + 1,
                           ![h].failed = job[h].failed \/ job[h].outcome = "failed"]
     /\ UNCHANGED <<run, request, mail, again, key, executed, abandoned, dry>>

\* Mutant of AttemptRaises: the exception leaves the loop and the run is not closed.
AttemptUncaught(h) ==
  /\ "attempt_row" \in Faults
  /\ job[h].at \in {"add", "record"}
  /\ Unfinished(h)
  /\ UNCHANGED <<run, attempt, request, mail, again, key, executed, abandoned, dry>>

\* The store raises while an attempt is added or updated, before or after its commit.
AttemptRaises(h) ==
  LET r == job[h].run
      i == job[h].op
  IN /\ "attempt_row" \in Faults
     /\ job[h].at \in {"add", "record"}
     /\ \/ UNCHANGED attempt
        \/ /\ job[h].at = "add" => attempt[r][i] = "absent"
           /\ attempt' = [attempt EXCEPT ![r][i] =
                            IF job[h].at = "add" THEN "running" ELSE job[h].outcome]
     /\ GiveUp(h)
     /\ UNCHANGED <<run, request, mail, again, key, executed, abandoned, dry>>

\* The verdict overwrites the row, whatever others have made of it.
CloseRun(h) ==
  /\ job[h].at = "close"
  /\ run' = [run EXCEPT ![job[h].run] = IF job[h].failed THEN "failed" ELSE "completed"]
  /\ IF job[h].failed THEN Unfinished(h) ELSE Finished(h)
  /\ UNCHANGED <<attempt, request, mail, again, key, executed, abandoned, dry>>

\* The store raises while the row of the run is adopted or closed.
RunRowRaises(h) ==
  /\ "run_row" \in Faults
  /\ job[h].at \in {"adopt", "close"}
  /\ abandoned' = abandoned \cup {job[h].run}
  /\ Unfinished(h)
  /\ UNCHANGED <<run, attempt, request, mail, again, key, executed, dry>>

HandlerDies(h) ==
  /\ "death" \in Faults
  /\ job[h].at # "idle"
  /\ abandoned' = abandoned \cup {job[h].run}
  /\ Finished(h)
  /\ UNCHANGED <<run, attempt, request, mail, again, key, executed, dry>>

-----------------------------------------------------------------------------
Ask(r) == Enqueue(r) \/ EnqueueRaises(r) \/ MarkEnqueueFailed(r)
Deliver(h, r) == Acquire(h, r) \/ SkipDuplicate(h, r) \/ AcquireRaises(h, r)
Work(h) ==
  \/ AdoptRun(h) \/ AddAttempt(h) \/ CallHandler(h) \/ RecordAttempt(h)
  \/ AttemptRaises(h) \/ CloseRun(h) \/ RunRowRaises(h) \/ Release(h)

Next ==
  \/ \E r \in Runs : AddQueuedRun(r) \/ Ask(r) \/ RequestDies(r) \/ KeyExpires(r)
  \/ \E h \in Handlers, r \in Runs : StartDirectly(h, r) \/ Deliver(h, r)
  \/ \E h \in Handlers : Work(h) \/ HandlerDies(h)

(***************************************************************************)
(* A request that was accepted goes on, a worker that is executing a task  *)
(* goes on (its event loop runs until the task returns), and the broker    *)
(* hands waiting messages to free workers.  Nobody has to start a run,     *)
(* nothing has to fail or expire.                                          *)
(***************************************************************************)
Fairness ==
  /\ \A r \in Runs : WF_vars(Ask(r))
  /\ \A r \in Runs : WF_vars(\E h \in Handlers : Deliver(h, r))
  /\ \A h \in Handlers : WF_vars(Work(h))

Spec == Init /\ [][Next]_vars
FairSpec == Spec /\ Fairness

-----------------------------------------------------------------------------
(* Rows, messages and jobs stay within their domains; a request that goes  *)
(* past storing its run has stored it.                                     *)
TypeOK ==
  /\ run \in [Runs -> SchedulerRunStatus]
  /\ attempt \in [Runs -> [Operations -> SchedulerTaskStatus]]
  /\ request \in [Runs -> {"none", "enqueue", "mark", "done", "direct"}]
  /\ mail \in [Runs -> Nat] /\ again \in [Runs -> Nat]
  /\ key \subseteq Runs /\ dry \subseteq Runs /\ abandoned \subseteq Runs
  /\ job \in [Handlers -> Jobs]
  /\ executed \in [Runs -> [Operations -> Nat]]
  /\ \A r \in Runs : run[r] = "absent" <=> request[r] = "none"

(* No operation of a run is executed twice, and none of a preview at all,  *)
(* however often the message is delivered, whoever holds the dedupe key    *)
(* and wherever a worker died: what "retries for the same run/operation    *)
(* are identifiable" is there for.                                         *)
AtMostOnce ==
  \A r \in Runs, i \in Operations : executed[r][i] <= (IF r \in dry THEN 0 ELSE 1)

Settled == {"completed", "failed", "skipped"}

(* Operations take effect in the order supplied: when one is executed, all *)
(* before it have a recorded outcome, also if several workers share a run. *)
InOrder ==
  \A r \in Runs, i \in Operations :
    executed[r][i] > 0 => \A j \in 1 .. i - 1 : attempt[r][j] \in Settled

(* A run that reads completed has completed (or, in a preview, skipped)    *)
(* every one of its operations, although any worker may overwrite the row. *)
CompletedMeansAll ==
  \A r \in Runs : run[r] = "completed" =>
    \A i \in Operations :
      attempt[r][i] = (IF r \in dry THEN "skipped" ELSE "completed")

(* No run is left pending or running: failing operations, bookkeeping that *)
(* raises, an enqueue that fails, repeated messages and expired keys       *)
(* notwithstanding, it is closed, unless the process in charge died or     *)
(* could not reach the store or the idempotency store.                     *)
RunSettles ==
  \A r \in Runs :
    run[r] \in {"pending", "running"} ~> run[r] \in {"completed", "failed"} \/ r \in abandoned
=============================================================================
