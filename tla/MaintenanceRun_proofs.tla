------------------------ MODULE MaintenanceRun_proofs ------------------------
(***************************************************************************)
(* Proofs about MaintenanceRun, for any number of runs, workers,           *)
(* operations and deliveries and any set of faults.  The unique constraint *)
(* makes one worker the owner of a running attempt, so a worker that comes *)
(* second gives up before it executes anything.                            *)
(***************************************************************************)
EXTENDS MaintenanceRun, TLAPS

(* A request precedes every message and every job of its run.              *)
Asked ==
  /\ \A r \in Runs : mail[r] > 0 => request[r] # "none"
  /\ \A h \in Handlers : job[h].at # "idle" => request[job[h].run] # "none"

Holding(h) == job[h].at \in {"handle", "record"}
Looping(h) == job[h].at \in {"add", "handle", "record"}
Good(r) == IF r \in dry THEN "skipped" ELSE "completed"

(* The attempt a worker is handling is running and nobody else's, and its  *)
(* operation has not been executed before.                                 *)
Owned ==
  /\ \A h \in Handlers : Holding(h) => attempt[job[h].run][job[h].op] = "running"
  /\ \A h, g \in Handlers :
       Holding(h) /\ Holding(g) /\ job[h].run = job[g].run /\ job[h].op = job[g].op => h = g
  /\ \A h \in Handlers : job[h].at = "handle" => executed[job[h].run][job[h].op] = 0
  /\ \A h \in Handlers : job[h].at = "record" =>
       job[h].outcome \in (IF job[h].run \in dry THEN {"skipped"} ELSE {"completed", "failed"})

(* Whatever was executed has an attempt row, and at most once.             *)
Counted ==
  /\ AtMostOnce
  /\ \A r \in Runs, i \in Operations : executed[r][i] > 0 => attempt[r][i] # "absent"

(* The operations before the current one are settled, and all well unless  *)
(* the worker knows better.                                                *)
Past ==
  /\ \A h \in Handlers : Looping(h) =>
       \A j \in 1 .. job[h].op - 1 :
         /\ attempt[job[h].run][j] \in Settled
         /\ ~ job[h].failed => attempt[job[h].run][j] = Good(job[h].run)
  /\ \A h \in Handlers : job[h].at = "adopt" => job[h].op = 1
  /\ \A h \in Handlers : job[h].at = "close" /\ ~ job[h].failed =>
       \A j \in Operations : attempt[job[h].run][j] = Good(job[h].run)

IInv == TypeOK /\ Asked /\ Owned /\ Counted /\ Past /\ InOrder /\ CompletedMeansAll

USE MaintenanceConstants DEF Operations

-----------------------------------------------------------------------------
(* Types.                                                                  *)

LEMMA NewJobType ==
  ASSUME NEW r \in Runs, NEW stage \in Stages
  PROVE  /\ NewJob(r, stage) \in Jobs
         /\ NewJob(r, stage).at = stage /\ NewJob(r, stage).run = r
         /\ NewJob(r, stage).op = 1
  BY DEF NewJob, Jobs, SchedulerTaskStatus

LEMMA InitIInv == Init => IInv
  <1> SUFFICES ASSUME Init PROVE IInv
    OBVIOUS
  <1>1. job \in [Handlers -> Jobs] /\ \A h \in Handlers : job[h].at = "idle"
    BY NewJobType DEF Init, Stages
  <1>2. TypeOK
    BY <1>1 DEF Init, TypeOK, SchedulerRunStatus, SchedulerTaskStatus
  <1>3. Asked /\ Owned /\ Past
    BY <1>1 DEF Init, Asked, Owned, Past, Holding, Looping
  <1>4. Counted /\ InOrder /\ CompletedMeansAll
    BY DEF Init, Counted, AtMostOnce, InOrder, CompletedMeansAll
  <1> QED BY <1>2, <1>3, <1>4 DEF IInv

(***************************************************************************)
(* What the steps of a worker do to the jobs: the other jobs stay, and the *)
(* worker stays with its run.                                              *)
(***************************************************************************)
Alone(h) == /\ job' \in [Handlers -> Jobs]
            /\ \A g \in Handlers \ {h} : job'[g] = job[g]
            /\ job'[h].run = job[h].run

LEMMA NextStage ==
  ASSUME TypeOK, NEW h \in Handlers, NEW stage \in Stages,
         job' = [job EXCEPT ![h].at = stage]
  PROVE  Alone(h) /\ job'[h] = [job[h] EXCEPT !.at = stage]
  BY ZenonT(30) DEF TypeOK, Jobs, Alone

LEMMA FinishedJob ==
  ASSUME TypeOK, NEW h \in Handlers, Finished(h)
  PROVE  Alone(h) /\ job'[h].at = "idle"
  <1>1. job \in [Handlers -> Jobs] /\ job[h].run \in Runs
    BY DEF TypeOK, Jobs
  <1>2. NewJob(job[h].run, "idle") \in Jobs
    BY <1>1, NewJobType DEF Stages
  <1> QED BY <1>1, <1>2, NewJobType DEF Finished, Alone, Stages

LEMMA UnfinishedJob ==
  ASSUME TypeOK, NEW h \in Handlers, Unfinished(h)
  PROVE  Alone(h) /\ job'[h].at \in {"idle", "release"}
  <1>1. CASE Finished(h)
    BY <1>1, FinishedJob
  <1>2. CASE job' = [job EXCEPT ![h].at = "release"]
    BY ZenonT(30), <1>2 DEF TypeOK, Jobs, Stages, Alone
  <1> QED BY <1>1, <1>2 DEF Unfinished

LEMMA GiveUpJob ==
  ASSUME TypeOK, NEW h \in Handlers, GiveUp(h)
  PROVE  Alone(h) /\ job'[h].at = "close" /\ job'[h].failed
  BY ZenonT(30) DEF TypeOK, Jobs, Stages, Alone, GiveUp

LEMMA AdoptJob ==
  ASSUME TypeOK, NEW h \in Handlers, AdoptRun(h)
  PROVE  Alone(h) /\ job'[h].at = "add" /\ job'[h].op = job[h].op
  BY DEF TypeOK, Jobs, Stages, Alone, AdoptRun

LEMMA AddJob ==
  ASSUME TypeOK, NEW h \in Handlers, AddAttempt(h)
  PROVE  /\ Alone(h)
         /\ \/ /\ job'[h] = [job[h] EXCEPT !.at = "handle"]
               /\ attempt[job[h].run][job[h].op] = "absent"
               /\ attempt' = [attempt EXCEPT ![job[h].run][job[h].op] = "running"]
            \/ job'[h].at = "close" /\ job'[h].failed /\ attempt' = attempt
  <1>1. CASE GiveUp(h) /\ UNCHANGED attempt
    BY <1>1, GiveUpJob
  <1>2. CASE /\ attempt[job[h].run][job[h].op] = "absent"
             /\ attempt' = [attempt EXCEPT ![job[h].run][job[h].op] = "running"]
             /\ job' = [job EXCEPT ![h].at = "handle"]
    BY <1>2, NextStage DEF Stages
  <1> QED BY <1>1, <1>2 DEF AddAttempt

Outcomes(r) == IF r \in dry THEN {"skipped"} ELSE {"completed", "failed"}

LEMMA CallJob ==
  ASSUME TypeOK, NEW h \in Handlers, CallHandler(h)
  PROVE  /\ Alone(h)
         /\ \E o \in Outcomes(job[h].run) :
               job'[h] = [job[h] EXCEPT !.at = "record", !.outcome = o]
  <1>1. PICK o \in Outcomes(job[h].run) :
          job' = [job EXCEPT ![h].at = "record", ![h].outcome = o]
    BY DEF CallHandler, Outcomes
  <1>2. o \in SchedulerTaskStatus
    BY DEF Outcomes, SchedulerTaskStatus
  <1>3. job \in [Handlers -> Jobs]
    BY DEF TypeOK
  <1>4. job' = [job EXCEPT ![h] = [job[h] EXCEPT !.at = "record", !.outcome = o]]
    BY <1>1, <1>3
  <1>5. [job[h] EXCEPT !.at = "record", !.outcome = o] \in Jobs
    BY <1>2, <1>3 DEF Jobs, Stages
  <1>6. Alone(h)
    BY <1>3, <1>4, <1>5 DEF Jobs, Alone
  <1> QED BY <1>3, <1>4, <1>6

LEMMA RecordJob ==
  ASSUME TypeOK, NEW h \in Handlers, RecordAttempt(h)
  PROVE  /\ Alone(h)
         /\ job'[h].failed = (job[h].failed \/ job[h].outcome = "failed")
         /\ \/ job[h].op = LastOp /\ job'[h].at = "close"
            \/ job[h].op < LastOp /\ job'[h].at = "add" /\ job'[h].op = job[h].op + 1
  <1>1. job \in [Handlers -> Jobs] /\ job[h].op \in 1 .. LastOp
    BY DEF TypeOK, Jobs
  <1> DEFINE last == job[h].op = LastOp
             after == [job[h] EXCEPT !.at = IF last THEN "close" ELSE "add",
                                     !.op = IF last THEN job[h].op ELSE job[h].op + 1,
                                     !.failed = job[h].failed \/ job[h].outcome = "failed"]
  <1>2. job' = [job EXCEPT ![h] = after]
    BY <1>1 DEF RecordAttempt
  <1>3. after \in Jobs
    <2>1. (job[h].failed \/ job[h].outcome = "failed") \in BOOLEAN
      OBVIOUS
    <2>2. (IF last THEN job[h].op ELSE job[h].op + 1) \in 1 .. LastOp
      BY <1>1
    <2> HIDE DEF last
    <2> QED BY <1>1, <2>1, <2>2 DEF Jobs, Stages
  <1>4. Alone(h) /\ job'[h] = after
    BY <1>1, <1>2, <1>3 DEF Jobs, Alone
  <1> QED BY <1>1, <1>4 DEF Jobs

LEMMA CloseJob ==
  ASSUME TypeOK, NEW h \in Handlers, CloseRun(h) \/ RunRowRaises(h)
  PROVE  Alone(h) /\ job'[h].at \in {"idle", "release"}
  BY FinishedJob, UnfinishedJob DEF CloseRun, RunRowRaises

LEMMA EndJob ==
  ASSUME TypeOK, NEW h \in Handlers, Release(h) \/ HandlerDies(h)
  PROVE  Alone(h) /\ job'[h].at = "idle"
  BY FinishedJob DEF Release, HandlerDies

(* A delivery gives at most one job, and a direct start gives one.         *)
LEMMA StartJob ==
  ASSUME TypeOK, NEW h \in Handlers, NEW r \in Runs, StartDirectly(h, r) \/ Deliver(h, r)
  PROVE  /\ job' \in [Handlers -> Jobs]
         /\ \A g \in Handlers \ {h} : job'[g] = job[g]
         /\ \/ job' = job
            \/ /\ job'[h].at \in {"adopt", "add"} /\ job'[h].run = r /\ job'[h].op = 1
  <1>1. job \in [Handlers -> Jobs]
    BY DEF TypeOK
  <1>2. CASE StartDirectly(h, r)
    <2>1. NewJob(r, "add") \in Jobs /\ NewJob(r, "add").at = "add"
          /\ NewJob(r, "add").run = r /\ NewJob(r, "add").op = 1
      BY NewJobType DEF Stages
    <2> QED BY <1>1, <1>2, <2>1 DEF StartDirectly
  <1>3. CASE Acquire(h, r)
    <2>1. NewJob(r, "adopt") \in Jobs /\ NewJob(r, "adopt").at = "adopt"
          /\ NewJob(r, "adopt").run = r /\ NewJob(r, "adopt").op = 1
      BY NewJobType DEF Stages
    <2> QED BY <1>1, <1>3, <2>1 DEF Acquire
  <1>4. CASE SkipDuplicate(h, r) \/ AcquireRaises(h, r)
    BY <1>1, <1>4 DEF SkipDuplicate, AcquireRaises
  <1> QED BY <1>2, <1>3, <1>4 DEF Deliver

-----------------------------------------------------------------------------
(* Types, and what an update of one attempt row leaves alone.              *)

LEMMA JobType ==
  ASSUME TypeOK, NEW h \in Handlers
  PROVE  /\ job[h].run \in Runs /\ job[h].op \in Operations
         /\ job[h].outcome \in SchedulerTaskStatus /\ job[h].failed \in BOOLEAN
  BY DEF TypeOK, Jobs

LEMMA SetAttempt ==
  ASSUME TypeOK, NEW r \in Runs, NEW i \in Operations, NEW v \in SchedulerTaskStatus,
         attempt' = [attempt EXCEPT ![r][i] = v]
  PROVE  /\ attempt' \in [Runs -> [Operations -> SchedulerTaskStatus]]
         /\ attempt'[r][i] = v
         /\ \A q \in Runs, j \in Operations : q # r \/ j # i => attempt'[q][j] = attempt[q][j]
  BY DEF TypeOK

(* What the three steps that write attempts may do to them.                *)
AttemptsMove(h) ==
  \/ attempt' = attempt
  \/ \E v \in SchedulerTaskStatus :
       /\ attempt' = [attempt EXCEPT ![job[h].run][job[h].op] = v]
       /\ \/ /\ job[h].at = "add" /\ v = "running"
             /\ attempt[job[h].run][job[h].op] = "absent"
          \/ job[h].at = "record" /\ v = job[h].outcome

LEMMA WriteAttempt ==
  ASSUME TypeOK, NEW h \in Handlers,
         AddAttempt(h) \/ RecordAttempt(h) \/ AttemptRaises(h)
  PROVE  AttemptsMove(h)
  <1>1. "running" \in SchedulerTaskStatus /\ job[h].outcome \in SchedulerTaskStatus
    BY JobType DEF SchedulerTaskStatus
  <1>2. CASE AddAttempt(h)
    BY <1>1, <1>2 DEF AddAttempt, AttemptsMove
  <1>3. CASE RecordAttempt(h)
    BY <1>1, <1>3 DEF RecordAttempt, AttemptsMove
  <1>4. CASE AttemptRaises(h)
    <2>1. CASE job[h].at = "add"
      BY <1>1, <1>4, <2>1 DEF AttemptRaises, AttemptsMove
    <2>2. CASE job[h].at = "record"
      BY <1>1, <1>4, <2>2 DEF AttemptRaises, AttemptsMove
    <2> QED BY <1>4, <2>1, <2>2 DEF AttemptRaises
  <1> QED BY <1>2, <1>3, <1>4

LEMMA AttemptType ==
  ASSUME TypeOK, NEW h \in Handlers, AttemptsMove(h)
  PROVE  attempt' \in [Runs -> [Operations -> SchedulerTaskStatus]]
  <1>1. CASE attempt' = attempt
    BY <1>1 DEF TypeOK
  <1>2. ASSUME NEW v \in SchedulerTaskStatus,
               attempt' = [attempt EXCEPT ![job[h].run][job[h].op] = v]
        PROVE  attempt' \in [Runs -> [Operations -> SchedulerTaskStatus]]
    BY <1>2, JobType, SetAttempt
  <1> QED BY <1>1, <1>2 DEF AttemptsMove

LEMMA CallCounts ==
  ASSUME TypeOK, NEW h \in Handlers, CallHandler(h)
  PROVE  /\ executed' \in [Runs -> [Operations -> Nat]]
         /\ \/ executed' = executed
            \/ /\ job[h].run \notin dry
               /\ executed'[job[h].run][job[h].op] = executed[job[h].run][job[h].op] + 1
         /\ \A q \in Runs, j \in Operations :
              q # job[h].run \/ j # job[h].op => executed'[q][j] = executed[q][j]
  <1>1. job[h].run \in Runs /\ job[h].op \in Operations
    BY JobType
  <1>2. executed[job[h].run][job[h].op] + 1 \in Nat
    BY <1>1 DEF TypeOK
  <1>3. CASE executed' = executed
    BY <1>3 DEF TypeOK
  <1>4. CASE /\ job[h].run \notin dry
             /\ executed' = [executed EXCEPT ![job[h].run][job[h].op] =
                                             executed[job[h].run][job[h].op] + 1]
    <2>1. executed \in [Runs -> [Operations -> Nat]]
      BY DEF TypeOK
    <2>2. executed' \in [Runs -> [Operations -> Nat]]
      BY <1>1, <1>2, <1>4, <2>1
    <2>3. executed'[job[h].run][job[h].op] = executed[job[h].run][job[h].op] + 1
      BY <1>1, <1>4, <2>1
    <2>4. \A q \in Runs, j \in Operations :
            q # job[h].run \/ j # job[h].op => executed'[q][j] = executed[q][j]
      BY <1>1, <1>4, <2>1
    <2> QED BY <1>4, <2>2, <2>3, <2>4
  <1> QED BY <1>3, <1>4 DEF CallHandler

LEMMA StepTypes == TypeOK /\ Asked /\ [Next]_vars => TypeOK'
  <1> SUFFICES ASSUME TypeOK, Asked, [Next]_vars PROVE TypeOK'
    OBVIOUS
  <1>1. ASSUME NEW r \in Runs, AddQueuedRun(r) \/ RequestDies(r) \/ KeyExpires(r) PROVE TypeOK'
    <2>1. CASE AddQueuedRun(r)
      BY <2>1 DEF AddQueuedRun, TypeOK, SchedulerRunStatus
    <2>2. CASE RequestDies(r)
      BY <2>2 DEF RequestDies, TypeOK
    <2>3. CASE KeyExpires(r)
      BY <2>3 DEF KeyExpires, TypeOK
    <2> QED BY <1>1, <2>1, <2>2, <2>3
  <1>2. ASSUME NEW r \in Runs, Ask(r) PROVE TypeOK'
    <2>1. CASE Enqueue(r)
      BY <2>1 DEF Enqueue, Post, TypeOK
    <2>2. CASE EnqueueRaises(r)
      <3>1. mail' = mail \/ mail' = [mail EXCEPT ![r] = mail[r] + 1]
        BY <2>2 DEF EnqueueRaises, Post
      <3>2. mail \in [Runs -> Nat] /\ mail[r] + 1 \in Nat
        BY DEF TypeOK
      <3>3. mail' \in [Runs -> Nat]
        BY <3>1, <3>2
      <3> QED BY <2>2, <3>3 DEF EnqueueRaises, TypeOK
    <2>3. CASE MarkEnqueueFailed(r)
      BY <2>3 DEF MarkEnqueueFailed, TypeOK, SchedulerRunStatus
    <2> QED BY <1>2, <2>1, <2>2, <2>3 DEF Ask
  <1>3. ASSUME NEW h \in Handlers, NEW r \in Runs, StartDirectly(h, r) PROVE TypeOK'
    BY <1>3, StartJob DEF StartDirectly, TypeOK, SchedulerRunStatus
  <1>4. ASSUME NEW h \in Handlers, NEW r \in Runs, Deliver(h, r) PROVE TypeOK'
    <2>1. mail' \in [Runs -> Nat] /\ again' \in [Runs -> Nat]
      <3>1. Consume(r)
        BY <1>4 DEF Deliver, Acquire, SkipDuplicate, AcquireRaises
      <3>2. mail[r] - 1 \in Nat /\ (again[r] > 0 => again[r] - 1 \in Nat)
        BY <3>1 DEF Consume, TypeOK
      <3> QED BY <3>1, <3>2 DEF Consume, TypeOK
    <2>2. job' \in [Handlers -> Jobs]
      BY <1>4, StartJob
    <2>3. key' \subseteq Runs /\ abandoned' \subseteq Runs
      BY <1>4 DEF Deliver, Acquire, SkipDuplicate, AcquireRaises, TypeOK
    <2> QED BY <1>4, <2>1, <2>2, <2>3 DEF Deliver, Acquire, SkipDuplicate, AcquireRaises, TypeOK
  <1>5. ASSUME NEW h \in Handlers, Release(h) \/ HandlerDies(h) PROVE TypeOK'
    BY ZenonT(30), <1>5, EndJob DEF Release, HandlerDies, TypeOK, Alone, Jobs
  <1>6. ASSUME NEW h \in Handlers, AdoptRun(h) PROVE TypeOK'
    <2>1. job' \in [Handlers -> Jobs] /\ job[h].run \in Runs /\ request[job[h].run] # "none"
      BY <1>6, AdoptJob, JobType DEF AdoptRun, Alone, Asked
    <2>2. run' \in [Runs -> SchedulerRunStatus]
      BY <1>6, <2>1 DEF AdoptRun, TypeOK, SchedulerRunStatus
    <2>3. \A r \in Runs : run'[r] = "absent" <=> request[r] = "none"
      BY <1>6, <2>1 DEF AdoptRun, TypeOK
    <2> QED BY <1>6, <2>1, <2>2, <2>3 DEF AdoptRun, TypeOK
  <1>7. ASSUME NEW h \in Handlers, AddAttempt(h) PROVE TypeOK'
    <2>1. job' \in [Handlers -> Jobs]
      BY <1>7, AddJob DEF Alone
    <2>2. attempt' \in [Runs -> [Operations -> SchedulerTaskStatus]]
      BY <1>7, WriteAttempt, AttemptType
    <2> QED BY <1>7, <2>1, <2>2 DEF AddAttempt, TypeOK
  <1>8. ASSUME NEW h \in Handlers, CallHandler(h) PROVE TypeOK'
    <2>1. job' \in [Handlers -> Jobs]
      BY <1>8, CallJob DEF Alone
    <2>2. executed' \in [Runs -> [Operations -> Nat]]
      BY <1>8, CallCounts
    <2> QED BY <1>8, <2>1, <2>2 DEF CallHandler, TypeOK
  <1>9. ASSUME NEW h \in Handlers, RecordAttempt(h) PROVE TypeOK'
    <2>1. job' \in [Handlers -> Jobs] /\ job[h].outcome \in SchedulerTaskStatus
      BY <1>9, RecordJob, JobType DEF Alone
    <2>2. attempt' \in [Runs -> [Operations -> SchedulerTaskStatus]]
      BY <1>9, WriteAttempt, AttemptType
    <2> QED BY <1>9, <2>1, <2>2 DEF RecordAttempt, TypeOK
  <1>10. ASSUME NEW h \in Handlers, AttemptRaises(h) PROVE TypeOK'
    <2>1. job' \in [Handlers -> Jobs] /\ job[h].outcome \in SchedulerTaskStatus
      BY <1>10, GiveUpJob, JobType DEF AttemptRaises, Alone
    <2>2. attempt' \in [Runs -> [Operations -> SchedulerTaskStatus]]
      BY <1>10, WriteAttempt, AttemptType
    <2> QED BY <1>10, <2>1, <2>2 DEF AttemptRaises, TypeOK
  <1>11. ASSUME NEW h \in Handlers, CloseRun(h) PROVE TypeOK'
    <2>1. job' \in [Handlers -> Jobs] /\ job[h].run \in Runs /\ request[job[h].run] # "none"
      BY <1>11, CloseJob DEF CloseRun, Alone, TypeOK, Asked, Jobs
    <2>2. PICK v \in {"failed", "completed"} : run' = [run EXCEPT ![job[h].run] = v]
      BY <1>11 DEF CloseRun
    <2>3. run' \in [Runs -> SchedulerRunStatus]
      BY <2>1, <2>2 DEF TypeOK, SchedulerRunStatus
    <2>4. \A r \in Runs : run'[r] = "absent" <=> request[r] = "none"
      BY <2>1, <2>2 DEF TypeOK
    <2> QED BY <1>11, <2>1, <2>3, <2>4 DEF CloseRun, TypeOK
  <1>12. ASSUME NEW h \in Handlers, RunRowRaises(h) PROVE TypeOK'
    BY ZenonT(30), <1>12, CloseJob DEF RunRowRaises, TypeOK, Alone, Jobs
  <1>13. CASE UNCHANGED vars
    BY <1>13 DEF vars, TypeOK
  <1> QED BY <1>1, <1>2, <1>3, <1>4, <1>5, <1>6, <1>7, <1>8, <1>9, <1>10, <1>11,
             <1>12, <1>13 DEF Next, Work

LEMMA StepAsked == TypeOK /\ Asked /\ [Next]_vars => Asked'
  <1> SUFFICES ASSUME TypeOK, Asked, [Next]_vars PROVE Asked'
    OBVIOUS
  <1>1. ASSUME NEW r \in Runs, AddQueuedRun(r) \/ Ask(r) \/ RequestDies(r) \/ KeyExpires(r)
        PROVE  Asked'
    <2>1. job' = job /\ \A q \in Runs : request[q] # "none" => request'[q] # "none"
      BY <1>1 DEF AddQueuedRun, Ask, Enqueue, EnqueueRaises, MarkEnqueueFailed,
                  RequestDies, KeyExpires, TypeOK
    <2>2. \A q \in Runs : mail'[q] > 0 => mail[q] > 0 \/ request[q] # "none"
      BY <1>1 DEF AddQueuedRun, Ask, Enqueue, EnqueueRaises, MarkEnqueueFailed, Post,
                  RequestDies, KeyExpires, TypeOK
    <2> QED BY <2>1, <2>2 DEF Asked, TypeOK, Jobs
  <1>2. ASSUME NEW h \in Handlers, NEW r \in Runs, StartDirectly(h, r) \/ Deliver(h, r)
        PROVE  Asked'
    <2>1. \A q \in Runs : (mail'[q] > 0 => request'[q] # "none")
                           /\ (request[q] # "none" => request'[q] # "none")
      BY <1>2 DEF StartDirectly, Deliver, Acquire, SkipDuplicate, AcquireRaises, Consume,
                  TypeOK, Asked
    <2>2. request'[r] # "none"
      BY <1>2, <2>1 DEF StartDirectly, Deliver, Acquire, SkipDuplicate, AcquireRaises, Consume,
                  TypeOK, Asked
    <2>3. \A g \in Handlers : job'[g] = job[g] \/ job'[g].run = r
      BY <1>2, StartJob
    <2> QED BY <2>1, <2>2, <2>3, JobType DEF Asked
  <1>3. ASSUME NEW h \in Handlers, Work(h) \/ HandlerDies(h) PROVE Asked'
    <2>1. request' = request /\ mail' = mail /\ job[h].at # "idle"
      BY <1>3 DEF Work, AdoptRun, AddAttempt, CallHandler, RecordAttempt, AttemptRaises,
                  CloseRun, RunRowRaises, Release, HandlerDies
    <2>2. Alone(h)
      BY <1>3, AdoptJob, AddJob, CallJob, RecordJob, GiveUpJob, CloseJob, EndJob
         DEF Work, AttemptRaises
    <2> QED BY <2>1, <2>2 DEF Asked, Alone
  <1>4. CASE UNCHANGED vars
    BY <1>4 DEF vars, Asked
  <1> QED BY <1>1, <1>2, <1>3, <1>4 DEF Next

-----------------------------------------------------------------------------
(* Attempts.                                                               *)

(* Only the owner of a running attempt settles it, so what is settled      *)
(* stays, and no row disappears.                                           *)
LEMMA AttemptsKept ==
  ASSUME TypeOK, Owned, NEW h \in Handlers, AttemptsMove(h)
  PROVE  \A r \in Runs, i \in Operations :
           /\ attempt[r][i] \in Settled => attempt'[r][i] = attempt[r][i]
           /\ attempt[r][i] # "absent" => attempt'[r][i] # "absent"
           /\ r # job[h].run \/ i # job[h].op => attempt'[r][i] = attempt[r][i]
  <1>1. CASE attempt' = attempt
    BY <1>1
  <1>2. ASSUME NEW v \in SchedulerTaskStatus,
               attempt' = [attempt EXCEPT ![job[h].run][job[h].op] = v],
               \/ job[h].at = "add" /\ v = "running" /\ attempt[job[h].run][job[h].op] = "absent"
               \/ job[h].at = "record" /\ v = job[h].outcome
        PROVE  \A r \in Runs, i \in Operations :
                 /\ attempt[r][i] \in Settled => attempt'[r][i] = attempt[r][i]
                 /\ attempt[r][i] # "absent" => attempt'[r][i] # "absent"
                 /\ r # job[h].run \/ i # job[h].op => attempt'[r][i] = attempt[r][i]
    <2>1. /\ attempt'[job[h].run][job[h].op] = v
          /\ \A q \in Runs, j \in Operations :
               q # job[h].run \/ j # job[h].op => attempt'[q][j] = attempt[q][j]
      <3>1. job[h].run \in Runs /\ job[h].op \in Operations
        BY JobType
      <3>2. attempt' = [attempt EXCEPT ![job[h].run][job[h].op] = v]
        BY <1>2
      <3>3. attempt \in [Runs -> [Operations -> SchedulerTaskStatus]]
        BY DEF TypeOK
      <3> QED BY <3>1, <3>2, <3>3
    <2>2. v # "absent" /\ attempt[job[h].run][job[h].op] \notin Settled
      BY <1>2 DEF Owned, Holding, Settled
    <2> QED BY <2>1, <2>2
  <1> QED BY <1>1, <1>2 DEF AttemptsMove

(* Steps that leave the attempts alone, and leave the worker between runs, *)
(* at the start of one, or giving up.                                      *)
LEMMA QuietStep ==
  ASSUME IInv, NEW h \in Handlers,
         attempt' = attempt, executed' = executed, dry' = dry,
         \A g \in Handlers \ {h} : job'[g] = job[g],
         \/ job'[h] = job[h]
         \/ job'[h].at \in {"idle", "release"}
         \/ job'[h].at \in {"adopt", "add"} /\ job'[h].op = 1
         \/ job'[h].at = "close" /\ job'[h].failed
  PROVE  Owned' /\ Counted' /\ Past' /\ InOrder'
  <1>1. \A g \in Handlers : Holding(g)' => job'[g] = job[g] /\ Holding(g)
    BY DEF Holding
  <1>2. Owned'
    <2>1. \A g \in Handlers : job'[g].at \in {"handle", "record"} => job'[g] = job[g]
      OBVIOUS
    <2> QED BY <1>1, <2>1 DEF IInv, Owned
  <1>3. Counted' /\ InOrder'
    BY DEF IInv, Counted, AtMostOnce, InOrder
  <1>4. Past'
    <2>1. ASSUME NEW g \in Handlers, Looping(g)' , job'[g] # job[g] PROVE job'[g].op = 1
      BY <2>1 DEF Looping
    <2>2. ASSUME NEW g \in Handlers, Looping(g)', NEW j \in 1 .. job'[g].op - 1
          PROVE  /\ attempt'[job'[g].run][j] \in Settled
                 /\ ~ job'[g].failed => attempt'[job'[g].run][j] = Good(job'[g].run)
      <3>1. job'[g] = job[g]
        BY <2>1, <2>2
      <3> QED BY <2>2, <3>1 DEF IInv, Past, Looping, Good
    <2>3. ASSUME NEW g \in Handlers, job'[g].at = "adopt" PROVE job'[g].op = 1
      BY <2>3 DEF IInv, Past
    <2>4. ASSUME NEW g \in Handlers, job'[g].at = "close", ~ job'[g].failed, NEW j \in Operations
          PROVE  attempt'[job'[g].run][j] = Good(job'[g].run)
      BY <2>4 DEF IInv, Past, Good
    <2> QED BY <2>2, <2>3, <2>4 DEF Past, Looping, Good
  <1> QED BY <1>2, <1>3, <1>4

(* The rest of the invariant is about the worker's own attempt: one lemma  *)
(* per step that touches attempts or calls a handler.                      *)
LEMMA AddStays ==
  ASSUME IInv, NEW h \in Handlers, AddAttempt(h)
  PROVE  Owned' /\ Counted' /\ Past' /\ InOrder'
  <1>1. TypeOK /\ Owned /\ Counted /\ Past /\ InOrder
    BY DEF IInv
  <1>2. executed' = executed /\ dry' = dry
    BY DEF AddAttempt
  <1>3. Alone(h)
    BY <1>1, AddJob
  <1>4. CASE job'[h].at = "close" /\ job'[h].failed /\ attempt' = attempt
    BY <1>2, <1>3, <1>4, QuietStep DEF Alone
  <1>5. CASE /\ job'[h] = [job[h] EXCEPT !.at = "handle"]
             /\ attempt[job[h].run][job[h].op] = "absent"
             /\ attempt' = [attempt EXCEPT ![job[h].run][job[h].op] = "running"]
    <2>1. job[h].at = "add" /\ job[h].run \in Runs /\ job[h].op \in Operations
      BY <1>1, JobType DEF AddAttempt
    <2>2. \A r \in Runs, i \in Operations :
            /\ attempt[r][i] \in Settled => attempt'[r][i] = attempt[r][i]
            /\ attempt[r][i] # "absent" => attempt'[r][i] # "absent"
            /\ r # job[h].run \/ i # job[h].op => attempt'[r][i] = attempt[r][i]
      BY <1>1, WriteAttempt, AttemptsKept
    <2>3. attempt'[job[h].run][job[h].op] = "running"
      BY <1>1, <1>5, <2>1 DEF TypeOK
    <2>4. /\ job'[h].at = "handle" /\ job'[h].run = job[h].run /\ job'[h].op = job[h].op
          /\ job'[h].failed = job[h].failed
      BY <1>1, <1>5 DEF TypeOK, Jobs
    <2>5. \A g \in Handlers : Holding(g) => job[g].run # job[h].run \/ job[g].op # job[h].op
      BY <1>1, <1>5 DEF Owned
    <2>6. executed[job[h].run][job[h].op] = 0
      BY <1>1, <1>5, <2>1 DEF Counted, TypeOK
    <2>7. \A g \in Handlers \ {h} : job'[g] = job[g]
      BY <1>3 DEF Alone
    <2>8. Owned'
      <3>1. \A g \in Handlers : Holding(g)' =>
              attempt'[job'[g].run][job'[g].op] = "running"
        BY <1>1, <2>2, <2>3, <2>4, <2>5, <2>7, JobType DEF Holding, Owned
      <3>2. \A g, k \in Handlers :
              Holding(g)' /\ Holding(k)' /\ job'[g].run = job'[k].run /\ job'[g].op = job'[k].op
                => g = k
        BY <1>1, <2>4, <2>5, <2>7 DEF Holding, Owned
      <3>3. \A g \in Handlers : job'[g].at = "handle" => executed[job'[g].run][job'[g].op] = 0
        BY <1>1, <2>4, <2>6, <2>7 DEF Owned
      <3>4. \A g \in Handlers : job'[g].at = "record" =>
              job'[g].outcome \in (IF job'[g].run \in dry THEN {"skipped"} ELSE {"completed", "failed"})
        BY <1>1, <2>4, <2>7 DEF Owned
      <3> QED BY <1>2, <3>1, <3>2, <3>3, <3>4 DEF Owned, Holding
    <2>9. Counted' /\ InOrder'
      BY <1>1, <1>2, <2>2 DEF Counted, AtMostOnce, InOrder
    <2>10. Past'
      <3>1. ASSUME NEW g \in Handlers, Looping(g)', NEW j \in 1 .. job'[g].op - 1
            PROVE  /\ attempt'[job'[g].run][j] \in Settled
                   /\ ~ job'[g].failed => attempt'[job'[g].run][j] = Good(job'[g].run)
        <4>1. /\ Looping(g) /\ job'[g].run = job[g].run /\ job'[g].op = job[g].op
              /\ job'[g].failed = job[g].failed /\ job[g].run \in Runs
              /\ job[g].op \in Operations
          BY <1>1, <2>1, <2>4, <2>7, <3>1, JobType DEF Looping
        <4>2. j \in 1 .. job[g].op - 1 /\ j \in Operations
          BY <3>1, <4>1
        <4> QED BY <1>1, <2>2, <4>1, <4>2 DEF Past
      <3>2. ASSUME NEW g \in Handlers, job'[g].at = "adopt" PROVE job'[g].op = 1
        BY <1>1, <2>4, <2>7, <3>2 DEF Past
      <3>3. ASSUME NEW g \in Handlers, job'[g].at = "close", ~ job'[g].failed, NEW j \in Operations
            PROVE  attempt'[job'[g].run][j] = Good(job'[g].run)
        <4>1. job'[g] = job[g] /\ job[g].run \in Runs
          BY <1>1, <2>4, <2>7, <3>3, JobType
        <4>2. attempt[job[g].run][j] = Good(job[g].run) /\ Good(job[g].run) \in Settled
          BY <1>1, <3>3, <4>1 DEF Past, Good, Settled
        <4> QED BY <2>2, <3>3, <4>1, <4>2
      <3> QED BY <1>2, <3>1, <3>2, <3>3 DEF Past, Looping, Good
    <2> QED BY <2>8, <2>9, <2>10
  <1> QED BY <1>1, <1>4, <1>5, AddJob

LEMMA CallStays ==
  ASSUME IInv, NEW h \in Handlers, CallHandler(h)
  PROVE  Owned' /\ Counted' /\ Past' /\ InOrder'
  <1>1. TypeOK /\ Owned /\ Counted /\ Past /\ InOrder
    BY DEF IInv
  <1>2. attempt' = attempt /\ dry' = dry /\ job[h].at = "handle"
    BY DEF CallHandler
  <1>3. job[h].run \in Runs /\ job[h].op \in Operations
    BY <1>1, JobType
  <1>4. /\ Alone(h)
        /\ \E o \in Outcomes(job[h].run) :
             job'[h] = [job[h] EXCEPT !.at = "record", !.outcome = o]
    BY <1>1, CallJob
  <1>5. /\ job'[h].at = "record" /\ job'[h].run = job[h].run /\ job'[h].op = job[h].op
        /\ job'[h].failed = job[h].failed /\ job'[h].outcome \in Outcomes(job[h].run)
    BY <1>1, <1>4 DEF TypeOK, Jobs
  <1>6. \A g \in Handlers \ {h} : job'[g] = job[g]
    BY <1>4 DEF Alone
  <1>7. /\ \/ executed' = executed
           \/ /\ job[h].run \notin dry
              /\ executed'[job[h].run][job[h].op] = executed[job[h].run][job[h].op] + 1
        /\ \A q \in Runs, j \in Operations :
             q # job[h].run \/ j # job[h].op => executed'[q][j] = executed[q][j]
    BY <1>1, CallCounts
  <1>8. executed[job[h].run][job[h].op] = 0 /\ attempt[job[h].run][job[h].op] = "running"
    BY <1>1, <1>2 DEF Owned, Holding
  <1>9. Owned'
    <2>1. \A g \in Handlers : Holding(g)' => Holding(g) /\ job'[g].run = job[g].run
                                                /\ job'[g].op = job[g].op
      BY <1>2, <1>5, <1>6 DEF Holding
    <2>2. ASSUME NEW g \in Handlers, job'[g].at = "handle"
          PROVE  executed'[job'[g].run][job'[g].op] = 0
      <3>1. job'[g] = job[g] /\ g # h
        BY <1>5, <1>6, <2>2
      <3>2. job[g].run # job[h].run \/ job[g].op # job[h].op
        BY <1>1, <1>2, <2>2, <3>1 DEF Owned, Holding
      <3>3. job[g].run \in Runs /\ job[g].op \in Operations
        BY <1>1, JobType
      <3> QED BY <1>1, <1>7, <2>2, <3>1, <3>2, <3>3 DEF Owned
    <2>3. \A g \in Handlers : job'[g].at = "record" =>
            job'[g].outcome \in (IF job'[g].run \in dry THEN {"skipped"} ELSE {"completed", "failed"})
      BY <1>1, <1>5, <1>6 DEF Owned, Outcomes
    <2> QED BY <1>1, <1>2, <2>1, <2>2, <2>3 DEF Owned, Holding
  <1>10. Counted'
    <2>1. ASSUME NEW r \in Runs, NEW i \in Operations
          PROVE  /\ executed'[r][i] <= (IF r \in dry THEN 0 ELSE 1)
                 /\ executed'[r][i] > 0 => attempt[r][i] # "absent"
      <3>1. CASE r = job[h].run /\ i = job[h].op
        BY <1>1, <1>7, <1>8, <2>1, <3>1 DEF Counted, AtMostOnce
      <3>2. CASE ~ (r = job[h].run /\ i = job[h].op)
        BY <1>1, <1>7, <2>1, <3>2 DEF Counted, AtMostOnce
      <3> QED BY <3>1, <3>2
    <2> QED BY <1>2, <2>1 DEF Counted, AtMostOnce
  <1>11. InOrder'
    <2>1. ASSUME NEW r \in Runs, NEW i \in Operations, executed'[r][i] > 0, NEW j \in 1 .. i - 1
          PROVE  attempt[r][j] \in Settled
      <3>1. CASE r = job[h].run /\ i = job[h].op
        BY <1>1, <1>2, <2>1, <3>1 DEF Past, Looping
      <3>2. CASE ~ (r = job[h].run /\ i = job[h].op)
        BY <1>1, <1>7, <2>1, <3>2 DEF InOrder
      <3> QED BY <3>1, <3>2
    <2> QED BY <1>2, <2>1 DEF InOrder
  <1>12. Past'
    <2>1. \A g \in Handlers : /\ job'[g].run = job[g].run /\ job'[g].op = job[g].op
                               /\ job'[g].failed = job[g].failed
                               /\ (Looping(g)' => Looping(g))
                               /\ (job'[g].at \in {"adopt", "close"} => job'[g].at = job[g].at)
      BY <1>2, <1>5, <1>6 DEF Looping
    <2>2. ASSUME NEW g \in Handlers, Looping(g)', NEW j \in 1 .. job'[g].op - 1
          PROVE  /\ attempt[job'[g].run][j] \in Settled
                 /\ ~ job'[g].failed => attempt[job'[g].run][j] = Good(job'[g].run)
      BY <1>1, <2>1, <2>2 DEF Past
    <2>3. ASSUME NEW g \in Handlers, job'[g].at = "adopt" PROVE job'[g].op = 1
      BY <1>1, <2>1, <2>3 DEF Past
    <2>4. ASSUME NEW g \in Handlers, job'[g].at = "close", ~ job'[g].failed, NEW j \in Operations
          PROVE  attempt[job'[g].run][j] = Good(job'[g].run)
      BY <1>1, <2>1, <2>4 DEF Past
    <2> QED BY <1>2, <2>2, <2>3, <2>4 DEF Past, Looping, Good
  <1> QED BY <1>9, <1>10, <1>11, <1>12

(* A worker that leaves its attempt is no longer its owner.                *)
LEMMA LeaveStays ==
  ASSUME IInv, NEW h \in Handlers, RecordAttempt(h) \/ AttemptRaises(h)
  PROVE  Owned' /\ Counted' /\ Past' /\ InOrder'
  <1>1. TypeOK /\ Owned /\ Counted /\ Past /\ InOrder
    BY DEF IInv
  <1>2. executed' = executed /\ dry' = dry /\ job[h].at \in {"add", "record"}
    BY DEF RecordAttempt, AttemptRaises
  <1>3. job[h].run \in Runs /\ job[h].op \in Operations
    BY <1>1, JobType
  <1>4. Alone(h) /\ job'[h].at \in {"add", "close"}
    BY <1>1, RecordJob, GiveUpJob DEF AttemptRaises
  <1>5. \A g \in Handlers \ {h} : job'[g] = job[g]
    BY <1>4 DEF Alone
  <1>6. \A r \in Runs, i \in Operations :
          /\ attempt[r][i] \in Settled => attempt'[r][i] = attempt[r][i]
          /\ attempt[r][i] # "absent" => attempt'[r][i] # "absent"
          /\ r # job[h].run \/ i # job[h].op => attempt'[r][i] = attempt[r][i]
    BY <1>1, WriteAttempt, AttemptsKept
  <1>7. Owned'
    <2>1. ASSUME NEW g \in Handlers, Holding(g)'
          PROVE  /\ job'[g] = job[g] /\ Holding(g) /\ g # h
                 /\ attempt'[job[g].run][job[g].op] = "running"
      <3>1. job'[g] = job[g] /\ Holding(g) /\ g # h
        BY <1>4, <1>5, <2>1 DEF Holding
      <3>2. attempt[job[g].run][job[g].op] = "running"
        BY <1>1, <3>1 DEF Owned
      <3>3. job[g].run \in Runs /\ job[g].op \in Operations
        BY <1>1, JobType
      <3>4. job[g].run # job[h].run \/ job[g].op # job[h].op \/ attempt' = attempt
        <4>1. CASE job[h].at = "record"
          BY <1>1, <3>1, <4>1 DEF Owned, Holding
        <4>2. CASE job[h].at = "add"
          BY <1>1, <3>2, <4>2, WriteAttempt DEF AttemptsMove
        <4> QED BY <1>2, <4>1, <4>2
      <3> QED BY <1>6, <3>1, <3>2, <3>3, <3>4
    <2> QED BY <1>1, <1>2, <2>1 DEF Owned, Holding
  <1>8. Counted' /\ InOrder'
    BY <1>1, <1>2, <1>6 DEF Counted, AtMostOnce, InOrder
  <1>9. ASSUME NEW g \in Handlers \ {h}
        PROVE  /\ Looping(g)' => \A j \in 1 .. job'[g].op - 1 :
                    /\ attempt'[job'[g].run][j] \in Settled
                    /\ ~ job'[g].failed => attempt'[job'[g].run][j] = Good(job'[g].run)
               /\ job'[g].at = "adopt" => job'[g].op = 1
               /\ job'[g].at = "close" /\ ~ job'[g].failed =>
                    \A j \in Operations : attempt'[job'[g].run][j] = Good(job'[g].run)
    <2>1. job'[g] = job[g] /\ job[g].run \in Runs /\ job[g].op \in Operations
      BY <1>1, <1>5, JobType
    <2>2. \A j \in 1 .. job[g].op - 1 : j \in Operations
      BY <2>1
    <2>3. Good(job[g].run) \in Settled
      BY DEF Good, Settled
    <2> QED BY <1>1, <1>6, <2>1, <2>2, <2>3 DEF Past, Looping
  <1>10. /\ Looping(h)' => \A j \in 1 .. job'[h].op - 1 :
              /\ attempt'[job'[h].run][j] \in Settled
              /\ ~ job'[h].failed => attempt'[job'[h].run][j] = Good(job'[h].run)
         /\ job'[h].at = "close" /\ ~ job'[h].failed =>
              \A j \in Operations : attempt'[job'[h].run][j] = Good(job'[h].run)
    <2>1. CASE AttemptRaises(h)
      BY <1>1, <2>1, GiveUpJob DEF AttemptRaises, Looping
    <2>2. CASE RecordAttempt(h)
      <3>1. /\ job'[h].run = job[h].run
            /\ job'[h].failed = (job[h].failed \/ job[h].outcome = "failed")
            /\ \/ job[h].op = LastOp /\ job'[h].at = "close"
               \/ job[h].op < LastOp /\ job'[h].at = "add" /\ job'[h].op = job[h].op + 1
        BY <1>1, <2>2, RecordJob DEF Alone
      <3>2. /\ job[h].at = "record"
            /\ attempt'[job[h].run][job[h].op] = job[h].outcome
        BY <1>1, <1>3, <2>2 DEF RecordAttempt, TypeOK
      <3>3. /\ job[h].outcome \in Settled
            /\ job[h].outcome # "failed" => job[h].outcome = Good(job[h].run)
        BY <1>1, <3>2 DEF Owned, Settled, Good
      <3>4. \A j \in 1 .. job[h].op - 1 :
              /\ j \in Operations
              /\ attempt'[job[h].run][j] = attempt[job[h].run][j]
              /\ attempt[job[h].run][j] \in Settled
              /\ ~ job[h].failed => attempt[job[h].run][j] = Good(job[h].run)
        BY <1>1, <1>3, <1>6, <3>2 DEF Past, Looping
      <3>5. \A j \in 1 .. job[h].op :
              /\ attempt'[job[h].run][j] \in Settled
              /\ ~ job'[h].failed => attempt'[job[h].run][j] = Good(job[h].run)
        <4>1. \A j \in 1 .. job[h].op : j = job[h].op \/ j \in 1 .. job[h].op - 1
          BY <1>3
        <4>2. ~ job'[h].failed => ~ job[h].failed /\ job[h].outcome # "failed"
          BY <3>1
        <4> QED BY <3>2, <3>3, <3>4, <4>1, <4>2
      <3> QED BY <1>3, <3>1, <3>5 DEF Looping
    <2> QED BY <2>1, <2>2
  <1>11. Past'
    BY <1>2, <1>4, <1>9, <1>10 DEF Past, Looping, Good
  <1> QED BY <1>7, <1>8, <1>11

-----------------------------------------------------------------------------
(* What a run that reads completed has behind it.                          *)
LEMMA CompletedStays ==
  ASSUME IInv, [Next]_vars
  PROVE  CompletedMeansAll'
  <1>1. TypeOK /\ Owned /\ Past /\ CompletedMeansAll
    BY DEF IInv
  <1>2. \A r \in Runs : Good(r) \in Settled
    BY DEF Good, Settled
  <1>3. ASSUME run' = run, attempt' = attempt, dry' = dry PROVE CompletedMeansAll'
    BY <1>1, <1>3 DEF CompletedMeansAll
  <1>4. ASSUME NEW r \in Runs, NEW v \in {"pending", "running", "failed"},
               run' = [run EXCEPT ![r] = v], attempt' = attempt, dry' = dry
        PROVE  CompletedMeansAll'
    BY <1>1, <1>4 DEF CompletedMeansAll, TypeOK
  <1>5. ASSUME NEW h \in Handlers, CloseRun(h) PROVE CompletedMeansAll'
    <2>1. job[h].run \in Runs /\ job[h].at = "close" /\ attempt' = attempt /\ dry' = dry
      BY <1>1, <1>5, JobType DEF CloseRun
    <2>2. CASE job[h].failed
      BY <1>4, <1>5, <2>1, <2>2 DEF CloseRun
    <2>3. CASE ~ job[h].failed
      <3>1. run' = [run EXCEPT ![job[h].run] = "completed"]
        BY <1>5, <2>3 DEF CloseRun
      <3>2. \A j \in Operations : attempt[job[h].run][j] = Good(job[h].run)
        BY <1>1, <2>1, <2>3 DEF Past
      <3> QED BY <1>1, <2>1, <3>1, <3>2 DEF CompletedMeansAll, Good, TypeOK
    <2> QED BY <2>2, <2>3
  <1>6. ASSUME NEW h \in Handlers, AddAttempt(h) \/ RecordAttempt(h) \/ AttemptRaises(h)
        PROVE  CompletedMeansAll'
    <2>1. run' = run /\ dry' = dry
      BY <1>6 DEF AddAttempt, RecordAttempt, AttemptRaises
    <2>2. \A r \in Runs, i \in Operations :
            attempt[r][i] \in Settled => attempt'[r][i] = attempt[r][i]
      BY <1>1, <1>6, WriteAttempt, AttemptsKept
    <2> QED BY <1>1, <1>2, <2>1, <2>2 DEF CompletedMeansAll, Good
  <1>7. ASSUME NEW r \in Runs, AddQueuedRun(r) \/ MarkEnqueueFailed(r) PROVE CompletedMeansAll'
    BY <1>3, <1>4, <1>7 DEF AddQueuedRun, MarkEnqueueFailed
  <1>8. ASSUME NEW r \in Runs, NEW h \in Handlers, StartDirectly(h, r) PROVE CompletedMeansAll'
    BY <1>4, <1>8 DEF StartDirectly
  <1>9. ASSUME NEW h \in Handlers, AdoptRun(h) PROVE CompletedMeansAll'
    BY <1>1, <1>4, <1>9, JobType DEF AdoptRun
  <1>10. ASSUME NEW r \in Runs, Enqueue(r) \/ EnqueueRaises(r) \/ RequestDies(r) \/ KeyExpires(r)
         PROVE  CompletedMeansAll'
    BY <1>3, <1>10 DEF Enqueue, EnqueueRaises, RequestDies, KeyExpires
  <1>11. ASSUME NEW h \in Handlers, NEW r \in Runs, Deliver(h, r) PROVE CompletedMeansAll'
    BY <1>3, <1>11 DEF Deliver, Acquire, SkipDuplicate, AcquireRaises
  <1>12. ASSUME NEW h \in Handlers, CallHandler(h) \/ RunRowRaises(h) \/ Release(h) \/ HandlerDies(h)
         PROVE  CompletedMeansAll'
    BY <1>3, <1>12 DEF CallHandler, RunRowRaises, Release, HandlerDies
  <1>13. CASE UNCHANGED vars
    BY <1>3, <1>13 DEF vars
  <1> QED BY <1>5, <1>6, <1>7, <1>8, <1>9, <1>10, <1>11, <1>12, <1>13 DEF Next, Ask, Work

LEMMA StepIInv == IInv /\ [Next]_vars => IInv'
  <1> SUFFICES ASSUME IInv, [Next]_vars PROVE IInv'
    OBVIOUS
  <1>1. TypeOK /\ Asked
    BY DEF IInv
  <1>2. TypeOK' /\ Asked' /\ CompletedMeansAll'
    BY <1>1, StepTypes, StepAsked, CompletedStays
  <1>3. ASSUME NEW h \in Handlers, AdoptRun(h) \/ CloseRun(h) \/ RunRowRaises(h)
                                     \/ Release(h) \/ HandlerDies(h)
        PROVE  Owned' /\ Counted' /\ Past' /\ InOrder'
    <2>1. attempt' = attempt /\ executed' = executed /\ dry' = dry
      BY <1>3 DEF AdoptRun, CloseRun, RunRowRaises, Release, HandlerDies
    <2>2. /\ Alone(h)
          /\ \/ job'[h].at \in {"idle", "release"}
             \/ job'[h].at = "add" /\ job'[h].op = job[h].op /\ job[h].at = "adopt"
      BY <1>1, <1>3, AdoptJob, CloseJob, EndJob DEF AdoptRun
    <2>3. job[h].at = "adopt" => job[h].op = 1
      BY DEF IInv, Past
    <2> QED BY <2>1, <2>2, <2>3, QuietStep DEF Alone
  <1>4. ASSUME NEW h \in Handlers, NEW r \in Runs, StartDirectly(h, r) \/ Deliver(h, r)
        PROVE  Owned' /\ Counted' /\ Past' /\ InOrder'
    <2>1. attempt' = attempt /\ executed' = executed /\ dry' = dry
      BY <1>4 DEF StartDirectly, Deliver, Acquire, SkipDuplicate, AcquireRaises
    <2> QED BY <1>1, <1>4, <2>1, StartJob, QuietStep
  <1>5. ASSUME job' = job, attempt' = attempt, executed' = executed, dry' = dry
        PROVE  Owned' /\ Counted' /\ Past' /\ InOrder'
    BY <1>5 DEF IInv, Owned, Holding, Counted, AtMostOnce, Past, Looping, Good, InOrder
  <1>6. ASSUME NEW r \in Runs, AddQueuedRun(r) \/ Ask(r) \/ RequestDies(r) \/ KeyExpires(r)
        PROVE  Owned' /\ Counted' /\ Past' /\ InOrder'
    BY <1>5, <1>6 DEF AddQueuedRun, Ask, Enqueue, EnqueueRaises, MarkEnqueueFailed,
                      RequestDies, KeyExpires
  <1>7. CASE UNCHANGED vars
    <2>1. job' = job /\ attempt' = attempt /\ executed' = executed /\ dry' = dry
      BY <1>7 DEF vars
    <2> QED BY <1>2, <1>5, <2>1 DEF IInv
  <1>8. ASSUME NEW h \in Handlers, Work(h) \/ HandlerDies(h)
        PROVE  Owned' /\ Counted' /\ Past' /\ InOrder'
    BY <1>3, <1>8, AddStays, CallStays, LeaveStays DEF Work
  <1> QED BY <1>2, <1>4, <1>6, <1>7, <1>8 DEF Next, IInv

LEMMA Invariance == Spec => []IInv
  BY InitIInv, StepIInv, PTL DEF Spec

(* The rows, the messages and the jobs keep their types.                   *)
THEOREM TypeCorrect == Spec => []TypeOK
  BY Invariance, PTL DEF IInv

(* However often a run's message is delivered and however many workers     *)
(* adopt the run, no operation of it is executed twice, or in a preview.   *)
THEOREM ExecutedAtMostOnce == Spec => []AtMostOnce
  <1>1. IInv => AtMostOnce
    BY DEF IInv, Counted
  <1> QED BY <1>1, Invariance, PTL

(* Operations take effect in the order supplied, with any number of        *)
(* workers on one run.                                                     *)
THEOREM ExecutedInOrder == Spec => []InOrder
  BY Invariance, PTL DEF IInv

(* A run that reads completed has every operation behind it, whichever     *)
(* worker wrote the verdict.                                               *)
THEOREM CompletedIsComplete == Spec => []CompletedMeansAll
  BY Invariance, PTL DEF IInv
=============================================================================
