--------------------------- MODULE EventExtraction ---------------------------
(***************************************************************************)
(* Turning trace events into memories while branches are rolled back.      *)
(*                                                                         *)
(* One run of one session.  Every public call of the runtime facade        *)
(* (apps/api/app/runtime/memory_runtime.py) is a handler; API processes    *)
(* and Celery workers share the SQL repository, each repository method is  *)
(* one transaction, and handlers interleave at every repository call.  A   *)
(* handler's Python objects are its snapshot: a row read earlier that is   *)
(* later written back whole.                                               *)
(*                                                                         *)
(* Abstractions: a step and its state node are one element of Steps (the   *)
(* node row and the step row keep separate statuses), the shape of the     *)
(* tree is the constant Subtree, an event yields at most one memory, and   *)
(* every user message states the same fact, so that the resolver always    *)
(* takes its "same value" path.                                            *)
(***************************************************************************)
EXTENDS Naturals, FiniteSets

CONSTANTS
  Steps,      \* steps of the run, each with its state node
  Events,     \* write_event requests; the event row has the request's name
  Workers,    \* deliveries of a memory.extract_event task
  Flushers,   \* flush_session requests
  Retrievals, \* retrieve_context requests
  Rollbacks,  \* rollback_branch requests
  Finishes,   \* finish_step requests
  Closers,    \* complete_run requests
  StepOf,     \* StepOf[h]: the step an event, rollback or finish names
  KindOf,     \* KindOf[e]: what kind of event it is
  ModesOf,    \* ModesOf[e]: extraction modes the writer may ask for
  Verdicts,   \* statuses a finish_step request may carry
  Subtree,    \* Subtree[s]: the node of s and its descendants
  MayFail     \* whether a call may raise, or its process die, half-way

Handlers == Events \cup Workers \cup Flushers \cup Retrievals
              \cup Rollbacks \cup Finishes \cup Closers

RunStatus == {"running", "completed", "failed", "cancelled"}
StepStatus == {"active", "completed", "failed", "cancelled", "rolled_back"}
NodeStatus == {"active", "completed", "failed", "rolled_back"}
Kinds == {"tool_result", "failed_tool_result", "message"}
Modes == {"sync", "lazy", "sync_flush", "async", "no_extract"}

Nobody == "nobody"

\* One request is one handler: the sets of requests do not overlap.
ASSUME DisjointHandlers ==
  /\ Nobody \notin Rollbacks
  /\ \A e \in Events : e \notin Workers \cup Flushers \cup Retrievals
                                  \cup Rollbacks \cup Finishes \cup Closers
  /\ \A r \in Rollbacks : r \notin Workers \cup Flushers \cup Retrievals
                                     \cup Finishes \cup Closers
  /\ \A f \in Finishes : f \notin Workers \cup Flushers \cup Retrievals
                                     \cup Closers

ASSUME Tables ==
  /\ StepOf \in [Events \cup Rollbacks \cup Finishes -> Steps]
  /\ KindOf \in [Events -> Kinds]
  /\ ModesOf \in [Events -> SUBSET Modes]
  /\ Verdicts \subseteq StepStatus
  /\ Subtree \in [Steps -> SUBSET Steps]
  /\ \A s \in Steps : s \in Subtree[s]
  /\ MayFail \in BOOLEAN

(***************************************************************************)
(* A memory is named by the handler that added it and by the event it was  *)
(* extracted from; the working-state memory that a finish_step request f   *)
(* adds is <<f, f>>.                                                       *)
(***************************************************************************)
MemIds == Handlers \X (Events \cup Finishes)
StepOfMem(m) == StepOf[m[2]]

Branches == {"none", "active", "completed", "failed", "rolled_back"}
Row == [branch : Branches, status : {"active", "superseded"},
        sources : SUBSET Events, born : Nat]
NoRow == [branch |-> "none", status |-> "active", sources |-> {}, born |-> 0]

VARIABLES
  run,       \* status of the run row
  nodeSt,    \* nodeSt[s]: status of the state-node row of s
  stepSt,    \* stepSt[s]: status of the step row s
  mem,       \* mem[m]: the memory row, NoRow while it does not exist
  seqNo,     \* seqNo[e]: sequence_no of the event row, 0 while not appended
  nextSeq,   \* max(sequence_no) + 1 of the run
  clock,     \* source of created_at, which orders facts
  buffer,    \* deferred candidate buffer of the session
  explicit,  \* explicit-flush buffer of the session
  queue,     \* extraction tasks held by the broker
  pc,        \* where a handler stands
  todo,      \* events a handler drained and has not taken up yet
  cur,       \* the event it is extracting
  made,      \* whether this extraction has added its memory
  pending,   \* rows a handler has computed and not yet written back
  copy,      \* node status a handler read and will write back
  verdict,   \* status a finish_step request carries
  left,      \* steps a rollback has still to mark
  mark,      \* the step whose node it has just marked
  owner,     \* history: the rollback whose mark the step row still shows
  refused    \* history: events whose extraction was declined

store == <<run, nodeSt, stepSt, mem, seqNo, nextSeq, clock>>
queues == <<buffer, explicit, queue>>
extraction == <<todo, cur, made>>
scratch == <<pending, copy, verdict, left, mark>>
history == <<owner, refused>>
vars == <<store, queues, pc, extraction, scratch, history>>

NoEvent == "no_event"
NoStep == "no_step"

Init ==
  /\ run = "running"
  /\ nodeSt = [s \in Steps |-> "active"]
  /\ stepSt = [s \in Steps |-> "active"]
  /\ mem = [m \in MemIds |-> NoRow]
  /\ seqNo = [e \in Events |-> 0]
  /\ nextSeq = 1
  /\ clock = 1
  /\ buffer = {} /\ explicit = {} /\ queue = {}
  /\ pc = [h \in Handlers |-> "idle"]
  /\ todo = [h \in Handlers |-> {}]
  /\ cur = [h \in Handlers |-> NoEvent]
  /\ made = [h \in Handlers |-> FALSE]
  /\ pending = [h \in Handlers |-> {}]
  /\ copy = [h \in Handlers |-> "active"]
  /\ verdict = [f \in Finishes |-> "active"]
  /\ left = [r \in Rollbacks |-> {}]
  /\ mark = [r \in Rollbacks |-> NoStep]
  /\ owner = [s \in Steps |-> Nobody]
  /\ refused = {}

Goto(h, place) == pc' = [pc EXCEPT ![h] = place]
Move(h, from, to) == pc[h] = from /\ Goto(h, to)

Written == {e \in Events : seqNo[e] > 0}
Exists(m) == mem[m].branch # "none"

(***************************************************************************)
(* write_event: the step and its node are read, the event row is appended  *)
(* under the run's advisory lock, extraction is dispatched by mode, and    *)
(* the node copy read at the start goes back whole to cache the event id.  *)
(***************************************************************************)
WriteBegin(e) ==
  /\ Move(e, "idle", "append")
  /\ copy' = [copy EXCEPT ![e] = nodeSt[StepOf[e]]]
  /\ UNCHANGED <<store, queues, extraction, pending, verdict, left, mark, history>>

AppendEvent(e) ==
  /\ \E mode \in ModesOf[e] : Move(e, "append", mode)
  /\ seqNo' = [seqNo EXCEPT ![e] = nextSeq]
  /\ nextSeq' = nextSeq + 1
  /\ UNCHANGED <<run, nodeSt, stepSt, mem, clock, queues, extraction, scratch, history>>

\* Secret events (any redaction) and no_extract events go straight on.
SkipExtraction(e) ==
  /\ Move(e, "no_extract", "cache")
  /\ UNCHANGED <<store, queues, extraction, scratch, history>>

\* Mutant of EnqueueTask: a broker outage drops the event.
EnqueueTaskNoFallback(e) ==
  /\ Move(e, "async", "cache")
  /\ queue' \in {queue, queue \cup {e}}
  /\ UNCHANGED <<store, buffer, explicit, extraction, scratch, history>>

BufferLazily(e) ==
  /\ Move(e, "lazy", "cache")
  /\ buffer' = buffer \cup {e}
  /\ UNCHANGED <<store, explicit, queue, extraction, scratch, history>>

BufferForExplicitFlush(e) ==
  /\ Move(e, "sync_flush", "cache")
  /\ explicit' = explicit \cup {e}
  /\ UNCHANGED <<store, buffer, queue, extraction, scratch, history>>

\* A broker outage degrades to the lazy buffer.
EnqueueTask(e) ==
  /\ Move(e, "async", "cache")
  /\ \/ queue' = queue \cup {e} /\ buffer' = buffer
     \/ queue' = queue /\ buffer' = buffer \cup {e}
  /\ UNCHANGED <<store, explicit, extraction, scratch, history>>

\* Inline extraction runs the write rules with no check before or after.
ExtractInline(e) ==
  /\ Move(e, "sync", "write")
  /\ cur' = [cur EXCEPT ![e] = e]
  /\ UNCHANGED <<store, queues, todo, made, scratch, history>>

CacheEventOnNode(e) ==
  /\ Move(e, "cache", "done")
  /\ nodeSt' = [nodeSt EXCEPT ![StepOf[e]] = copy[e]]
  /\ UNCHANGED <<run, stepSt, mem, seqNo, nextSeq, clock, queues, extraction, scratch, history>>

(***************************************************************************)
(* process_event_extraction: already extracted? allowed? apply the write   *)
(* rules, check again, isolate what was created if the answer changed.     *)
(* The first and the second check are the same three reads; made tells     *)
(* them apart.                                                             *)
(***************************************************************************)
Pick(h) ==
  /\ Move(h, "next", "duplicate")
  /\ \E e \in todo[h] :
       /\ \A d \in todo[h] : seqNo[e] <= seqNo[d]
       /\ cur' = [cur EXCEPT ![h] = e]
       /\ todo' = [todo EXCEPT ![h] = @ \ {e}]
  /\ made' = [made EXCEPT ![h] = FALSE]
  /\ UNCHANGED <<store, queues, scratch, history>>

AlreadyExtracted(e) ==
  \E m \in MemIds : Exists(m) /\ (m[2] = e \/ e \in mem[m].sources)

CheckDuplicate(h) ==
  /\ Move(h, "duplicate", IF AlreadyExtracted(cur[h]) THEN "next" ELSE "run")
  /\ UNCHANGED <<store, queues, extraction, scratch, history>>

\* A refusal before the write skips the event, one after it isolates.
Judge(h, place, allowed, onward) ==
  /\ Move(h, place, IF allowed THEN onward
                    ELSE IF made[h] THEN "isolate" ELSE "next")
  /\ refused' = IF allowed THEN refused ELSE refused \cup {cur[h]}
  /\ UNCHANGED <<store, queues, extraction, scratch, owner>>

CheckRun(h) ==
  Judge(h, "run", run \notin {"failed", "cancelled"}, "node")

CheckNode(h) ==
  Judge(h, "node", nodeSt[StepOf[cur[h]]] \notin {"failed", "rolled_back"},
        "step")

\* Mutant of CheckStep: the second check trusts the node row alone.
CheckStepFirstOnly(h) ==
  Judge(h, "step",
        made[h] \/ stepSt[StepOf[cur[h]]] \notin {"failed", "rolled_back", "cancelled"},
        IF made[h] THEN "next" ELSE "write")

CheckStep(h) ==
  Judge(h, "step",
        stepSt[StepOf[cur[h]]] \notin {"failed", "rolled_back", "cancelled"},
        IF made[h] THEN "next" ELSE "write")

\* Where a handler goes when _apply_write_rules returns.
AfterWrite(h, created) ==
  IF h \in Events THEN "cache" ELSE IF created THEN "run" ELSE "next"

FreshRow(e, time) ==
  [branch |-> IF KindOf[e] = "failed_tool_result" THEN "failed" ELSE "completed",
   status |-> "active", sources |-> {}, born |-> time]

\* A tool result is evidence of its own: no identity, no deduplication.
AddToolEvidence(h) ==
  /\ pc[h] = "write" /\ KindOf[cur[h]] # "message"
  /\ mem' = [mem EXCEPT ![<<h, cur[h]>>] = FreshRow(cur[h], 0)]
  /\ made' = [made EXCEPT ![h] = TRUE]
  /\ Goto(h, AfterWrite(h, TRUE))
  /\ UNCHANGED <<run, nodeSt, stepSt, seqNo, nextSeq, clock, queues, todo, cur, scratch, history>>

IsFact(m) == m[2] \in Events /\ KindOf[m[2]] = "message"
SameIdentityActives == {m \in MemIds : IsFact(m) /\ Exists(m) /\ mem[m].status = "active"}

\* Mutant of Represents: the copy with the most provenance represents.
MostSourced(m, same) ==
  \A n \in same : Cardinality(mem[m].sources) >= Cardinality(mem[n].sources)

\* Facts of one rule have equal scores: the earliest created represents.
Represents(m, same) == \A n \in same : mem[m].born <= mem[n].born

Folded(primary, same, e) ==
  LET sources == {d \in Events : d = e \/ \E m \in same : d = m[2] \/ d \in mem[m].sources}
  IN {[id |-> primary, row |-> [mem[primary] EXCEPT !.sources = sources]]}
       \cup {[id |-> m, row |-> [mem[m] EXCEPT !.status = "superseded"]]
               : m \in same \ {primary}}

\* The resolver sees every active row of the key, whatever its branch.
ResolveFact(h) ==
  /\ pc[h] = "write" /\ KindOf[cur[h]] = "message"
  /\ \/ /\ SameIdentityActives = {}
        /\ Goto(h, "add")
        /\ pending' = [pending EXCEPT ![h] =
             {[id |-> <<h, cur[h]>>, row |-> FreshRow(cur[h], clock)]}]
        /\ clock' = clock + 1
     \/ /\ Goto(h, "update")
        /\ \E primary \in SameIdentityActives :
             /\ Represents(primary, SameIdentityActives)
             /\ pending' = [pending EXCEPT ![h] =
                  Folded(primary, SameIdentityActives, cur[h])]
        /\ clock' = clock
  /\ UNCHANGED <<run, nodeSt, stepSt, mem, seqNo, nextSeq, queues, extraction,
                 copy, verdict, left, mark, history>>

AddFact(h) ==
  /\ pc[h] = "add"
  /\ \E w \in pending[h] : mem' = [mem EXCEPT ![w.id] = w.row]
  /\ pending' = [pending EXCEPT ![h] = {}]
  /\ made' = [made EXCEPT ![h] = TRUE]
  /\ Goto(h, AfterWrite(h, TRUE))
  /\ UNCHANGED <<run, nodeSt, stepSt, seqNo, nextSeq, clock, queues, todo, cur,
                 copy, verdict, left, mark, history>>

\* update_memory: the whole row, except that it never re-activates one.
Merged(before, row) ==
  [row EXCEPT !.status = IF before.status # "active" THEN before.status ELSE @]

WriteBack(h, w) ==
  /\ w \in pending[h]
  /\ mem' = [mem EXCEPT ![w.id] = Merged(@, w.row)]
  /\ pending' = [pending EXCEPT ![h] = @ \ {w}]

FoldFact(h) ==
  /\ pc[h] = "update"
  /\ \E w \in pending[h] :
       /\ WriteBack(h, w)
       /\ Goto(h, IF pending[h] = {w} THEN AfterWrite(h, FALSE) ELSE "update")
  /\ UNCHANGED <<run, nodeSt, stepSt, seqNo, nextSeq, clock, queues, extraction,
                 copy, verdict, left, mark, history>>

\* get_memory and update_memory in one step: only branch_status is changed,
\* and update_memory keeps the lifecycle status the row has by then.
Isolate(h) ==
  /\ Move(h, "isolate", "next")
  /\ mem' = [mem EXCEPT ![<<h, cur[h]>>].branch = "rolled_back"]
  /\ UNCHANGED <<run, nodeSt, stepSt, seqNo, nextSeq, clock, queues, extraction, scratch, history>>

(***************************************************************************)
(* Draining.  Every natural boundary drains the deferred buffer, an        *)
(* explicit flush the explicit one as well, and the events are then        *)
(* extracted one by one in sequence order by the same handler.             *)
(***************************************************************************)
\* Mutant of Drain: the deferred events are read but not removed.
DrainWithoutClearing(h) ==
  /\ Move(h, "drain", "next")
  /\ todo' = [todo EXCEPT ![h] = buffer \cup (IF h \in Flushers THEN explicit ELSE {})]
  /\ UNCHANGED <<store, queues, cur, made, scratch, history>>

Drain(h) ==
  /\ Move(h, "drain", "next")
  /\ todo' = [todo EXCEPT ![h] = buffer \cup (IF h \in Flushers THEN explicit ELSE {})]
  /\ buffer' = {}
  /\ explicit' = IF h \in Flushers THEN {} ELSE explicit
  /\ UNCHANGED <<store, queue, cur, made, scratch, history>>

AfterFlush(h) ==
  IF h \in Rollbacks THEN "nodes" ELSE IF h \in Finishes THEN "summary" ELSE "done"

EndFlush(h) ==
  /\ todo[h] = {}
  /\ Move(h, "next", AfterFlush(h))
  /\ UNCHANGED <<store, queues, extraction, scratch, history>>

\* The broker hands a task to a worker, and may hand it out again once the
\* idempotency key of the task was released or has expired.
Deliver(w) ==
  /\ \E e \in queue :
       /\ todo' = [todo EXCEPT ![w] = {e}]
       /\ queue' \in {queue, queue \ {e}}
  /\ Move(w, "idle", "next")
  /\ UNCHANGED <<store, buffer, explicit, cur, made, scratch, history>>

Flush(f) ==
  /\ Move(f, "idle", "drain")
  /\ UNCHANGED <<store, queues, extraction, scratch, history>>

(***************************************************************************)
(* complete_run: the status is durable before the drain, so the events of  *)
(* a failed run are refused.  (Its summaries are left out.)                *)
(***************************************************************************)
CompleteRun(c) ==
  /\ Move(c, "idle", "drain")
  /\ run' \in RunStatus \ {"running"}
  /\ UNCHANGED <<nodeSt, stepSt, mem, seqNo, nextSeq, clock, queues, extraction, scratch, history>>

(***************************************************************************)
(* finish_step: step row, node row, drain, working-state memory.  Nothing  *)
(* looks at the status the step has when the request arrives.              *)
(***************************************************************************)
FinishBegin(f) ==
  /\ Move(f, "idle", "finish_step")
  /\ copy' = [copy EXCEPT ![f] = nodeSt[StepOf[f]]]
  /\ \E v \in Verdicts : verdict' = [verdict EXCEPT ![f] = v]
  /\ UNCHANGED <<store, queues, extraction, pending, left, mark, history>>

FinishStep(f) ==
  /\ Move(f, "finish_step", "finish_node")
  /\ stepSt' = [stepSt EXCEPT ![StepOf[f]] = verdict[f]]
  /\ owner' = [owner EXCEPT ![StepOf[f]] = Nobody]
  /\ UNCHANGED <<run, nodeSt, mem, seqNo, nextSeq, clock, queues, extraction, scratch, refused>>

\* apply_finish: an unfinished status leaves the node's as it was read.
Finished(old, v) ==
  IF v \in {"completed", "failed"} THEN v
  ELSE IF v \in {"cancelled", "rolled_back"} THEN "rolled_back" ELSE old

FinishNode(f) ==
  /\ Move(f, "finish_node", "drain")
  /\ nodeSt' = [nodeSt EXCEPT ![StepOf[f]] = Finished(copy[f], verdict[f])]
  /\ UNCHANGED <<run, stepSt, mem, seqNo, nextSeq, clock, queues, extraction, scratch, history>>

AddWorkingState(f) ==
  /\ Move(f, "summary", "done")
  /\ mem' = [mem EXCEPT ![<<f, f>>] =
       [branch |-> Finished("active", verdict[f]), status |-> "active", sources |-> {}, born |-> 0]]
  /\ UNCHANGED <<run, nodeSt, stepSt, seqNo, nextSeq, clock, queues, extraction, scratch, history>>

(***************************************************************************)
(* rollback_branch: drain, read the tree, mark node and step row of every  *)
(* node below the target, only then list the memories and flip them.       *)
(***************************************************************************)
RollbackBegin(r) ==
  /\ Move(r, "idle", "drain")
  /\ UNCHANGED <<store, queues, extraction, scratch, history>>

ListNodes(r) ==
  /\ Move(r, "nodes", "mark_node")
  /\ left' = [left EXCEPT ![r] = Subtree[StepOf[r]]]
  /\ UNCHANGED <<store, queues, extraction, pending, copy, verdict, mark, history>>

MarkNode(r) ==
  /\ Move(r, "mark_node", "mark_step")
  /\ \E s \in left[r] :
       /\ nodeSt' = [nodeSt EXCEPT ![s] = "rolled_back"]
       /\ mark' = [mark EXCEPT ![r] = s]
  /\ UNCHANGED <<run, stepSt, mem, seqNo, nextSeq, clock, queues, extraction,
                 pending, copy, verdict, left, history>>

MarkStep(r) ==
  /\ Move(r, "mark_step", IF left[r] = {mark[r]} THEN "list" ELSE "mark_node")
  /\ stepSt' = [stepSt EXCEPT ![mark[r]] = "rolled_back"]
  /\ owner' = [owner EXCEPT ![mark[r]] = r]
  /\ left' = [left EXCEPT ![r] = @ \ {mark[r]}]
  /\ UNCHANGED <<run, nodeSt, mem, seqNo, nextSeq, clock, queues, extraction,
                 pending, copy, verdict, mark, refused>>

InBranch(r) == {m \in MemIds : Exists(m) /\ StepOfMem(m) \in Subtree[StepOf[r]]}

ListMemories(r) ==
  /\ Move(r, "list", "flip")
  /\ pending' = [pending EXCEPT ![r] =
       {[id |-> m, row |-> [mem[m] EXCEPT !.branch = "rolled_back"]] : m \in InBranch(r)}]
  /\ UNCHANGED <<store, queues, extraction, copy, verdict, left, mark, history>>

FlipMemory(r) ==
  /\ pc[r] = "flip" /\ \E w \in pending[r] : WriteBack(r, w)
  /\ UNCHANGED <<run, nodeSt, stepSt, seqNo, nextSeq, clock, queues, pc, extraction,
                 copy, verdict, left, mark, history>>

RollbackEnd(r) ==
  /\ pending[r] = {}
  /\ Move(r, "flip", "done")
  /\ UNCHANGED <<store, queues, extraction, scratch, history>>

\* A repository call raises or the process dies; locals are gone for good.
\* An abandoned handler had added a memory and not finished its second check.
Rechecking == {"run", "node", "step", "isolate"}
Stopped == {"idle", "done", "failed", "abandoned"}
Fail(h) ==
  /\ MayFail /\ pc[h] \notin Stopped
  /\ Goto(h, IF made[h] /\ pc[h] \in Rechecking THEN "abandoned" ELSE "failed")
  /\ UNCHANGED <<store, queues, extraction, scratch, history>>

(***************************************************************************)
(* The system.                                                             *)
(***************************************************************************)
WriteEvent(e) ==
  \/ WriteBegin(e) \/ AppendEvent(e) \/ SkipExtraction(e) \/ BufferLazily(e)
  \/ BufferForExplicitFlush(e) \/ EnqueueTask(e) \/ ExtractInline(e)
  \/ CacheEventOnNode(e)

ProcessEventExtraction(h) ==
  \/ CheckDuplicate(h) \/ CheckRun(h) \/ CheckNode(h) \/ CheckStep(h)
  \/ AddToolEvidence(h) \/ ResolveFact(h) \/ AddFact(h) \/ FoldFact(h)
  \/ Isolate(h)

FlushSession(h) == Drain(h) \/ Pick(h) \/ EndFlush(h)

Finish(f) == FinishBegin(f) \/ FinishStep(f) \/ FinishNode(f) \/ AddWorkingState(f)

RollbackBranch(r) ==
  \/ RollbackBegin(r) \/ ListNodes(r) \/ MarkNode(r) \/ MarkStep(r)
  \/ ListMemories(r) \/ FlipMemory(r) \/ RollbackEnd(r)

Next ==
  \/ \E e \in Events : WriteEvent(e)
  \/ \E h \in Handlers : ProcessEventExtraction(h) \/ FlushSession(h) \/ Fail(h)
  \/ \E w \in Workers : Deliver(w)
  \/ \E f \in Flushers \cup Retrievals : Flush(f)
  \/ \E c \in Closers : CompleteRun(c)
  \/ \E f \in Finishes : Finish(f)
  \/ \E r \in Rollbacks : RollbackBranch(r)

Spec == Init /\ [][Next]_vars

-----------------------------------------------------------------------------
(***************************************************************************)
(* Properties.                                                             *)
(***************************************************************************)

Places ==
  {"idle", "append", "cache", "write", "next", "duplicate", "run", "node",
   "step", "isolate", "add", "update", "drain", "nodes", "summary",
   "finish_step", "finish_node", "mark_node", "mark_step", "list", "flip",
   "done", "failed", "abandoned"} \cup Modes

\* Every table holds values of its kind; in particular a node row never
\* takes a status only step rows have.
TypeOK ==
  /\ run \in RunStatus
  /\ nodeSt \in [Steps -> NodeStatus]
  /\ stepSt \in [Steps -> StepStatus]
  /\ mem \in [MemIds -> Row]
  /\ seqNo \in [Events -> Nat] /\ nextSeq \in Nat /\ clock \in Nat
  /\ buffer \subseteq Events /\ explicit \subseteq Events /\ queue \subseteq Events
  /\ pc \in [Handlers -> Places]
  /\ todo \in [Handlers -> SUBSET Events]
  /\ cur \in [Handlers -> Events \cup {NoEvent}]
  /\ made \in [Handlers -> BOOLEAN]
  /\ pending \in [Handlers -> SUBSET [id : MemIds, row : Row]]
  /\ copy \in [Handlers -> NodeStatus]
  /\ verdict \in [Finishes -> StepStatus]
  /\ left \in [Rollbacks -> SUBSET Steps]
  /\ mark \in [Rollbacks -> Steps \cup {NoStep}]
  /\ owner \in [Steps -> Rollbacks \cup {Nobody}]
  /\ refused \subseteq Events

\* The handler that added m is still before the end of its second check, or
\* died there.
Unchecked(m) ==
  /\ cur[m[1]] = m[2] /\ made[m[1]]
  /\ pc[m[1]] \in Rechecking \cup {"abandoned"}

\* Memories of tool results added by process_event_extraction.
IsDeferredEvidence(m) ==
  m[1] \notin Events /\ m[2] \in Events /\ KindOf[m[2]] # "message"

\* Once rollback_branch has returned, and while the step still carries its
\* mark, no evidence extracted from the branch by a deferred path counts as
\* completed: not what was extracted before, not what a worker or a flush was
\* extracting meanwhile, whatever stale node copies other requests wrote.
RollbackIsolation ==
  \A r \in Rollbacks, m \in MemIds :
    pc[r] = "done" /\ IsDeferredEvidence(m) /\ owner[StepOfMem(m)] = r
      => mem[m].branch # "completed" \/ Unchecked(m)

\* Concurrent flushes never extract a buffered event twice: draining hands
\* it to one of them.
DrainedOnce ==
  \A e \in Events :
    "async" \notin ModesOf[e] =>
      Cardinality({h \in Handlers : Exists(<<h, e>>)}) <= 1

Accounted(e) ==
  \/ e \in buffer \cup explicit \cup queue \cup refused
  \/ AlreadyExtracted(e)
  \/ \E h \in Handlers :
       \/ e \in todo[h]
       \/ cur[h] = e /\ pc[h] \in {"duplicate", "run", "node", "step", "write"}

\* While nothing fails, a deferred tool result is waiting somewhere, in some
\* handler's hands, extracted, or refused: it never just disappears.
NoSilentLoss ==
  \A e \in Events :
    /\ ModesOf[e] \subseteq {"lazy", "sync_flush", "async"}
    /\ KindOf[e] # "message" /\ pc[e] \in {"cache", "done"}
    => Accounted(e)

\* Concurrent folds never retire every copy of a fact: all of them agree on
\* the representative, so some copy stays active.
FactStaysLive ==
  (\E m \in MemIds : IsFact(m) /\ Exists(m)) => SameIdentityActives # {}

\* What rollback_branch promises for facts stated in user messages: "Flip
\* related memories to rolled_back", so none of the branch's own facts is
\* live and completed after it returned.
FactIsolation ==
  \A r \in Rollbacks, m \in MemIds :
    pc[r] = "done" /\ IsFact(m) /\ m[1] \notin Events /\ owner[StepOfMem(m)] = r
      => \/ mem[m].branch # "completed" \/ mem[m].status # "active"
         \/ Unchecked(m)
=============================================================================
