------------------------ MODULE EventExtraction_proofs ------------------------
(***************************************************************************)
(* Proofs about EventExtraction, for any sets of steps, events and         *)
(* requests: its tables stay well typed; evidence extracted from a branch  *)
(* by a deferred path never survives the rollback of that branch; an event *)
(* that no broker was given is extracted by one handler at most; a         *)
(* deferred tool result is never lost while nothing fails; and folding     *)
(* leaves a copy of a fact active.                                         *)
(***************************************************************************)
EXTENDS EventExtraction, FiniteSetTheorems, WellFoundedInduction, TLAPS

\* Where a handler stands while cur names the event it is working on.
Extracting ==
  {"duplicate", "run", "node", "step", "write", "add", "update", "isolate",
   "abandoned"}

\* A handler that extracts works on an event.
CurOK == \A h \in Handlers : pc[h] \in Extracting => cur[h] \in Events

Typed == TypeOK /\ CurOK

LEMMA InitTyped == Init => Typed
  BY Tables DEF Init, Typed, TypeOK, CurOK, RunStatus, NodeStatus, StepStatus,
     Row, NoRow, Branches, Places, Extracting, NoEvent, NoStep, Nobody

\* A row that is written back is the row of a memory.
LEMMA WriteBackTyped ==
  ASSUME TypeOK, NEW h \in Handlers, NEW w \in pending[h], WriteBack(h, w)
  PROVE  /\ w.id \in MemIds /\ w.row \in Row
         /\ mem' \in [MemIds -> Row]
         /\ pending' \in [Handlers -> SUBSET [id : MemIds, row : Row]]
<1>1. pending[h] \in SUBSET [id : MemIds, row : Row]
  BY DEF TypeOK
<1>2. w.id \in MemIds /\ w.row \in Row
  BY <1>1
<1>3. mem[w.id] \in Row
  BY <1>2 DEF TypeOK
<1>4. Merged(mem[w.id], w.row) \in Row
  BY <1>2, <1>3 DEF Row, Merged
<1>5. mem' = [mem EXCEPT ![w.id] = Merged(mem[w.id], w.row)]
  BY DEF WriteBack
<1>6. mem' \in [MemIds -> Row]
  BY <1>2, <1>4, <1>5 DEF TypeOK
<1>7. pending' \in [Handlers -> SUBSET [id : MemIds, row : Row]]
  BY <1>1 DEF WriteBack, TypeOK
<1>8. QED
  BY <1>2, <1>6, <1>7

\* What the resolver computes is a set of rows to write back.
LEMMA FoldedTyped ==
  ASSUME TypeOK, NEW primary \in SameIdentityActives, NEW e \in Events
  PROVE  Folded(primary, SameIdentityActives, e) \subseteq [id : MemIds, row : Row]
<1> DEFINE sources == {d \in Events : d = e \/ \E m \in SameIdentityActives :
                                                d = m[2] \/ d \in mem[m].sources}
<1>1. SameIdentityActives \subseteq MemIds /\ \A m \in SameIdentityActives : m[2] \in Events
  BY DEF SameIdentityActives, IsFact
<1>2. \A m \in MemIds : mem[m] \in Row
  BY DEF TypeOK
<1>3. sources \in SUBSET Events
  OBVIOUS
<1>4. [mem[primary] EXCEPT !.sources = sources] \in Row
  BY <1>1, <1>2, <1>3 DEF Row
<1>5. \A m \in SameIdentityActives : [mem[m] EXCEPT !.status = "superseded"] \in Row
  BY <1>1, <1>2 DEF Row
<1>6. /\ [id |-> primary, row |-> [mem[primary] EXCEPT !.sources = sources]]
           \in [id : MemIds, row : Row]
      /\ \A m \in SameIdentityActives :
           [id |-> m, row |-> [mem[m] EXCEPT !.status = "superseded"]]
             \in [id : MemIds, row : Row]
  BY <1>1, <1>4, <1>5
<1>7. QED
  BY <1>6 DEF Folded

\* Changing the branch of a row leaves a row.
LEMMA RolledBackRow == \A row \in Row : [row EXCEPT !.branch = "rolled_back"] \in Row
  BY DEF Row, Branches

\* Every step keeps the tables well typed.
LEMMA NextTyped == Typed /\ [Next]_vars => Typed'
<1> SUFFICES ASSUME Typed, [Next]_vars PROVE Typed'
  OBVIOUS
<1> USE DEF Typed, TypeOK, CurOK, vars, store, queues, extraction, scratch, history,
            Move, Goto, Places, Modes, Extracting
<1>1. ASSUME NEW e \in Events, WriteEvent(e) PROVE Typed'
  <2> e \in Handlers BY DEF Handlers
  <2>1. CASE WriteBegin(e)
    <3>1. nodeSt[StepOf[e]] \in NodeStatus
      BY Tables
    <3>2. QED
      BY <2>1, <3>1 DEF WriteBegin
  <2>2. CASE AppendEvent(e)
    <3>1. PICK mode \in ModesOf[e] : pc' = [pc EXCEPT ![e] = mode]
      BY <2>2 DEF AppendEvent
    <3>2. ModesOf[e] \subseteq Modes
      BY Tables
    <3>3. mode \in Modes
      BY <3>2
    <3>4. QED
      BY <2>2, <3>1, <3>3 DEF AppendEvent
  <2>3. CASE SkipExtraction(e)
    BY <2>3 DEF SkipExtraction
  <2>4. CASE BufferLazily(e)
    BY <2>4 DEF BufferLazily
  <2>5. CASE BufferForExplicitFlush(e)
    BY <2>5 DEF BufferForExplicitFlush
  <2>6. CASE EnqueueTask(e)
    BY <2>6 DEF EnqueueTask
  <2>7. CASE ExtractInline(e)
    BY <2>7 DEF ExtractInline
  <2>8. CASE CacheEventOnNode(e)
    BY <2>8, Tables DEF CacheEventOnNode
  <2>9. QED
    BY <1>1, <2>1, <2>2, <2>3, <2>4, <2>5, <2>6, <2>7, <2>8 DEF WriteEvent
<1>2. ASSUME NEW h \in Handlers, ProcessEventExtraction(h) PROVE Typed'
  <2>1. CASE CheckDuplicate(h)
    BY <2>1 DEF CheckDuplicate
  <2>2. CASE CheckRun(h)
    BY <2>2 DEF CheckRun, Judge
  <2>3. CASE CheckNode(h)
    BY <2>3 DEF CheckNode, Judge
  <2>4. CASE CheckStep(h)
    BY <2>4 DEF CheckStep, Judge
  <2>5. CASE AddToolEvidence(h)
    BY <2>5, Tables DEF AddToolEvidence, AfterWrite, FreshRow, Row, Branches, MemIds
  <2>6. CASE ResolveFact(h)
    <3>1. CASE SameIdentityActives = {} /\ pc' = [pc EXCEPT ![h] = "add"]
               /\ pending' = [pending EXCEPT ![h] =
                    {[id |-> <<h, cur[h]>>, row |-> FreshRow(cur[h], clock)]}]
               /\ clock' = clock + 1
      BY <2>6, <3>1 DEF ResolveFact, FreshRow, Row, Branches, MemIds
    <3>2. ASSUME NEW primary \in SameIdentityActives, pc' = [pc EXCEPT ![h] = "update"],
                 pending' = [pending EXCEPT ![h] =
                               Folded(primary, SameIdentityActives, cur[h])],
                 clock' = clock
          PROVE  Typed'
      <4>1. Folded(primary, SameIdentityActives, cur[h]) \subseteq [id : MemIds, row : Row]
        BY <2>6, FoldedTyped DEF ResolveFact
      <4>2. QED
        BY <2>6, <3>2, <4>1 DEF ResolveFact
    <3>3. QED
      BY <2>6, <3>1, <3>2 DEF ResolveFact
  <2>7. CASE AddFact(h)
    BY <2>7 DEF AddFact, AfterWrite
  <2>8. CASE FoldFact(h)
    <3>1. PICK w \in pending[h] :
            /\ WriteBack(h, w)
            /\ pc' = [pc EXCEPT ![h] = IF pending[h] = {w} THEN AfterWrite(h, FALSE)
                                                         ELSE "update"]
      BY <2>8 DEF FoldFact
    <3>2. /\ mem' \in [MemIds -> Row]
          /\ pending' \in [Handlers -> SUBSET [id : MemIds, row : Row]]
      BY <3>1, WriteBackTyped
    <3>3. QED
      BY <2>8, <3>1, <3>2 DEF FoldFact, AfterWrite
  <2>9. CASE Isolate(h)
    <3>1. cur[h] \in Events /\ <<h, cur[h]>> \in MemIds
      BY <2>9 DEF Isolate, MemIds
    <3>2. mem[<<h, cur[h]>>] \in Row /\ "rolled_back" \in Branches
      BY <3>1 DEF Branches
    <3>3. mem' \in [MemIds -> Row]
      BY <2>9, <3>1, <3>2 DEF Isolate, Row
    <3>4. QED
      BY <2>9, <3>3 DEF Isolate
  <2>10. QED
    BY <1>2, <2>1, <2>2, <2>3, <2>4, <2>5, <2>6, <2>7, <2>8, <2>9
       DEF ProcessEventExtraction
<1>3. ASSUME NEW h \in Handlers, FlushSession(h) PROVE Typed'
  <2>1. CASE Drain(h)
    BY <2>1 DEF Drain
  <2>2. CASE Pick(h)
    BY <2>2 DEF Pick
  <2>3. CASE EndFlush(h)
    BY <2>3 DEF EndFlush, AfterFlush
  <2>4. QED
    BY <1>3, <2>1, <2>2, <2>3 DEF FlushSession
<1>4. ASSUME NEW h \in Handlers, Fail(h) PROVE Typed'
  BY <1>4 DEF Fail, Rechecking, Stopped
<1>5. ASSUME NEW w \in Workers, Deliver(w) PROVE Typed'
  BY <1>5 DEF Deliver, Handlers
<1>6. ASSUME NEW f \in Flushers \cup Retrievals, Flush(f) PROVE Typed'
  BY <1>6 DEF Flush, Handlers
<1>7. ASSUME NEW c \in Closers, CompleteRun(c) PROVE Typed'
  BY <1>7 DEF CompleteRun, Handlers
<1>8. ASSUME NEW f \in Finishes, Finish(f) PROVE Typed'
  <2> f \in Handlers BY DEF Handlers
  <2> USE Tables DEF NodeStatus, StepStatus, Finished
  <2>1. CASE FinishBegin(f)
    BY <2>1 DEF FinishBegin
  <2>2. CASE FinishStep(f)
    BY <2>2 DEF FinishStep
  <2>3. CASE FinishNode(f)
    BY <2>3 DEF FinishNode
  <2>4. CASE AddWorkingState(f)
    BY <2>4 DEF AddWorkingState, Row, Branches, MemIds
  <2>5. QED
    BY <1>8, <2>1, <2>2, <2>3, <2>4 DEF Finish
<1>9. ASSUME NEW r \in Rollbacks, RollbackBranch(r) PROVE Typed'
  <2> r \in Handlers BY DEF Handlers
  <2>1. CASE RollbackBegin(r)
    BY <2>1 DEF RollbackBegin
  <2>2. CASE ListNodes(r)
    BY <2>2, Tables DEF ListNodes
  <2>3. CASE MarkNode(r)
    BY <2>3 DEF MarkNode, NodeStatus
  <2>4. CASE MarkStep(r)
    BY <2>4 DEF MarkStep, StepStatus
  <2>5. CASE ListMemories(r)
    <3>1. InBranch(r) \subseteq MemIds
      BY DEF InBranch
    <3>2. \A m \in InBranch(r) :
            [id |-> m, row |-> [mem[m] EXCEPT !.branch = "rolled_back"]] \in [id : MemIds, row : Row]
      <4>1. \A m \in InBranch(r) : mem[m] \in Row
        BY <3>1
      <4>2. QED
        BY <3>1, <4>1, RolledBackRow, Zenon
    <3>3. {[id |-> m, row |-> [mem[m] EXCEPT !.branch = "rolled_back"]] : m \in InBranch(r)}
            \subseteq [id : MemIds, row : Row]
      BY <3>2, Zenon
    <3>4. pending' \in [Handlers -> SUBSET [id : MemIds, row : Row]]
      BY <2>5, <3>3 DEF ListMemories
    <3>5. QED
      BY <2>5, <3>4 DEF ListMemories
  <2>6. CASE FlipMemory(r)
    <3>1. PICK w \in pending[r] : WriteBack(r, w)
      BY <2>6 DEF FlipMemory
    <3>2. /\ mem' \in [MemIds -> Row]
          /\ pending' \in [Handlers -> SUBSET [id : MemIds, row : Row]]
      BY <3>1, WriteBackTyped
    <3>3. QED
      BY <2>6, <3>2 DEF FlipMemory
  <2>7. CASE RollbackEnd(r)
    BY <2>7 DEF RollbackEnd
  <2>8. QED
    BY <1>9, <2>1, <2>2, <2>3, <2>4, <2>5, <2>6, <2>7 DEF RollbackBranch
<1>10. CASE UNCHANGED vars
  BY <1>10
<1>11. QED
  BY <1>1, <1>2, <1>3, <1>4, <1>5, <1>6, <1>7, <1>8, <1>9, <1>10 DEF Next

\* The tables stay well typed in every run of every instance: in particular
\* a stale row written back is still a row, and node rows never take a
\* step-only status.
THEOREM TypeCorrect == Spec => []TypeOK
<1>1. Typed => TypeOK
  BY DEF Typed
<1>2. QED
  BY <1>1, InitTyped, NextTyped, PTL DEF Spec

-----------------------------------------------------------------------------
(***************************************************************************)
(* The inductive invariant behind RollbackIsolation.                       *)
(***************************************************************************)

\* A rollback marks steps of the branch it was asked for only.
LeftOK ==
  \A r \in Rollbacks :
    /\ left[r] \subseteq Subtree[StepOf[r]]
    /\ pc[r] = "mark_step" => mark[r] \in left[r]

\* While a step row shows a rollback's mark it reads rolled_back.
OwnerMarked ==
  \A s \in Steps :
    owner[s] # Nobody => stepSt[s] = "rolled_back" /\ s \in Subtree[StepOf[owner[s]]]

\* Folding writes facts back, a rollback writes rolled-back rows.
PendingRows ==
  \A h \in Handlers : \A w \in pending[h] :
    /\ pc[h] \in {"add", "update"} => IsFact(w.id)
    /\ pc[h] = "flip" => w.row.branch = "rolled_back"

\* Evidence still completed in a branch whose memories have been listed is
\* either on the rollback's list or before its second check.
Flipping ==
  \A r \in Rollbacks, m \in MemIds :
    /\ pc[r] \in {"flip", "done"} /\ IsDeferredEvidence(m)
    /\ owner[StepOfMem(m)] = r /\ mem[m].branch = "completed"
    => \/ Unchecked(m)
       \/ pc[r] = "flip" /\ \E w \in pending[r] : w.id = m

IInv == Typed /\ LeftOK /\ OwnerMarked /\ PendingRows /\ Flipping

LEMMA InitInv == Init => IInv
<1> SUFFICES ASSUME Init PROVE IInv
  OBVIOUS
<1>1. Typed
  BY InitTyped
<1>2. LeftOK /\ OwnerMarked /\ PendingRows
  BY DEF Init, LeftOK, OwnerMarked, PendingRows, Handlers
<1>3. Flipping
  BY DEF Init, Flipping, Handlers
<1>4. QED
  BY <1>1, <1>2, <1>3 DEF IInv

(***************************************************************************)
(* Marks.                                                                  *)
(***************************************************************************)
\* A step that leaves steps, marks and owners alone keeps the marks right.
LEMMA MarksFrame ==
  ASSUME LeftOK, OwnerMarked, UNCHANGED <<stepSt, left, mark, owner>>,
         \A r \in Rollbacks : pc'[r] = "mark_step" => pc[r] = "mark_step"
  PROVE  LeftOK' /\ OwnerMarked'
  BY DEF LeftOK, OwnerMarked

LEMMA NextMarks ==
  ASSUME Typed, LeftOK, OwnerMarked, [Next]_vars
  PROVE  LeftOK' /\ OwnerMarked'
<1> USE DEF vars, store, queues, extraction, scratch, history, Move, Goto
<1>1. pc \in [Handlers -> Places] /\ Rollbacks \subseteq Handlers
  BY DEF Typed, TypeOK, Handlers
<1>2. ASSUME NEW e \in Events, WriteEvent(e) PROVE LeftOK' /\ OwnerMarked'
  <2>1. e \in Handlers /\ e \notin Rollbacks
    BY DisjointHandlers DEF Handlers
  <2>2. UNCHANGED <<stepSt, left, mark, owner>>
    BY <1>2 DEF WriteEvent, WriteBegin, AppendEvent, SkipExtraction, BufferLazily,
       BufferForExplicitFlush, EnqueueTask, ExtractInline, CacheEventOnNode
  <2>3. PICK place : pc' = [pc EXCEPT ![e] = place]
    BY <1>2 DEF WriteEvent, WriteBegin, AppendEvent, SkipExtraction, BufferLazily,
       BufferForExplicitFlush, EnqueueTask, ExtractInline, CacheEventOnNode
  <2>4. QED
    BY <1>1, <2>1, <2>2, <2>3, MarksFrame
<1>3. ASSUME NEW h \in Handlers, ProcessEventExtraction(h) PROVE LeftOK' /\ OwnerMarked'
  <2>1. UNCHANGED <<stepSt, left, mark, owner>>
    BY <1>3 DEF ProcessEventExtraction, CheckDuplicate, CheckRun, CheckNode, CheckStep,
       Judge, AddToolEvidence, ResolveFact, AddFact, FoldFact, Isolate
  <2>2. PICK place : place # "mark_step" /\ pc' = [pc EXCEPT ![h] = place]
    BY <1>3 DEF ProcessEventExtraction, CheckDuplicate, CheckRun, CheckNode, CheckStep,
       Judge, AddToolEvidence, ResolveFact, AddFact, FoldFact, Isolate, AfterWrite
  <2>3. QED
    BY <1>1, <2>1, <2>2, MarksFrame
<1>4. ASSUME NEW h \in Handlers, FlushSession(h) PROVE LeftOK' /\ OwnerMarked'
  BY <1>1, <1>4, MarksFrame DEF FlushSession, Drain, Pick, EndFlush, AfterFlush
<1>5. ASSUME NEW h \in Handlers, Fail(h) PROVE LeftOK' /\ OwnerMarked'
  BY <1>1, <1>5, MarksFrame DEF Fail
<1>6. ASSUME NEW w \in Workers, Deliver(w) PROVE LeftOK' /\ OwnerMarked'
  BY <1>1, <1>6, MarksFrame DEF Deliver
<1>7. ASSUME NEW f \in Flushers \cup Retrievals, Flush(f) PROVE LeftOK' /\ OwnerMarked'
  BY <1>1, <1>7, MarksFrame DEF Flush
<1>8. ASSUME NEW c \in Closers, CompleteRun(c) PROVE LeftOK' /\ OwnerMarked'
  BY <1>1, <1>8, MarksFrame DEF CompleteRun
<1>9. ASSUME NEW f \in Finishes, Finish(f) PROVE LeftOK' /\ OwnerMarked'
  <2>1. CASE FinishStep(f)
    <3>1. StepOf[f] \in Steps
      BY Tables
    <3>2. LeftOK'
      BY <1>1, <2>1 DEF FinishStep, LeftOK
    <3>3. OwnerMarked'
      BY <2>1, <3>1 DEF FinishStep, OwnerMarked, Typed, TypeOK
    <3>4. QED
      BY <3>2, <3>3
  <2>2. CASE FinishBegin(f) \/ FinishNode(f) \/ AddWorkingState(f)
    BY <1>1, <2>2, MarksFrame DEF FinishBegin, FinishNode, AddWorkingState
  <2>3. QED
    BY <1>9, <2>1, <2>2 DEF Finish
<1>10. ASSUME NEW r \in Rollbacks, RollbackBranch(r) PROVE LeftOK' /\ OwnerMarked'
  <2>1. left \in [Rollbacks -> SUBSET Steps] /\ r \in Handlers
    BY DEF Typed, TypeOK, Handlers
  <2>2. CASE ListNodes(r)
    BY <1>1, <2>1, <2>2 DEF ListNodes, LeftOK, OwnerMarked
  <2>3. CASE MarkNode(r)
    <3>1. PICK s \in left[r] : mark' = [mark EXCEPT ![r] = s]
      BY <2>3 DEF MarkNode
    <3>2. mark \in [Rollbacks -> Steps \cup {NoStep}]
      BY DEF Typed, TypeOK
    <3>3. QED
      BY <1>1, <2>1, <2>3, <3>1, <3>2 DEF MarkNode, LeftOK, OwnerMarked
  <2>4. CASE MarkStep(r)
    <3>1. mark[r] \in Steps /\ mark[r] \in Subtree[StepOf[r]]
      BY <2>1, <2>4 DEF MarkStep, LeftOK
    <3>2. LeftOK'
      BY <1>1, <2>1, <2>4 DEF MarkStep, LeftOK
    <3>3. OwnerMarked'
      BY <2>4, <3>1 DEF MarkStep, OwnerMarked, Typed, TypeOK
    <3>4. QED
      BY <3>2, <3>3
  <2>5. CASE RollbackBegin(r) \/ ListMemories(r) \/ FlipMemory(r) \/ RollbackEnd(r)
    BY <1>1, <2>5, MarksFrame DEF RollbackBegin, ListMemories, FlipMemory, RollbackEnd
  <2>6. QED
    BY <1>10, <2>2, <2>3, <2>4, <2>5 DEF RollbackBranch
<1>11. CASE UNCHANGED vars
  BY <1>11, MarksFrame
<1>12. QED
  BY <1>2, <1>3, <1>4, <1>5, <1>6, <1>7, <1>8, <1>9, <1>10, <1>11 DEF Next

(***************************************************************************)
(* Rows waiting to be written back.                                        *)
(***************************************************************************)
\* A step that computes no rows and enters no place that writes them.
LEMMA PendingFrame ==
  ASSUME PendingRows, UNCHANGED pending,
         \A h \in Handlers : pc'[h] \in {"add", "update", "flip"} => pc'[h] = pc[h]
  PROVE  PendingRows'
  BY DEF PendingRows, IsFact

LEMMA NextPending ==
  ASSUME Typed, PendingRows, [Next]_vars
  PROVE  PendingRows'
<1> USE DEF vars, store, queues, extraction, scratch, history, Move, Goto
<1>1. /\ pc \in [Handlers -> Places]
      /\ pending \in [Handlers -> SUBSET [id : MemIds, row : Row]]
  BY DEF Typed, TypeOK
<1>2. ASSUME NEW e \in Events, WriteEvent(e) PROVE PendingRows'
  <2>1. UNCHANGED pending
    BY <1>2 DEF WriteEvent, WriteBegin, AppendEvent, SkipExtraction, BufferLazily,
       BufferForExplicitFlush, EnqueueTask, ExtractInline, CacheEventOnNode
  <2>2. PICK place : pc' = [pc EXCEPT ![e] = place] /\ place \notin {"add", "update", "flip"}
    <3>1. ModesOf[e] \subseteq Modes
      BY Tables
    <3>2. QED
      BY <1>2, <3>1 DEF WriteEvent, WriteBegin, AppendEvent, SkipExtraction, BufferLazily,
         BufferForExplicitFlush, EnqueueTask, ExtractInline, CacheEventOnNode, Modes
  <2>3. QED
    BY <1>1, <2>1, <2>2, PendingFrame
<1>3. ASSUME NEW h \in Handlers, ProcessEventExtraction(h) PROVE PendingRows'
  <2>1. CASE CheckDuplicate(h) \/ CheckRun(h) \/ CheckNode(h) \/ CheckStep(h)
    BY <1>1, <2>1, PendingFrame DEF CheckDuplicate, CheckRun, CheckNode, CheckStep, Judge
  <2>2. CASE AddToolEvidence(h) \/ Isolate(h)
    BY <1>1, <2>2, PendingFrame DEF AddToolEvidence, Isolate, AfterWrite
  <2>3. CASE ResolveFact(h)
    <3>1. cur[h] \in Events /\ KindOf[cur[h]] = "message"
      BY <2>3 DEF ResolveFact, Typed, CurOK, Extracting
    <3>2. \A w \in pending'[h] : IsFact(w.id)
      <4>1. CASE pending' = [pending EXCEPT ![h] =
                   {[id |-> <<h, cur[h]>>, row |-> FreshRow(cur[h], clock)]}]
        BY <1>1, <3>1, <4>1 DEF IsFact
      <4>2. ASSUME NEW primary \in SameIdentityActives,
                   pending' = [pending EXCEPT ![h] =
                     Folded(primary, SameIdentityActives, cur[h])]
            PROVE  \A w \in pending'[h] : IsFact(w.id)
        <5>1. \A m \in SameIdentityActives : IsFact(m)
          BY DEF SameIdentityActives
        <5>2. pending'[h] = Folded(primary, SameIdentityActives, cur[h])
          BY <1>1, <4>2
        <5>3. \A w \in Folded(primary, SameIdentityActives, cur[h]) :
                w.id \in SameIdentityActives
          BY DEF Folded
        <5>4. QED
          BY <5>1, <5>2, <5>3
      <4>3. QED
        BY <2>3, <4>1, <4>2 DEF ResolveFact
    <3>3. \/ pc' = [pc EXCEPT ![h] = "add"]
          \/ pc' = [pc EXCEPT ![h] = "update"]
      BY <2>3 DEF ResolveFact
    <3>4. \A g \in Handlers : g # h => pending'[g] = pending[g] /\ pc'[g] = pc[g]
      BY <1>1, <2>3, <3>3 DEF ResolveFact
    <3>5. pc'[h] # "flip"
      BY <1>1, <3>3
    <3>6. QED
      BY <3>2, <3>4, <3>5 DEF PendingRows, IsFact
  <2>4. CASE AddFact(h)
    <3>1. pending' = [pending EXCEPT ![h] = {}]
      BY <2>4 DEF AddFact
    <3>2. PICK place : pc' = [pc EXCEPT ![h] = place]
      BY <2>4 DEF AddFact
    <3>3. QED
      BY <1>1, <3>1, <3>2 DEF PendingRows, IsFact
  <2>5. CASE FoldFact(h)
    <3>1. PICK w \in pending[h] : pending' = [pending EXCEPT ![h] = @ \ {w}]
      BY <2>5 DEF FoldFact, WriteBack
    <3>2. pc[h] = "update"
      BY <2>5 DEF FoldFact
    <3>3. PICK place : place # "flip" /\ pc' = [pc EXCEPT ![h] = place]
      BY <2>5 DEF FoldFact, AfterWrite
    <3>4. QED
      BY <1>1, <3>1, <3>2, <3>3 DEF PendingRows, IsFact
  <2>6. QED
    BY <1>3, <2>1, <2>2, <2>3, <2>4, <2>5 DEF ProcessEventExtraction
<1>4. ASSUME NEW h \in Handlers, FlushSession(h) PROVE PendingRows'
  BY <1>1, <1>4, PendingFrame DEF FlushSession, Drain, Pick, EndFlush, AfterFlush
<1>5. ASSUME NEW h \in Handlers, Fail(h) PROVE PendingRows'
  BY <1>1, <1>5, PendingFrame DEF Fail
<1>6. ASSUME NEW w \in Workers, Deliver(w) PROVE PendingRows'
  BY <1>1, <1>6, PendingFrame DEF Deliver
<1>7. ASSUME NEW f \in Flushers \cup Retrievals, Flush(f) PROVE PendingRows'
  BY <1>1, <1>7, PendingFrame DEF Flush
<1>8. ASSUME NEW c \in Closers, CompleteRun(c) PROVE PendingRows'
  BY <1>1, <1>8, PendingFrame DEF CompleteRun
<1>9. ASSUME NEW f \in Finishes, Finish(f) PROVE PendingRows'
  BY <1>1, <1>9, PendingFrame DEF Finish, FinishBegin, FinishStep, FinishNode, AddWorkingState
<1>10. ASSUME NEW r \in Rollbacks, RollbackBranch(r) PROVE PendingRows'
  <2>1. r \in Handlers
    BY DEF Handlers
  <2>2. CASE RollbackBegin(r) \/ ListNodes(r) \/ MarkNode(r) \/ MarkStep(r) \/ RollbackEnd(r)
    BY <1>1, <2>2, PendingFrame DEF RollbackBegin, ListNodes, MarkNode, MarkStep, RollbackEnd
  <2>3. CASE ListMemories(r)
    <3>1. \A m \in InBranch(r) : [mem[m] EXCEPT !.branch = "rolled_back"].branch = "rolled_back"
      BY DEF InBranch, Typed, TypeOK, Row
    <3>2. /\ pc' = [pc EXCEPT ![r] = "flip"]
          /\ pending' = [pending EXCEPT ![r] =
               {[id |-> m, row |-> [mem[m] EXCEPT !.branch = "rolled_back"]] : m \in InBranch(r)}]
      BY <2>3 DEF ListMemories
    <3>3. \A w \in pending'[r] : w.row.branch = "rolled_back"
      <4>1. pending'[r] = {[id |-> m, row |-> [mem[m] EXCEPT !.branch = "rolled_back"]]
                             : m \in InBranch(r)}
        BY <1>1, <2>1, <3>2
      <4>2. ASSUME NEW w \in pending'[r] PROVE w.row.branch = "rolled_back"
        <5>1. PICK m \in InBranch(r) :
                w = [id |-> m, row |-> [mem[m] EXCEPT !.branch = "rolled_back"]]
          BY <4>1, Zenon
        <5>2. w.row = [mem[m] EXCEPT !.branch = "rolled_back"]
          BY <5>1
        <5>3. QED
          BY <3>1, <5>2
      <4>3. QED
        BY <4>2
    <3>4. QED
      BY <1>1, <2>1, <3>2, <3>3 DEF PendingRows, IsFact
  <2>4. CASE FlipMemory(r)
    <3>1. PICK w \in pending[r] : pending' = [pending EXCEPT ![r] = @ \ {w}]
      BY <2>4 DEF FlipMemory, WriteBack
    <3>2. pc' = pc
      BY <2>4 DEF FlipMemory
    <3>3. QED
      BY <1>1, <2>1, <3>1, <3>2 DEF PendingRows, IsFact
  <2>5. QED
    BY <1>10, <2>2, <2>3, <2>4 DEF RollbackBranch
<1>11. CASE UNCHANGED vars
  BY <1>11, PendingFrame
<1>12. QED
  BY <1>2, <1>3, <1>4, <1>5, <1>6, <1>7, <1>8, <1>9, <1>10, <1>11 DEF Next

(***************************************************************************)
(* Evidence in a rolled-back branch.                                       *)
(***************************************************************************)
\* Flipping survives a step that completes no deferred evidence, sends no
\* rollback into "flip" or "done", gives no step a new owner, and takes no
\* unchecked memory or listed row away.
LEMMA FlippingFrame ==
  ASSUME Flipping,
         \A m \in MemIds : IsDeferredEvidence(m) /\ mem'[m].branch = "completed"
                             => mem[m].branch = "completed" \/ Unchecked(m)',
         \A m \in MemIds : IsDeferredEvidence(m) /\ Unchecked(m) => Unchecked(m)',
         \A r \in Rollbacks : pc'[r] \in {"flip", "done"} =>
                                pc'[r] = pc[r] /\ pending'[r] = pending[r],
         \A s \in Steps, r \in Rollbacks : owner'[s] = r => owner[s] = r
  PROVE  Flipping'
<1>1. \A m \in MemIds : IsDeferredEvidence(m) => StepOfMem(m) \in Steps
  BY Tables DEF IsDeferredEvidence, StepOfMem
<1>2. QED
  BY <1>1 DEF Flipping, IsDeferredEvidence, StepOfMem

\* The part of FlippingFrame's hypotheses about unchecked memories, for a step
\* of one handler that neither adds a memory nor takes up another event.
LEMMA UncheckedFrame ==
  ASSUME Typed, NEW h \in Handlers, NEW place, pc' = [pc EXCEPT ![h] = place],
         made[h] /\ pc[h] \in Rechecking \cup {"abandoned"}
           => place \in Rechecking \cup {"abandoned"},
         UNCHANGED <<cur, made>>
  PROVE  \A m \in MemIds : Unchecked(m) => Unchecked(m)'
<1>1. pc \in [Handlers -> Places]
  BY DEF Typed, TypeOK
<1>2. \A m \in MemIds : m[1] \in Handlers
  BY DEF MemIds
<1>3. QED
  BY <1>1, <1>2 DEF Unchecked, Rechecking

LEMMA NextFlipping ==
  ASSUME IInv, [Next]_vars
  PROVE  Flipping'
<1> USE DEF vars, store, queues, extraction, scratch, history, Move, Goto
<1>1. /\ pc \in [Handlers -> Places] /\ mem \in [MemIds -> Row]
      /\ cur \in [Handlers -> Events \cup {NoEvent}] /\ made \in [Handlers -> BOOLEAN]
      /\ pending \in [Handlers -> SUBSET [id : MemIds, row : Row]]
      /\ Rollbacks \subseteq Handlers /\ Events \subseteq Handlers
      /\ \A m \in MemIds : m[1] \in Handlers
  BY DEF IInv, Typed, TypeOK, Handlers, MemIds
<1>2. Typed /\ LeftOK /\ OwnerMarked /\ PendingRows /\ Flipping
  BY DEF IInv
<1>3. ASSUME NEW e \in Events, WriteEvent(e) PROVE Flipping'
  <2>1. e \notin Rollbacks
    BY DisjointHandlers
  <2>2. UNCHANGED <<mem, made, pending, owner>>
    BY <1>3 DEF WriteEvent, WriteBegin, AppendEvent, SkipExtraction, BufferLazily,
       BufferForExplicitFlush, EnqueueTask, ExtractInline, CacheEventOnNode
  <2>3. PICK place : pc' = [pc EXCEPT ![e] = place]
    BY <1>3 DEF WriteEvent, WriteBegin, AppendEvent, SkipExtraction, BufferLazily,
       BufferForExplicitFlush, EnqueueTask, ExtractInline, CacheEventOnNode
  <2>4. cur' = cur \/ cur' = [cur EXCEPT ![e] = e]
    BY <1>3 DEF WriteEvent, WriteBegin, AppendEvent, SkipExtraction, BufferLazily,
       BufferForExplicitFlush, EnqueueTask, ExtractInline, CacheEventOnNode
  <2>5. \A m \in MemIds : IsDeferredEvidence(m) /\ Unchecked(m) => Unchecked(m)'
    BY <1>1, <2>2, <2>3, <2>4 DEF IsDeferredEvidence, Unchecked
  <2>6. \A r \in Rollbacks : pc'[r] = pc[r]
    BY <1>1, <2>1, <2>3
  <2>7. QED
    BY <1>2, <2>2, <2>5, <2>6, FlippingFrame
<1>4. ASSUME NEW h \in Handlers, ProcessEventExtraction(h) PROVE Flipping'
  <2>1. UNCHANGED owner
    BY <1>4 DEF ProcessEventExtraction, CheckDuplicate, CheckRun, CheckNode, CheckStep,
       Judge, AddToolEvidence, ResolveFact, AddFact, FoldFact, Isolate
  <2>2. CASE CheckDuplicate(h) \/ CheckRun(h) \/ CheckNode(h)
    <3>1. PICK place \in {"next", "run", "node", "step", "isolate"} :
            /\ pc' = [pc EXCEPT ![h] = place]
            /\ made[h] /\ pc[h] \in Rechecking \cup {"abandoned"} => place # "next"
      BY <1>1, <2>2 DEF CheckDuplicate, CheckRun, CheckNode, Judge, Rechecking
    <3>2. UNCHANGED <<mem, cur, made, pending>>
      BY <2>2 DEF CheckDuplicate, CheckRun, CheckNode, Judge
    <3>3. \A m \in MemIds : Unchecked(m) => Unchecked(m)'
      BY <1>2, <3>1, <3>2, UncheckedFrame DEF Rechecking
    <3>4. \A r \in Rollbacks : pc'[r] \in {"flip", "done"} => pc'[r] = pc[r]
      BY <1>1, <3>1
    <3>5. QED
      BY <1>2, <2>1, <3>2, <3>3, <3>4, FlippingFrame
  <2>3. CASE CheckStep(h)
    <3> SUFFICES ASSUME NEW r \in Rollbacks, NEW m \in MemIds,
                        pc'[r] \in {"flip", "done"}, IsDeferredEvidence(m),
                        owner[StepOfMem(m)] = r, mem[m].branch = "completed"
                 PROVE  \/ Unchecked(m)'
                        \/ pc'[r] = "flip" /\ \E w \in pending[r] : w.id = m
      BY <2>1, <2>3 DEF CheckStep, Judge, Flipping, IsDeferredEvidence, StepOfMem
    <3>1. PICK place \in {"next", "write", "isolate"} :
            /\ pc' = [pc EXCEPT ![h] = place]
            /\ made[h] /\ place # "isolate" =>
                 stepSt[StepOf[cur[h]]] # "rolled_back"
      BY <1>1, <2>3 DEF CheckStep, Judge
    <3>2. pc[r] = pc'[r]
      BY <1>1, <3>1
    <3>3. UNCHANGED <<cur, made>>
      BY <2>3 DEF CheckStep, Judge
    <3>4. CASE Unchecked(m)
      <4>1. CASE m[1] # h
        BY <1>1, <3>1, <3>3, <3>4, <4>1 DEF Unchecked
      <4>2. CASE m[1] = h /\ place = "isolate"
        BY <1>1, <3>1, <3>3, <3>4, <4>2 DEF Unchecked, Rechecking
      <4>3. CASE m[1] = h /\ place # "isolate"
        <5>1. stepSt[StepOfMem(m)] # "rolled_back"
          BY <3>1, <3>4, <4>3 DEF Unchecked, StepOfMem
        <5>2. StepOfMem(m) \in Steps
          BY Tables DEF IsDeferredEvidence, StepOfMem
        <5>3. owner[StepOfMem(m)] = Nobody
          BY <1>2, <5>1, <5>2 DEF OwnerMarked
        <5>4. QED
          BY <5>3, DisjointHandlers
      <4>4. QED
        BY <4>1, <4>2, <4>3
    <3>5. QED
      BY <1>2, <3>2, <3>4 DEF Flipping
  <2>4. CASE AddToolEvidence(h)
    <3>1. /\ pc[h] = "write" /\ UNCHANGED <<cur, pending>>
          /\ mem' = [mem EXCEPT ![<<h, cur[h]>>] = FreshRow(cur[h], 0)]
          /\ made' = [made EXCEPT ![h] = TRUE]
          /\ pc' = [pc EXCEPT ![h] = AfterWrite(h, TRUE)]
      BY <2>4 DEF AddToolEvidence
    <3>2. \A m \in MemIds : IsDeferredEvidence(m) /\ mem'[m].branch = "completed"
                              => mem[m].branch = "completed" \/ Unchecked(m)'
      BY <1>1, <3>1 DEF IsDeferredEvidence, Unchecked, AfterWrite, Rechecking, MemIds
    <3>3. \A m \in MemIds : IsDeferredEvidence(m) /\ Unchecked(m) => Unchecked(m)'
      BY <1>1, <3>1 DEF Unchecked, Rechecking
    <3>4. \A r \in Rollbacks : pc'[r] \in {"flip", "done"} => pc'[r] = pc[r]
      BY <1>1, <3>1 DEF AfterWrite
    <3>5. QED
      BY <1>2, <2>1, <3>1, <3>2, <3>3, <3>4, FlippingFrame
  <2>5. CASE ResolveFact(h)
    <3>1. /\ UNCHANGED <<mem, cur, made>>
          /\ \A g \in Handlers : g # h => pending'[g] = pending[g]
          /\ pc[h] = "write"
      BY <1>1, <2>5 DEF ResolveFact
    <3>2. PICK place \in {"add", "update"} : pc' = [pc EXCEPT ![h] = place]
      BY <2>5 DEF ResolveFact
    <3>3. \A m \in MemIds : Unchecked(m) => Unchecked(m)'
      BY <1>2, <3>1, <3>2, UncheckedFrame DEF Rechecking
    <3>4. \A r \in Rollbacks : pc'[r] \in {"flip", "done"} =>
                                 pc'[r] = pc[r] /\ pending'[r] = pending[r]
      BY <1>1, <3>1, <3>2
    <3>5. QED
      BY <1>2, <2>1, <3>1, <3>3, <3>4, FlippingFrame
  <2>6. CASE AddFact(h) \/ FoldFact(h)
    <3>1. /\ \A g \in Handlers : g # h => pending'[g] = pending[g]
          /\ pc[h] \in {"add", "update"} /\ UNCHANGED cur
          /\ made' = made \/ made' = [made EXCEPT ![h] = TRUE]
      BY <1>1, <2>6 DEF AddFact, FoldFact, WriteBack
    <3>2. PICK w \in pending[h] : \E row : mem' = [mem EXCEPT ![w.id] = row]
      BY <2>6 DEF AddFact, FoldFact, WriteBack
    <3>3. PICK place : place \notin {"flip", "done"} /\ pc' = [pc EXCEPT ![h] = place]
      BY <2>6 DEF AddFact, FoldFact, AfterWrite
    <3>4. IsFact(w.id)
      BY <1>2, <3>1 DEF PendingRows
    <3>5. \A m \in MemIds : IsDeferredEvidence(m) => mem'[m] = mem[m]
      BY <1>1, <3>2, <3>4 DEF IsDeferredEvidence, IsFact
    <3>6. \A m \in MemIds : Unchecked(m) => Unchecked(m)'
      BY <1>1, <3>1, <3>3 DEF Unchecked, Rechecking
    <3>7. \A r \in Rollbacks : pc'[r] \in {"flip", "done"} =>
                                 pc'[r] = pc[r] /\ pending'[r] = pending[r]
      BY <1>1, <3>1, <3>3
    <3>8. QED
      BY <1>2, <2>1, <3>5, <3>6, <3>7, FlippingFrame
  <2>7. CASE Isolate(h)
    <3> SUFFICES ASSUME NEW r \in Rollbacks, NEW m \in MemIds,
                        pc'[r] \in {"flip", "done"}, IsDeferredEvidence(m),
                        owner[StepOfMem(m)] = r, mem'[m].branch = "completed"
                 PROVE  \/ Unchecked(m)'
                        \/ pc'[r] = "flip" /\ \E w \in pending[r] : w.id = m
      BY <2>1, <2>7 DEF Isolate, Flipping, IsDeferredEvidence, StepOfMem
    <3>1. /\ UNCHANGED <<cur, made>>
          /\ pc' = [pc EXCEPT ![h] = "next"]
          /\ mem' = [mem EXCEPT ![<<h, cur[h]>>].branch = "rolled_back"]
      BY <2>7 DEF Isolate
    <3>2. m # <<h, cur[h]>>
      BY <1>1, <3>1 DEF Row
    <3>3. mem[m] = mem'[m] /\ pc[r] = pc'[r]
      BY <1>1, <3>1, <3>2
    <3>4. Unchecked(m) => m[1] # h
      BY <3>2 DEF Unchecked, MemIds
    <3>5. Unchecked(m) => Unchecked(m)'
      BY <1>1, <3>1, <3>4 DEF Unchecked
    <3>6. QED
      BY <1>2, <3>3, <3>5 DEF Flipping
  <2>8. QED
    BY <1>4, <2>2, <2>3, <2>4, <2>5, <2>6, <2>7 DEF ProcessEventExtraction
<1>5. ASSUME NEW h \in Handlers, FlushSession(h) PROVE Flipping'
  <2>1. /\ UNCHANGED <<mem, pending, owner>>
        /\ pc[h] \in {"drain", "next"}
        /\ cur' = cur \/ \E e : cur' = [cur EXCEPT ![h] = e]
        /\ made' = made \/ made' = [made EXCEPT ![h] = FALSE]
    BY <1>5 DEF FlushSession, Drain, Pick, EndFlush
  <2>2. PICK place : /\ pc' = [pc EXCEPT ![h] = place]
                     /\ h \in Rollbacks => place \notin {"flip", "done"}
    BY <1>5 DEF FlushSession, Drain, Pick, EndFlush, AfterFlush
  <2>3. \A m \in MemIds : Unchecked(m) => Unchecked(m)'
    BY <1>1, <2>1, <2>2 DEF Unchecked, Rechecking
  <2>4. \A r \in Rollbacks : pc'[r] \in {"flip", "done"} => pc'[r] = pc[r]
    BY <1>1, <2>2
  <2>5. QED
    BY <1>2, <2>1, <2>3, <2>4, FlippingFrame
<1>6. ASSUME NEW h \in Handlers, Fail(h) PROVE Flipping'
  <2>1. PICK place \in {"abandoned", "failed"} :
          /\ pc' = [pc EXCEPT ![h] = place]
          /\ made[h] /\ pc[h] \in Rechecking => place = "abandoned"
          /\ pc[h] # "abandoned"
    BY <1>6 DEF Fail, Stopped
  <2>2. \A m \in MemIds : Unchecked(m) => Unchecked(m)'
    BY <1>2, <1>6, <2>1, UncheckedFrame DEF Fail
  <2>3. \A r \in Rollbacks : pc'[r] \in {"flip", "done"} => pc'[r] = pc[r]
    BY <1>1, <2>1
  <2>4. QED
    BY <1>2, <1>6, <2>2, <2>3, FlippingFrame DEF Fail
<1>7. ASSUME NEW h \in Workers \cup Flushers \cup Retrievals \cup Closers,
             Deliver(h) \/ Flush(h) \/ CompleteRun(h)
      PROVE  Flipping'
  <2>1. PICK place \in {"next", "drain"} : pc' = [pc EXCEPT ![h] = place]
    BY <1>7 DEF Deliver, Flush, CompleteRun
  <2>2. UNCHANGED <<mem, cur, made, pending, owner>> /\ pc[h] = "idle"
    BY <1>7 DEF Deliver, Flush, CompleteRun
  <2>3. \A m \in MemIds : Unchecked(m) => Unchecked(m)'
    BY <1>1, <2>1, <2>2 DEF Unchecked, Rechecking
  <2>4. \A r \in Rollbacks : pc'[r] \in {"flip", "done"} => pc'[r] = pc[r]
    BY <1>1, <2>1
  <2>5. QED
    BY <1>2, <2>2, <2>3, <2>4, FlippingFrame
<1>8. ASSUME NEW f \in Finishes, Finish(f) PROVE Flipping'
  <2>1. f \notin Rollbacks /\ f \notin Events /\ f \in Handlers
    BY DisjointHandlers DEF Handlers
  <2>2. PICK place : pc' = [pc EXCEPT ![f] = place]
    BY <1>8 DEF Finish, FinishBegin, FinishStep, FinishNode, AddWorkingState
  <2>3. UNCHANGED <<cur, made, pending>> /\ pc[f] \notin Rechecking \cup {"abandoned"}
    BY <1>8 DEF Finish, FinishBegin, FinishStep, FinishNode, AddWorkingState, Rechecking
  <2>4. \A m \in MemIds : Unchecked(m) => Unchecked(m)'
    BY <1>2, <2>1, <2>2, <2>3, UncheckedFrame
  <2>5. \A m \in MemIds : IsDeferredEvidence(m) => mem'[m] = mem[m]
    BY <1>1, <1>8, <2>1 DEF Finish, FinishBegin, FinishStep, FinishNode,
       AddWorkingState, IsDeferredEvidence
  <2>6. owner' = owner \/ owner' = [owner EXCEPT ![StepOf[f]] = Nobody]
    BY <1>8 DEF Finish, FinishBegin, FinishStep, FinishNode, AddWorkingState
  <2>7. \A r \in Rollbacks : pc'[r] = pc[r]
    BY <1>1, <2>1, <2>2
  <2>8. \A s \in Steps, r \in Rollbacks : owner'[s] = r => owner[s] = r
    BY <1>2, <2>6, DisjointHandlers DEF Typed, TypeOK
  <2>9. QED
    BY <1>2, <2>3, <2>4, <2>5, <2>7, <2>8, FlippingFrame
<1>9. ASSUME NEW r \in Rollbacks, RollbackBranch(r) PROVE Flipping'
  <2>1. UNCHANGED <<cur, made>> /\ pc[r] \notin Rechecking \cup {"abandoned"}
    BY <1>9 DEF RollbackBranch, RollbackBegin, ListNodes, MarkNode, MarkStep,
       ListMemories, FlipMemory, RollbackEnd, Rechecking
  <2>2. \A q \in Handlers : q # r => pc'[q] = pc[q] /\ pending'[q] = pending[q]
    BY <1>1, <1>9 DEF RollbackBranch, RollbackBegin, ListNodes, MarkNode, MarkStep,
       ListMemories, FlipMemory, RollbackEnd, WriteBack
  <2>3. pc' = pc \/ \E place : pc' = [pc EXCEPT ![r] = place]
    BY <1>9 DEF RollbackBranch, RollbackBegin, ListNodes, MarkNode, MarkStep,
       ListMemories, FlipMemory, RollbackEnd
  <2>4. \A m \in MemIds : Unchecked(m) => Unchecked(m)'
    BY <1>1, <2>1, <2>2 DEF Unchecked
  <2>5. CASE RollbackBegin(r) \/ ListNodes(r) \/ MarkNode(r)
    <3>1. UNCHANGED <<mem, pending, owner>>
      BY <2>5 DEF RollbackBegin, ListNodes, MarkNode
    <3>2. pc'[r] \notin {"flip", "done"}
      BY <1>1, <2>5 DEF RollbackBegin, ListNodes, MarkNode
    <3>3. QED
      BY <1>1, <1>2, <2>2, <2>4, <3>1, <3>2, FlippingFrame
  <2>6. CASE MarkStep(r)
    <3>1. /\ UNCHANGED <<mem, pending>>
          /\ owner' = [owner EXCEPT ![mark[r]] = r]
      BY <2>6 DEF MarkStep
    <3>2. pc'[r] \notin {"flip", "done"}
      BY <1>1, <2>6 DEF MarkStep
    <3>3. \A s \in Steps, q \in Rollbacks : q # r /\ owner'[s] = q => owner[s] = q
      BY <1>2, <3>1 DEF Typed, TypeOK
    <3>4. QED
      BY <1>1, <1>2, <2>2, <2>4, <3>1, <3>2, <3>3
         DEF Flipping, IsDeferredEvidence, StepOfMem
  <2>7. CASE ListMemories(r)
    <3>1. /\ UNCHANGED <<mem, owner>>
          /\ pending' = [pending EXCEPT ![r] =
               {[id |-> m, row |-> [mem[m] EXCEPT !.branch = "rolled_back"]] : m \in InBranch(r)}]
      BY <2>7 DEF ListMemories
    <3>2. pc'[r] = "flip"
      BY <1>1, <2>7 DEF ListMemories
    <3>3. ASSUME NEW m \in MemIds, IsDeferredEvidence(m), owner[StepOfMem(m)] = r,
                 mem[m].branch = "completed"
          PROVE  \E w \in pending'[r] : w.id = m
      <4>1. StepOfMem(m) \in Steps
        BY <3>3, Tables DEF IsDeferredEvidence, StepOfMem
      <4>2. StepOfMem(m) \in Subtree[StepOf[r]]
        BY <1>2, <3>3, <4>1, DisjointHandlers DEF OwnerMarked
      <4>3. m \in InBranch(r)
        BY <3>3, <4>2 DEF InBranch, Exists
      <4>4. [id |-> m, row |-> [mem[m] EXCEPT !.branch = "rolled_back"]] \in pending'[r]
        BY <1>1, <3>1, <4>3
      <4>5. QED
        BY <4>4
    <3>4. ASSUME NEW q \in Rollbacks, NEW m \in MemIds, pc'[q] \in {"flip", "done"},
                 IsDeferredEvidence(m), owner[StepOfMem(m)] = q, mem'[m].branch = "completed"
          PROVE  \/ Unchecked(m)'
                 \/ pc'[q] = "flip" /\ \E v \in pending'[q] : v.id = m
      <4>1. CASE q = r
        BY <3>1, <3>2, <3>3, <3>4, <4>1
      <4>2. CASE q # r
        BY <1>1, <1>2, <2>2, <2>4, <3>1, <3>4, <4>2 DEF Flipping
      <4>3. QED
        BY <4>1, <4>2
    <3>5. QED
      BY <3>1, <3>4 DEF Flipping, IsDeferredEvidence, StepOfMem
  <2>8. CASE FlipMemory(r)
    <3>1. PICK w \in pending[r] : WriteBack(r, w)
      BY <2>8 DEF FlipMemory
    <3>2. pc[r] = "flip" /\ UNCHANGED <<pc, owner>>
      BY <2>8 DEF FlipMemory
    <3>3. /\ w.id \in MemIds /\ w.row \in Row /\ w.row.branch = "rolled_back"
      BY <1>1, <1>2, <3>1, <3>2 DEF PendingRows
    <3>4. mem' = [mem EXCEPT ![w.id] = Merged(mem[w.id], w.row)]
      BY <3>1 DEF WriteBack
    <3>5. Merged(mem[w.id], w.row).branch = "rolled_back"
      BY <3>3 DEF Merged, Row
    <3>6. \A m \in MemIds : mem'[m].branch = "completed" => mem'[m] = mem[m] /\ m # w.id
      BY <1>1, <3>3, <3>4, <3>5
    <3>7. pending'[r] = pending[r] \ {w}
      BY <1>1, <3>1 DEF WriteBack
    <3>8. ASSUME NEW q \in Rollbacks, NEW m \in MemIds, pc'[q] \in {"flip", "done"},
                 IsDeferredEvidence(m), owner[StepOfMem(m)] = q, mem'[m].branch = "completed"
          PROVE  \/ Unchecked(m)'
                 \/ pc'[q] = "flip" /\ \E v \in pending'[q] : v.id = m
      <4>1. \/ Unchecked(m)
            \/ pc[q] = "flip" /\ \E v \in pending[q] : v.id = m
        BY <1>2, <3>2, <3>6, <3>8 DEF Flipping
      <4>2. CASE q = r
        BY <2>4, <3>2, <3>6, <3>7, <3>8, <4>1, <4>2
      <4>3. CASE q # r
        BY <1>1, <2>2, <2>4, <4>1, <4>3
      <4>4. QED
        BY <4>2, <4>3
    <3>9. QED
      BY <3>2, <3>8 DEF Flipping, IsDeferredEvidence, StepOfMem
  <2>9. CASE RollbackEnd(r)
    <3>1. /\ UNCHANGED <<mem, owner, pending>>
          /\ pc[r] = "flip" /\ pending[r] = {}
      BY <2>9 DEF RollbackEnd
    <3>2. ASSUME NEW q \in Rollbacks, NEW m \in MemIds, pc'[q] \in {"flip", "done"},
                 IsDeferredEvidence(m), owner[StepOfMem(m)] = q, mem'[m].branch = "completed"
          PROVE  \/ Unchecked(m)'
                 \/ pc'[q] = "flip" /\ \E v \in pending'[q] : v.id = m
      <4>1. CASE q = r
        BY <1>2, <2>4, <3>1, <3>2, <4>1 DEF Flipping
      <4>2. CASE q # r
        BY <1>1, <1>2, <2>2, <2>4, <3>1, <3>2, <4>2 DEF Flipping
      <4>3. QED
        BY <4>1, <4>2
    <3>3. QED
      BY <3>1, <3>2 DEF Flipping, IsDeferredEvidence, StepOfMem
  <2>10. QED
    BY <1>9, <2>5, <2>6, <2>7, <2>8, <2>9 DEF RollbackBranch
<1>10. CASE UNCHANGED vars
  BY <1>2, <1>10 DEF Flipping, IsDeferredEvidence, StepOfMem, Unchecked
<1>11. QED
  BY <1>3, <1>4, <1>5, <1>6, <1>7, <1>8, <1>9, <1>10 DEF Next

\* IInv is inductive.
LEMMA NextInv == IInv /\ [Next]_vars => IInv'
  BY NextTyped, NextMarks, NextPending, NextFlipping DEF IInv

\* The theorem this model was written for: in every instance, whatever
\* requests, workers and failures interleave, once rollback_branch has
\* returned no deferred evidence of a step it marked counts as completed,
\* except while the handler that added it has its second check before it.
THEOREM RollbackIsolated == Spec => []RollbackIsolation
<1>1. IInv => RollbackIsolation
  BY DEF IInv, Flipping, RollbackIsolation
<1>2. QED
  BY <1>1, InitInv, NextInv, PTL DEF Spec

-----------------------------------------------------------------------------
(***************************************************************************)
(* Rows are added once and stay.                                           *)
(***************************************************************************)

Early == {"idle", "append"} \cup Modes
Loading ==
  {"next", "duplicate", "run", "node", "step", "write", "add", "update",
   "isolate", "failed", "abandoned"}

\* A write_event request extracts its own event, inline, or not at all.
OwnEvent ==
  \A e \in Events :
    /\ pc[e] \in Early \cup {"write", "add", "update", "cache", "done", "failed"}
    /\ pc[e] \in Modes => pc[e] \in ModesOf[e]
    /\ pc[e] \in {"write", "add", "update"} => cur[e] = e /\ "sync" \in ModesOf[e]
    /\ todo[e] = {}

\* Events a handler has drained are with it until it is through with them.
Drained == \A h \in Handlers : todo[h] # {} => pc[h] \in Loading

\* A resolver adds its own row; what it folds, and what a rollback flips,
\* are rows that exist, born when they were.
Waiting ==
  \A h \in Handlers : \A w \in pending[h] :
    /\ pc[h] = "add" => w.id = <<h, cur[h]>> /\ w.row.branch # "none"
    /\ pc[h] \in {"update", "flip"} =>
         /\ Exists(w.id) /\ w.row.branch # "none"
         /\ IsFact(w.id) => w.row.born = mem[w.id].born

\* A handler has added its row when made says so, and not before.
Fresh ==
  /\ \A h \in Handlers :
       /\ pc[h] = "duplicate" => ~made[h]
       /\ pc[h] \in {"run", "node", "step"} => (made[h] <=> Exists(<<h, cur[h]>>))
       /\ pc[h] \in {"write", "add"} => ~Exists(<<h, cur[h]>>)
       /\ pc[h] = "isolate" => made[h] /\ Exists(<<h, cur[h]>>)
  /\ \A e \in Events : pc[e] \in Early => ~Exists(<<e, e>>)

Base == Typed /\ OwnEvent /\ Drained /\ Waiting /\ Fresh

LEMMA InitBase == Init => Base
<1> SUFFICES ASSUME Init PROVE Base
  OBVIOUS
<1>1. Typed
  BY InitTyped
<1>2. \A e \in Events : e \in Handlers
  BY DEF Handlers
<1>3. OwnEvent /\ Drained /\ Waiting
  BY <1>2 DEF Init, OwnEvent, Drained, Waiting, Early, Modes
<1>4. Fresh
  BY <1>2 DEF Init, Fresh, Exists, NoRow, MemIds
<1>5. QED
  BY <1>1, <1>3, <1>4 DEF Base

\* A row that exists stays, and a fact keeps the time it was born at; a row
\* comes to be when its handler writes.
Kept ==
  \A m \in MemIds :
    Exists(m) => Exists(m)' /\ (IsFact(m) => mem'[m].born = mem[m].born)
Gained ==
  \A h \in Handlers, e \in Events :
    Exists(<<h, e>>)' /\ ~Exists(<<h, e>>) =>
      cur[h] = e /\ pc[h] \in {"write", "add"} /\ pc'[h] # pc[h]

LEMMA WriteBackKeeps ==
  ASSUME Base, NEW h \in Handlers, NEW w \in pending[h], WriteBack(h, w),
         pc[h] \in {"update", "flip"}
  PROVE  /\ \A m \in MemIds : Exists(m)' <=> Exists(m)
         /\ \A m \in MemIds : IsFact(m) => mem'[m].born = mem[m].born
<1>1. w.id \in MemIds /\ w.row \in Row /\ mem \in [MemIds -> Row]
  BY WriteBackTyped DEF Base, Typed, TypeOK
<1>2. /\ Exists(w.id) /\ w.row.branch # "none"
      /\ IsFact(w.id) => w.row.born = mem[w.id].born
  BY DEF Base, Waiting
<1>3. mem' = [mem EXCEPT ![w.id] = Merged(mem[w.id], w.row)]
  BY DEF WriteBack
<1>4. /\ Merged(mem[w.id], w.row).branch = w.row.branch
      /\ Merged(mem[w.id], w.row).born = w.row.born
  BY <1>1 DEF Merged, Row
<1>5. QED
  BY <1>1, <1>2, <1>3, <1>4 DEF Exists

LEMMA Grows == Base /\ [Next]_vars => Kept /\ Gained
<1> SUFFICES ASSUME Base, [Next]_vars PROVE Kept /\ Gained
  OBVIOUS
<1> USE DEF vars, store, queues, extraction, scratch, history, Move, Goto
<1>1. /\ mem \in [MemIds -> Row] /\ pc \in [Handlers -> Places]
      /\ \A h \in Handlers, e \in Events : <<h, e>> \in MemIds
      /\ \A h \in Handlers : pc[h] \in Extracting => cur[h] \in Events
  BY DEF Base, Typed, TypeOK, CurOK, MemIds
<1>2. ASSUME UNCHANGED mem PROVE Kept /\ Gained
  BY <1>2 DEF Kept, Gained, Exists
<1>3. ASSUME NEW e \in Events, WriteEvent(e) PROVE Kept /\ Gained
  BY <1>2, <1>3 DEF WriteEvent, WriteBegin, AppendEvent, SkipExtraction, BufferLazily,
     BufferForExplicitFlush, EnqueueTask, ExtractInline, CacheEventOnNode
<1>4. ASSUME NEW h \in Handlers, NEW row \in Row, pc[h] \in {"write", "add"},
             mem' = [mem EXCEPT ![<<h, cur[h]>>] = row], pc'[h] # pc[h]
      PROVE  Kept /\ Gained
  <2>1. cur[h] \in Events /\ <<h, cur[h]>> \in MemIds /\ ~Exists(<<h, cur[h]>>)
    BY <1>1, <1>4 DEF Extracting, Base, Fresh
  <2>2. Kept
    BY <1>1, <1>4, <2>1 DEF Kept, Exists
  <2>3. Gained
    BY <1>1, <1>4, <2>1 DEF Gained, Exists
  <2>4. QED
    BY <2>2, <2>3
<1>5. ASSUME NEW h \in Handlers, NEW w \in pending[h], WriteBack(h, w),
             pc[h] \in {"update", "flip"}
      PROVE  Kept /\ Gained
  BY <1>1, <1>5, WriteBackKeeps DEF Kept, Gained
<1>6. ASSUME NEW h \in Handlers, ProcessEventExtraction(h) PROVE Kept /\ Gained
  <2>1. CASE CheckDuplicate(h) \/ CheckRun(h) \/ CheckNode(h) \/ CheckStep(h) \/ ResolveFact(h)
    BY <1>2, <2>1 DEF CheckDuplicate, CheckRun, CheckNode, CheckStep, Judge, ResolveFact
  <2>2. CASE AddToolEvidence(h)
    <3>1. FreshRow(cur[h], 0) \in Row
      BY DEF FreshRow, Row, Branches
    <3>2. pc'[h] # pc[h]
      BY <1>1, <2>2 DEF AddToolEvidence, AfterWrite
    <3>3. QED
      BY <1>4, <2>2, <3>1, <3>2 DEF AddToolEvidence
  <2>3. CASE AddFact(h)
    <3>1. PICK w \in pending[h] : mem' = [mem EXCEPT ![w.id] = w.row]
      BY <2>3 DEF AddFact
    <3>2. pc[h] = "add" /\ w.id = <<h, cur[h]>>
      BY <2>3 DEF AddFact, Base, Waiting
    <3>3. w.row \in Row
      BY DEF Base, Typed, TypeOK
    <3>4. pc'[h] # pc[h]
      BY <1>1, <2>3 DEF AddFact, AfterWrite
    <3>5. QED
      BY <1>4, <3>1, <3>2, <3>3, <3>4
  <2>4. CASE FoldFact(h)
    BY <1>5, <2>4 DEF FoldFact
  <2>5. CASE Isolate(h)
    <3>1. cur[h] \in Events /\ <<h, cur[h]>> \in MemIds /\ Exists(<<h, cur[h]>>)
      BY <1>1, <2>5 DEF Isolate, Extracting, Base, Fresh
    <3>2. mem[<<h, cur[h]>>] \in Row
      BY <1>1, <3>1
    <3>3. QED
      BY <1>1, <2>5, <3>1, <3>2 DEF Isolate, Kept, Gained, Exists, Row
  <2>6. QED
    BY <1>6, <2>1, <2>2, <2>3, <2>4, <2>5 DEF ProcessEventExtraction
<1>7. ASSUME NEW h \in Handlers, FlushSession(h) \/ Fail(h) PROVE Kept /\ Gained
  BY <1>2, <1>7 DEF FlushSession, Drain, Pick, EndFlush, Fail
<1>8. ASSUME NEW w \in Workers, Deliver(w) PROVE Kept /\ Gained
  BY <1>2, <1>8 DEF Deliver
<1>9. ASSUME NEW f \in Flushers \cup Retrievals, Flush(f) PROVE Kept /\ Gained
  BY <1>2, <1>9 DEF Flush
<1>10. ASSUME NEW c \in Closers, CompleteRun(c) PROVE Kept /\ Gained
  BY <1>2, <1>10 DEF CompleteRun
<1>11. ASSUME NEW f \in Finishes, Finish(f) PROVE Kept /\ Gained
  <2>1. CASE FinishBegin(f) \/ FinishStep(f) \/ FinishNode(f)
    BY <1>2, <2>1 DEF FinishBegin, FinishStep, FinishNode
  <2>2. CASE AddWorkingState(f)
    <3>1. f \in Handlers /\ f \notin Events /\ <<f, f>> \in MemIds
      BY DisjointHandlers DEF Handlers, MemIds
    <3>2. Finished("active", verdict[f]) # "none"
      BY DEF Finished
    <3>3. QED
      BY <1>1, <2>2, <3>1, <3>2 DEF AddWorkingState, Kept, Gained, Exists, IsFact
  <2>3. QED
    BY <1>11, <2>1, <2>2 DEF Finish
<1>12. ASSUME NEW r \in Rollbacks, RollbackBranch(r) PROVE Kept /\ Gained
  <2> r \in Handlers BY DEF Handlers
  <2>1. CASE FlipMemory(r)
    BY <1>5, <2>1 DEF FlipMemory
  <2>2. CASE ~FlipMemory(r)
    BY <1>2, <1>12, <2>2 DEF RollbackBranch, RollbackBegin, ListNodes, MarkNode, MarkStep,
       ListMemories, RollbackEnd
  <2>3. QED
    BY <2>1, <2>2
<1>13. CASE UNCHANGED vars
  BY <1>2, <1>13
<1>14. QED
  BY <1>3, <1>6, <1>7, <1>8, <1>9, <1>10, <1>11, <1>12, <1>13 DEF Next

\* Where the other requests stand before they take up an event.
LEMMA NextOwn == ASSUME Base, [Next]_vars PROVE OwnEvent' /\ Drained'
<1> USE DEF vars, store, queues, extraction, scratch, history, Move, Goto
<1>1. /\ pc \in [Handlers -> Places] /\ todo \in [Handlers -> SUBSET Events]
      /\ cur \in [Handlers -> Events \cup {NoEvent}] /\ Typed'
      /\ \A e \in Events : e \in Handlers
      /\ OwnEvent /\ Drained
  BY NextTyped DEF Base, Typed, TypeOK, Handlers
<1>2. ASSUME NEW e \in Events, WriteEvent(e) PROVE OwnEvent' /\ Drained'
  <2>1. ModesOf[e] \subseteq Modes
    BY Tables
  <2>2. CASE AppendEvent(e)
    BY <1>1, <2>1, <2>2 DEF AppendEvent, OwnEvent, Drained, Early, Modes, Loading
  <2>3. CASE ExtractInline(e)
    BY <1>1, <2>3 DEF ExtractInline, OwnEvent, Drained, Early, Modes, Loading
  <2>4. CASE WriteBegin(e) \/ SkipExtraction(e) \/ BufferLazily(e) \/ CacheEventOnNode(e)
               \/ BufferForExplicitFlush(e) \/ EnqueueTask(e)
    BY <1>1, <2>4 DEF WriteBegin, SkipExtraction, BufferLazily, BufferForExplicitFlush,
       EnqueueTask, CacheEventOnNode, OwnEvent, Drained, Early, Modes, Loading
  <2>5. QED
    BY <1>2, <2>2, <2>3, <2>4 DEF WriteEvent
<1>3. ASSUME NEW h \in Handlers, NEW place, pc' = [pc EXCEPT ![h] = place],
             UNCHANGED <<todo, cur>>, pc[h] \in Loading, place \in Loading, h \notin Events
      PROVE  OwnEvent' /\ Drained'
  BY <1>1, <1>3 DEF OwnEvent, Drained
<1>4. ASSUME NEW h \in Handlers, NEW place, pc' = [pc EXCEPT ![h] = place],
             UNCHANGED <<todo, cur>>, pc[h] \in {"write", "add", "update"},
             place \in IF h \in Events THEN {"add", "update", "cache"} ELSE Loading
      PROVE  OwnEvent' /\ Drained'
  BY <1>1, <1>4 DEF OwnEvent, Drained, Early, Modes, Loading
<1>5. ASSUME NEW h \in Handlers, ProcessEventExtraction(h) PROVE OwnEvent' /\ Drained'
  <2>1. CASE CheckDuplicate(h) \/ CheckRun(h) \/ CheckNode(h) \/ CheckStep(h) \/ Isolate(h)
    <3>1. h \notin Events
      BY <1>1, <2>1 DEF CheckDuplicate, CheckRun, CheckNode, CheckStep, Judge, Isolate,
         OwnEvent, Early, Modes
    <3>2. QED
      BY <1>3, <2>1, <3>1 DEF CheckDuplicate, CheckRun, CheckNode, CheckStep, Judge,
         Isolate, Loading
  <2>2. CASE AddToolEvidence(h) \/ ResolveFact(h) \/ AddFact(h)
    BY <1>4, <2>2 DEF AddToolEvidence, ResolveFact, AddFact, AfterWrite, Loading
  <2>3. CASE FoldFact(h)
    <3>1. PICK place : /\ pc' = [pc EXCEPT ![h] = place]
                       /\ place \in {"update", AfterWrite(h, FALSE)}
      BY <2>3 DEF FoldFact
    <3>2. pc[h] = "update" /\ UNCHANGED <<todo, cur>>
      BY <2>3 DEF FoldFact
    <3>3. QED
      BY <1>4, <3>1, <3>2 DEF AfterWrite, Loading
  <2>4. QED
    BY <1>5, <2>1, <2>2, <2>3 DEF ProcessEventExtraction
<1>6. ASSUME NEW h \in Handlers, FlushSession(h) PROVE OwnEvent' /\ Drained'
  <2>1. h \notin Events
    BY <1>1, <1>6 DEF FlushSession, Drain, Pick, EndFlush, OwnEvent, Early, Modes
  <2>2. CASE Drain(h)
    BY <1>1, <2>1, <2>2 DEF Drain, OwnEvent, Drained, Loading
  <2>3. CASE Pick(h)
    BY <1>1, <2>1, <2>3 DEF Pick, OwnEvent, Drained, Loading
  <2>4. CASE EndFlush(h)
    BY <1>1, <2>1, <2>4 DEF EndFlush, OwnEvent, Drained
  <2>5. QED
    BY <1>6, <2>2, <2>3, <2>4 DEF FlushSession
<1>7. ASSUME NEW h \in Handlers, Fail(h) PROVE OwnEvent' /\ Drained'
  BY <1>1, <1>7 DEF Fail, Rechecking, Stopped, OwnEvent, Drained, Early, Modes, Loading
<1>8. ASSUME NEW h \in Handlers \ Events, NEW place, pc' = [pc EXCEPT ![h] = place],
             UNCHANGED cur, todo' = todo, todo[h] = {}
      PROVE  OwnEvent' /\ Drained'
  BY <1>1, <1>8 DEF OwnEvent, Drained
<1>9. \A h \in Handlers : pc[h] \notin Loading => todo[h] = {}
  BY <1>1 DEF Drained
<1>10. ASSUME NEW w \in Workers, Deliver(w) PROVE OwnEvent' /\ Drained'
  <2>1. w \in Handlers \ Events
    BY DisjointHandlers DEF Handlers
  <2>2. QED
    BY <1>1, <1>10, <2>1 DEF Deliver, OwnEvent, Drained, Loading
<1>11. ASSUME NEW f \in Flushers \cup Retrievals, Flush(f) PROVE OwnEvent' /\ Drained'
  <2>1. f \in Handlers \ Events
    BY DisjointHandlers DEF Handlers
  <2>2. QED
    BY <1>8, <1>9, <1>11, <2>1 DEF Flush, Loading
<1>12. ASSUME NEW c \in Closers, CompleteRun(c) PROVE OwnEvent' /\ Drained'
  <2>1. c \in Handlers \ Events
    BY DisjointHandlers DEF Handlers
  <2>2. QED
    BY <1>8, <1>9, <1>12, <2>1 DEF CompleteRun, Loading
<1>13. ASSUME NEW f \in Finishes, Finish(f) PROVE OwnEvent' /\ Drained'
  <2>1. f \in Handlers \ Events
    BY DisjointHandlers DEF Handlers
  <2>2. QED
    BY <1>8, <1>9, <1>13, <2>1 DEF Finish, FinishBegin, FinishStep, FinishNode,
       AddWorkingState, Loading
<1>14. ASSUME NEW r \in Rollbacks, RollbackBranch(r) PROVE OwnEvent' /\ Drained'
  <2>1. r \in Handlers \ Events
    BY DisjointHandlers DEF Handlers
  <2>2. CASE FlipMemory(r)
    BY <1>1, <2>2 DEF FlipMemory, OwnEvent, Drained
  <2>3. CASE ~FlipMemory(r)
    BY <1>8, <1>9, <1>14, <2>1, <2>3 DEF RollbackBranch, RollbackBegin, ListNodes, MarkNode,
       MarkStep, ListMemories, RollbackEnd, Loading
  <2>4. QED
    BY <2>2, <2>3
<1>15. CASE UNCHANGED vars
  BY <1>1, <1>15 DEF OwnEvent, Drained
<1>16. QED
  BY <1>2, <1>5, <1>6, <1>7, <1>10, <1>11, <1>12, <1>13, <1>14, <1>15 DEF Next

\* What a handler still has to write is right as long as nobody loses rows.
LEMMA WaitingFrame ==
  ASSUME Base, Kept, NEW g \in Handlers, pending'[g] \subseteq pending[g],
         pc'[g] \in {"add", "update", "flip"} => pc'[g] = pc[g],
         pc'[g] = "add" => cur'[g] = cur[g]
  PROVE  \A w \in pending'[g] :
           /\ pc'[g] = "add" => w.id = <<g, cur'[g]>> /\ w.row.branch # "none"
           /\ pc'[g] \in {"update", "flip"} =>
                /\ Exists(w.id)' /\ w.row.branch # "none"
                /\ IsFact(w.id) => w.row.born = mem'[w.id].born
<1>1. \A w \in pending'[g] : w \in pending[g] /\ w.id \in MemIds
  BY DEF Base, Typed, TypeOK
<1>2. QED
  BY <1>1 DEF Base, Waiting, Kept, Exists

LEMMA NextWaiting == ASSUME Base, [Next]_vars PROVE Waiting'
<1> USE DEF vars, store, queues, extraction, scratch, history, Move, Goto
<1>1. /\ pc \in [Handlers -> Places] /\ cur \in [Handlers -> Events \cup {NoEvent}]
      /\ pending \in [Handlers -> SUBSET [id : MemIds, row : Row]]
      /\ mem \in [MemIds -> Row] /\ \A e \in Events : e \in Handlers
  BY DEF Base, Typed, TypeOK, Handlers
<1> DEFINE Right(g) ==
      \A w \in pending'[g] :
        /\ pc'[g] = "add" => w.id = <<g, cur'[g]>> /\ w.row.branch # "none"
        /\ pc'[g] \in {"update", "flip"} =>
             /\ Exists(w.id)' /\ w.row.branch # "none"
             /\ IsFact(w.id) => w.row.born = mem'[w.id].born
<1>2. ASSUME \A g \in Handlers : Right(g) PROVE Waiting'
  BY <1>2 DEF Waiting, IsFact
<1>3. Kept
  BY Grows
<1>4. ASSUME \A g \in Handlers :
               /\ pending'[g] \subseteq pending[g]
               /\ pc'[g] \in {"add", "update", "flip"} => pc'[g] = pc[g]
               /\ pc'[g] = "add" => cur'[g] = cur[g]
      PROVE  Waiting'
  <2>1. ASSUME NEW g \in Handlers PROVE Right(g)
    BY <1>3, <1>4, WaitingFrame
  <2>2. QED
    BY <1>2, <2>1
<1>5. ASSUME NEW e \in Events, WriteEvent(e) PROVE Waiting'
  <2>1. ModesOf[e] \subseteq Modes
    BY Tables
  <2>2. CASE AppendEvent(e)
    BY <1>1, <1>4, <2>1, <2>2 DEF AppendEvent, Modes
  <2>3. CASE ExtractInline(e)
    BY <1>1, <1>4, <2>3 DEF ExtractInline
  <2>4. CASE WriteBegin(e) \/ SkipExtraction(e) \/ BufferLazily(e) \/ CacheEventOnNode(e)
               \/ BufferForExplicitFlush(e) \/ EnqueueTask(e)
    BY <1>1, <1>4, <2>4 DEF WriteBegin, SkipExtraction, BufferLazily, BufferForExplicitFlush,
       EnqueueTask, CacheEventOnNode
  <2>5. QED
    BY <1>5, <2>2, <2>3, <2>4 DEF WriteEvent
<1>6. ASSUME NEW h \in Handlers, ProcessEventExtraction(h) PROVE Waiting'
  <2>1. CASE CheckDuplicate(h) \/ CheckRun(h) \/ CheckNode(h) \/ CheckStep(h) \/ Isolate(h)
             \/ AddToolEvidence(h)
    BY <1>1, <1>4, <2>1 DEF CheckDuplicate, CheckRun, CheckNode, CheckStep, Judge, Isolate,
       AddToolEvidence, AfterWrite
  <2>2. CASE AddFact(h)
    BY <1>1, <1>4, <2>2 DEF AddFact, AfterWrite
  <2>3. CASE FoldFact(h)
    <3>1. PICK w \in pending[h] :
            /\ pending' = [pending EXCEPT ![h] = @ \ {w}]
            /\ \/ pc' = [pc EXCEPT ![h] = "update"]
               \/ pc' = [pc EXCEPT ![h] = AfterWrite(h, FALSE)]
      BY <2>3 DEF FoldFact, WriteBack
    <3>2. pc[h] = "update" /\ UNCHANGED cur
      BY <2>3 DEF FoldFact
    <3>3. QED
      BY <1>1, <1>4, <3>1, <3>2 DEF AfterWrite
  <2>4. CASE ResolveFact(h)
    <3>1. UNCHANGED <<mem, cur>> /\ pc[h] = "write"
      BY <2>4 DEF ResolveFact
    <3>2. CASE pc' = [pc EXCEPT ![h] = "add"] /\ pending' = [pending EXCEPT ![h] =
                 {[id |-> <<h, cur[h]>>, row |-> FreshRow(cur[h], clock)]}]
      <4>1. ASSUME NEW g \in Handlers, g # h PROVE Right(g)
        BY <1>1, <1>3, <3>1, <3>2, <4>1, WaitingFrame
      <4>2. FreshRow(cur[h], clock).branch # "none"
        BY DEF FreshRow
      <4>3. Right(h)
        BY <1>1, <3>1, <3>2, <4>2
      <4>4. QED
        BY <1>2, <4>1, <4>3
    <3>3. ASSUME pc' = [pc EXCEPT ![h] = "update"],
                 NEW p \in SameIdentityActives,
                 pending' = [pending EXCEPT ![h] = Folded(p, SameIdentityActives, cur[h])]
          PROVE  Waiting'
      <4>1. ASSUME NEW g \in Handlers, g # h PROVE Right(g)
        BY <1>1, <1>3, <3>1, <3>3, <4>1, WaitingFrame
      <4>2. \A m \in SameIdentityActives : m \in MemIds /\ Exists(m) /\ mem[m] \in Row
        BY <1>1 DEF SameIdentityActives
      <4>3. \A w \in Folded(p, SameIdentityActives, cur[h]) :
              /\ w.id \in SameIdentityActives
              /\ w.row.branch = mem[w.id].branch /\ w.row.born = mem[w.id].born
        BY <4>2 DEF Folded, Row
      <4>4. pending'[h] = Folded(p, SameIdentityActives, cur[h]) /\ pc'[h] = "update"
        BY <1>1, <3>3
      <4>5. Right(h)
        BY <3>1, <4>2, <4>3, <4>4 DEF Exists
      <4>6. QED
        BY <1>2, <4>1, <4>5
    <3>4. QED
      BY <2>4, <3>2, <3>3 DEF ResolveFact
  <2>5. QED
    BY <1>6, <2>1, <2>2, <2>3, <2>4 DEF ProcessEventExtraction
<1>7. ASSUME NEW h \in Handlers, FlushSession(h) \/ Fail(h) PROVE Waiting'
  BY <1>1, <1>4, <1>7 DEF FlushSession, Drain, Pick, EndFlush, AfterFlush, Fail
<1>8. ASSUME NEW w \in Workers, Deliver(w) PROVE Waiting'
  BY <1>1, <1>4, <1>8 DEF Deliver
<1>9. ASSUME NEW f \in Flushers \cup Retrievals, Flush(f) PROVE Waiting'
  BY <1>1, <1>4, <1>9 DEF Flush
<1>10. ASSUME NEW c \in Closers, CompleteRun(c) PROVE Waiting'
  BY <1>1, <1>4, <1>10 DEF CompleteRun
<1>11. ASSUME NEW f \in Finishes, Finish(f) PROVE Waiting'
  BY <1>1, <1>4, <1>11 DEF Finish, FinishBegin, FinishStep, FinishNode, AddWorkingState
<1>12. ASSUME NEW r \in Rollbacks, RollbackBranch(r) PROVE Waiting'
  <2> r \in Handlers BY DEF Handlers
  <2>1. CASE ListMemories(r)
    <3>1. UNCHANGED <<mem, cur>> /\ pc[r] = "list" /\ pc' = [pc EXCEPT ![r] = "flip"]
          /\ pending' = [pending EXCEPT ![r] =
               {[id |-> m, row |-> [mem[m] EXCEPT !.branch = "rolled_back"]] : m \in InBranch(r)}]
      BY <2>1 DEF ListMemories
    <3>2. ASSUME NEW g \in Handlers, g # r PROVE Right(g)
      BY <1>1, <1>3, <3>1, <3>2, WaitingFrame
    <3>3. \A m \in InBranch(r) : Exists(m) /\ mem[m] \in Row
      BY <1>1 DEF InBranch
    <3>4. ASSUME NEW w \in pending'[r]
          PROVE  Exists(w.id) /\ w.row.branch # "none" /\ w.row.born = mem[w.id].born
      <4>1. PICK m \in InBranch(r) :
              w = [id |-> m, row |-> [mem[m] EXCEPT !.branch = "rolled_back"]]
        BY <1>1, <3>1, <3>4
      <4>2. QED
        BY <3>3, <4>1 DEF Row
    <3>5. Right(r)
      BY <1>1, <3>1, <3>4 DEF Exists
    <3>6. QED
      BY <1>2, <3>2, <3>5
  <2>2. CASE FlipMemory(r)
    BY <1>1, <1>4, <2>2 DEF FlipMemory, WriteBack
  <2>3. CASE RollbackBegin(r) \/ ListNodes(r) \/ MarkNode(r) \/ MarkStep(r) \/ RollbackEnd(r)
    BY <1>1, <1>4, <2>3 DEF RollbackBegin, ListNodes, MarkNode, MarkStep, RollbackEnd
  <2>4. QED
    BY <1>12, <2>1, <2>2, <2>3 DEF RollbackBranch
<1>13. CASE UNCHANGED vars
  BY <1>1, <1>4, <1>13
<1>14. QED
  BY <1>5, <1>6, <1>7, <1>8, <1>9, <1>10, <1>11, <1>12, <1>13 DEF Next

LEMMA NextFresh == ASSUME Base, [Next]_vars PROVE Fresh'
<1> USE DEF vars, store, queues, extraction, scratch, history, Move, Goto
<1>1. /\ pc \in [Handlers -> Places] /\ cur \in [Handlers -> Events \cup {NoEvent}]
      /\ made \in [Handlers -> BOOLEAN] /\ mem \in [MemIds -> Row]
      /\ \A h \in Handlers : pc[h] \in Extracting => cur[h] \in Events
      /\ \A e \in Events : e \in Handlers
  BY DEF Base, Typed, TypeOK, CurOK, Handlers
<1>2. Gained /\ Kept /\ Fresh /\ OwnEvent
  BY Grows DEF Base
<1>3. \A h \in Handlers, e \in Events : <<h, e>> \in MemIds
  BY DEF MemIds
<1> DEFINE Right(g) ==
      /\ pc'[g] = "duplicate" => ~made'[g]
      /\ pc'[g] \in {"run", "node", "step"} => (made'[g] <=> Exists(<<g, cur[g]>>)')
      /\ pc'[g] \in {"write", "add"} => ~Exists(<<g, cur[g]>>)'
      /\ pc'[g] = "isolate" => made'[g] /\ Exists(<<g, cur[g]>>)'
    Still(g) == pc'[g] = pc[g] /\ cur'[g] = cur[g] /\ made'[g] = made[g]
<1>4. ASSUME NEW g \in Handlers, Still(g) PROVE Right(g)
  BY <1>1, <1>2, <1>3, <1>4 DEF Gained, Kept, Fresh, Extracting, Exists
<1>5. ASSUME NEW g \in Handlers, cur'[g] = cur[g], made'[g] = made[g],
             pc'[g] \notin {"duplicate", "run", "node", "step", "write", "add", "isolate"}
      PROVE  Right(g)
  BY <1>5
<1>6. ASSUME NEW e \in Events, pc[e] \in Early PROVE ~Exists(<<e, e>>)'
  BY <1>1, <1>2, <1>6 DEF Gained, Fresh, Early, Modes
<1>7. ASSUME \A g \in Handlers : Right(g),
             \A e \in Events : pc'[e] \in Early => pc[e] \in Early
      PROVE  Fresh'
  <2>1. \A e \in Events : pc'[e] \in Early => ~Exists(<<e, e>>)'
    BY <1>6, <1>7
  <2>2. QED
    BY <1>7, <2>1 DEF Fresh, Exists, Early, Modes
<1>8. ASSUME NEW h \in Handlers, \A g \in Handlers \ {h} : Still(g), Right(h),
             pc'[h] \notin Early
      PROVE  Fresh'
  <2>1. \A g \in Handlers : Right(g)
    BY <1>4, <1>8
  <2>2. \A e \in Events : pc'[e] \in Early => pc[e] \in Early
    BY <1>1, <1>8
  <2>3. QED
    BY <1>7, <2>1, <2>2
<1>9. ASSUME NEW e \in Events, WriteEvent(e) PROVE Fresh'
  <2>1. ModesOf[e] \subseteq Modes
    BY Tables
  <2>2. \A g \in Handlers \ {e} : Still(g)
    BY <1>1, <1>9 DEF WriteEvent, WriteBegin, AppendEvent, SkipExtraction, BufferLazily,
       BufferForExplicitFlush, EnqueueTask, ExtractInline, CacheEventOnNode
  <2>3. pc[e] \in Early \cup {"cache"} /\ (pc'[e] \in Early => pc[e] \in Early)
    BY <1>1, <1>9 DEF WriteEvent, WriteBegin, AppendEvent, SkipExtraction, BufferLazily,
       BufferForExplicitFlush, EnqueueTask, ExtractInline, CacheEventOnNode, Early, Modes
  <2>4. Right(e)
    <3>1. CASE ExtractInline(e)
      <4>1. pc'[e] = "write" /\ cur'[e] = e /\ pc[e] \in Early
        BY <1>1, <3>1 DEF ExtractInline, Early, Modes
      <4>2. QED
        BY <1>6, <4>1
    <3>2. CASE AppendEvent(e)
      BY <1>1, <1>5, <2>1, <3>2 DEF AppendEvent, Modes
    <3>3. CASE WriteBegin(e) \/ SkipExtraction(e) \/ BufferLazily(e) \/ CacheEventOnNode(e)
                 \/ BufferForExplicitFlush(e) \/ EnqueueTask(e)
      BY <1>1, <1>5, <3>3 DEF WriteBegin, SkipExtraction, BufferLazily,
         BufferForExplicitFlush, EnqueueTask, CacheEventOnNode
    <3>4. QED
      BY <1>9, <3>1, <3>2, <3>3 DEF WriteEvent
  <2>5. \A g \in Handlers : Right(g)
    BY <1>4, <2>2, <2>4
  <2>6. \A d \in Events : pc'[d] \in Early => pc[d] \in Early
    BY <1>1, <2>2, <2>3
  <2>7. QED
    BY <1>7, <2>5, <2>6
<1>10. ASSUME NEW h \in Handlers, ProcessEventExtraction(h) PROVE Fresh'
  <2>1. \A g \in Handlers \ {h} : Still(g)
    BY <1>1, <1>10 DEF ProcessEventExtraction, CheckDuplicate, CheckRun, CheckNode, CheckStep,
       Judge, AddToolEvidence, ResolveFact, AddFact, FoldFact, Isolate
  <2>2. pc'[h] \notin Early
    BY <1>1, <1>10 DEF ProcessEventExtraction, CheckDuplicate, CheckRun, CheckNode, CheckStep,
       Judge, AddToolEvidence, ResolveFact, AddFact, FoldFact, Isolate, AfterWrite, Early, Modes
  <2>3. cur[h] \in Events /\ <<h, cur[h]>> \in MemIds
    BY <1>1, <1>3, <1>10 DEF ProcessEventExtraction, CheckDuplicate, CheckRun, CheckNode,
       CheckStep, Judge, AddToolEvidence, ResolveFact, AddFact, FoldFact, Isolate, Extracting
  <2>4. Right(h)
    <3>1. CASE CheckDuplicate(h)
      <4>1. UNCHANGED <<mem, cur, made>> /\ pc[h] = "duplicate"
        BY <3>1 DEF CheckDuplicate
      <4>2. CASE AlreadyExtracted(cur[h])
        BY <1>1, <1>5, <3>1, <4>1, <4>2 DEF CheckDuplicate
      <4>3. CASE ~AlreadyExtracted(cur[h])
        <5>1. ~Exists(<<h, cur[h]>>)
          BY <2>3, <4>3 DEF AlreadyExtracted
        <5>2. pc'[h] = "run" /\ ~made[h]
          BY <1>1, <1>2, <3>1, <4>1, <4>3 DEF CheckDuplicate, Fresh
        <5>3. QED
          BY <4>1, <5>1, <5>2 DEF Exists
      <4>4. QED
        BY <4>2, <4>3
    <3>2. CASE CheckRun(h) \/ CheckNode(h) \/ CheckStep(h)
      <4>1. UNCHANGED <<mem, cur, made>> /\ pc[h] \in {"run", "node", "step"}
        BY <3>2 DEF CheckRun, CheckNode, CheckStep, Judge
      <4>2. /\ pc'[h] \in {"node", "step", "write", "next", "isolate"}
            /\ pc'[h] = "isolate" => made[h]
            /\ pc'[h] = "write" => ~made[h]
        BY <1>1, <3>2 DEF CheckRun, CheckNode, CheckStep, Judge
      <4>3. made[h] <=> Exists(<<h, cur[h]>>)
        BY <1>2, <4>1 DEF Fresh
      <4>4. QED
        BY <4>1, <4>2, <4>3 DEF Exists
    <3>3. CASE AddToolEvidence(h)
      <4>1. mem' = [mem EXCEPT ![<<h, cur[h]>>] = FreshRow(cur[h], 0)] /\ UNCHANGED cur
        BY <3>3 DEF AddToolEvidence
      <4>2. pc'[h] \in {"cache", "run"} /\ made'[h]
        BY <1>1, <3>3 DEF AddToolEvidence, AfterWrite
      <4>3. Exists(<<h, cur[h]>>)'
        BY <1>1, <2>3, <4>1 DEF Exists, FreshRow
      <4>4. QED
        BY <4>2, <4>3
    <3>4. CASE AddFact(h)
      <4>1. PICK w \in pending[h] : mem' = [mem EXCEPT ![w.id] = w.row]
        BY <3>4 DEF AddFact
      <4>2. pc[h] = "add" /\ UNCHANGED cur
        BY <3>4 DEF AddFact
      <4>3. w.id = <<h, cur[h]>> /\ w.row.branch # "none"
        BY <4>2 DEF Base, Waiting
      <4>4. pc'[h] \in {"cache", "run"} /\ made'[h]
        BY <1>1, <3>4 DEF AddFact, AfterWrite
      <4>5. Exists(<<h, cur[h]>>)'
        BY <1>1, <2>3, <4>1, <4>2, <4>3 DEF Exists
      <4>6. QED
        BY <4>4, <4>5
    <3>5. CASE ResolveFact(h)
      <4>1. UNCHANGED <<mem, cur, made>> /\ pc[h] = "write" /\ pc'[h] \in {"add", "update"}
        BY <1>1, <3>5 DEF ResolveFact
      <4>2. QED
        BY <1>2, <4>1 DEF Fresh, Exists
    <3>6. CASE FoldFact(h)
      <4>1. /\ UNCHANGED <<cur, made>>
            /\ \/ pc' = [pc EXCEPT ![h] = "update"]
               \/ pc' = [pc EXCEPT ![h] = AfterWrite(h, FALSE)]
        BY <3>6 DEF FoldFact
      <4>2. QED
        BY <1>1, <1>5, <4>1 DEF AfterWrite
    <3>7. CASE Isolate(h)
      BY <1>1, <1>5, <3>7 DEF Isolate
    <3>8. QED
      BY <1>10, <3>1, <3>2, <3>3, <3>4, <3>5, <3>6, <3>7 DEF ProcessEventExtraction
  <2>5. QED
    BY <1>8, <2>1, <2>2, <2>4
<1>11. ASSUME NEW h \in Handlers, FlushSession(h) PROVE Fresh'
  <2>1. \A g \in Handlers \ {h} : Still(g)
    BY <1>1, <1>11 DEF FlushSession, Drain, Pick, EndFlush
  <2>2. pc'[h] \notin Early
    BY <1>1, <1>11 DEF FlushSession, Drain, Pick, EndFlush, AfterFlush, Early, Modes
  <2>3. Right(h)
    <3>1. CASE Pick(h)
      BY <1>1, <3>1 DEF Pick
    <3>2. CASE Drain(h) \/ EndFlush(h)
      BY <1>1, <1>5, <3>2 DEF Drain, EndFlush, AfterFlush
    <3>3. QED
      BY <1>11, <3>1, <3>2 DEF FlushSession
  <2>4. QED
    BY <1>8, <2>1, <2>2, <2>3
<1>12. ASSUME NEW h \in Handlers, NEW place, pc' = [pc EXCEPT ![h] = place], place \notin Early,
              place \notin {"duplicate", "run", "node", "step", "write", "add", "isolate"},
              UNCHANGED <<cur, made>>
       PROVE  Fresh'
  <2>1. \A g \in Handlers \ {h} : Still(g)
    BY <1>1, <1>12
  <2>2. Right(h)
    BY <1>1, <1>5, <1>12
  <2>3. QED
    BY <1>1, <1>8, <1>12, <2>1, <2>2
<1>13. ASSUME NEW h \in Handlers, Fail(h) PROVE Fresh'
  <2>1. PICK place \in {"failed", "abandoned"} : pc' = [pc EXCEPT ![h] = place]
    BY <1>13 DEF Fail
  <2>2. QED
    BY <1>12, <1>13, <2>1 DEF Fail, Early, Modes
<1>14. ASSUME NEW w \in Workers, Deliver(w) PROVE Fresh'
  BY <1>12, <1>14 DEF Deliver, Handlers, Early, Modes
<1>15. ASSUME NEW f \in Flushers \cup Retrievals, Flush(f) PROVE Fresh'
  BY <1>12, <1>15 DEF Flush, Handlers, Early, Modes
<1>16. ASSUME NEW c \in Closers, CompleteRun(c) PROVE Fresh'
  BY <1>12, <1>16 DEF CompleteRun, Handlers, Early, Modes
<1>17. ASSUME NEW f \in Finishes, Finish(f) PROVE Fresh'
  <2>1. f \in Handlers
    BY DEF Handlers
  <2>2. QED
    BY <1>12, <1>17, <2>1 DEF Finish, FinishBegin, FinishStep, FinishNode, AddWorkingState,
       Early, Modes
<1>18. ASSUME NEW r \in Rollbacks, RollbackBranch(r) PROVE Fresh'
  <2>1. r \in Handlers
    BY DEF Handlers
  <2>2. CASE FlipMemory(r)
    <3>1. UNCHANGED <<pc, cur, made>>
      BY <2>2 DEF FlipMemory
    <3>2. QED
      BY <1>4, <1>7, <3>1
  <2>3. CASE ~FlipMemory(r)
    BY <1>12, <1>18, <2>1, <2>3 DEF RollbackBranch, RollbackBegin, ListNodes, MarkNode,
       MarkStep, ListMemories, RollbackEnd, Early, Modes
  <2>4. QED
    BY <2>2, <2>3
<1>19. CASE UNCHANGED vars
  <2>1. UNCHANGED <<pc, cur, made>>
    BY <1>19
  <2>2. QED
    BY <1>4, <1>7, <2>1
<1>20. QED
  BY <1>9, <1>10, <1>11, <1>13, <1>14, <1>15, <1>16, <1>17, <1>18, <1>19 DEF Next

LEMMA NextBase == Base /\ [Next]_vars => Base'
  BY NextTyped, NextOwn, NextWaiting, NextFresh DEF Base

-----------------------------------------------------------------------------
(***************************************************************************)
(* An event that is not handed to a broker is with one handler at most.    *)
(***************************************************************************)
Has(h, e) == e \in todo[h] \/ (pc[h] \in Extracting /\ cur[h] = e) \/ Exists(<<h, e>>)

Single(e) ==
  /\ e \notin queue /\ ~(e \in buffer /\ e \in explicit)
  /\ e \in buffer \cup explicit => pc[e] \notin Early
  /\ e \in buffer \cup explicit \/ pc[e] \in Early => \A h \in Handlers : ~Has(h, e)
  /\ \A g, h \in Handlers : Has(g, e) /\ Has(h, e) => g = h

OnceInv == \A e \in Events : "async" \notin ModesOf[e] => Single(e)

LEMMA InitOnce == Init => OnceInv
<1> SUFFICES ASSUME Init, NEW e \in Events PROVE Single(e)
  BY DEF OnceInv
<1>1. e \in Handlers /\ \A h \in Handlers : <<h, e>> \in MemIds
  BY DEF Handlers, MemIds
<1>2. \A h \in Handlers : ~Has(h, e)
  BY <1>1 DEF Init, Has, Extracting, Exists, NoRow
<1>3. QED
  BY <1>2 DEF Init, Single

\* Nobody new gets hold of e.
LEMMA OnceFrame ==
  ASSUME NEW e \in Events, Single(e), \A h \in Handlers : Has(h, e)' => Has(h, e),
         e \notin queue', buffer' \cap {e} \subseteq buffer, explicit' \cap {e} \subseteq explicit,
         pc'[e] \in Early <=> pc[e] \in Early
  PROVE  Single(e)'
BY DEF Single, Early, Modes

LEMMA NextOnce == ASSUME Base, OnceInv, [Next]_vars PROVE OnceInv'
<1> USE DEF vars, store, queues, extraction, scratch, history, Move, Goto
<1> SUFFICES ASSUME NEW e \in Events, "async" \notin ModesOf[e] PROVE Single(e)'
  BY DEF OnceInv
<1>1. /\ pc \in [Handlers -> Places] /\ cur \in [Handlers -> Events \cup {NoEvent}]
      /\ todo \in [Handlers -> SUBSET Events] /\ Gained /\ Single(e) /\ OwnEvent
      /\ \A d \in Events : d \in Handlers
  BY Grows DEF Base, Typed, TypeOK, OnceInv, Handlers
\* A handler whose place and hands do not change holds what it held.
<1>2. ASSUME NEW h \in Handlers, e \in todo'[h] => e \in todo[h],
             pc'[h] \in Extracting /\ cur'[h] = e =>
               e \in todo[h] \/ (pc[h] \in Extracting /\ cur[h] = e)
      PROVE  Has(h, e)' => Has(h, e)
  BY <1>2, <1>1 DEF Has, Gained, Extracting
<1>3. ASSUME NEW h \in Handlers, pc[h] \notin Early, pc'[h] \notin Early,
             \A g \in Handlers \ {h} : pc'[g] = pc[g] /\ cur'[g] = cur[g] /\ todo'[g] = todo[g],
             Has(h, e)' => Has(h, e),
             queue' \subseteq queue, buffer' \subseteq buffer, explicit' \subseteq explicit
      PROVE  Single(e)'
  <2>1. \A g \in Handlers : Has(g, e)' => Has(g, e)
    BY <1>2, <1>3
  <2>2. pc'[e] \in Early <=> pc[e] \in Early
    BY <1>1, <1>3
  <2>3. e \notin queue'
    BY <1>1, <1>3 DEF Single
  <2>4. QED
    BY <1>1, <1>3, <2>1, <2>2, <2>3, OnceFrame
\* A handler takes a step that keeps its hands as they are.
<1>4. ASSUME NEW h \in Handlers, NEW place, pc' = [pc EXCEPT ![h] = place],
             pc[h] \notin Early \/ h \notin Events, place \notin Early,
             place \in Extracting => pc[h] \in Extracting,
             UNCHANGED <<cur, todo, queue, buffer, explicit>>
      PROVE  Single(e)'
  <2>1. \A g \in Handlers : Has(g, e)' => Has(g, e)
    BY <1>1, <1>2, <1>4
  <2>2. pc'[e] \in Early <=> pc[e] \in Early
    BY <1>1, <1>4
  <2>3. QED
    BY <1>1, <1>4, <2>1, <2>2, OnceFrame DEF Single
<1>5. ASSUME NEW d \in Events, WriteEvent(d) PROVE Single(e)'
  <2>1. ModesOf[d] \subseteq Modes
    BY Tables
  <2>2. CASE WriteBegin(d) \/ AppendEvent(d)
    <3>1. PICK place \in Early :
            /\ pc[d] \in Early /\ pc' = [pc EXCEPT ![d] = place]
            /\ UNCHANGED <<cur, todo, queue, buffer, explicit>>
      BY <2>1, <2>2 DEF WriteBegin, AppendEvent, Early, Modes
    <3>2. \A g \in Handlers : Has(g, e)' => Has(g, e)
      BY <1>1, <1>2, <3>1 DEF Early, Modes, Extracting
    <3>3. pc'[e] \in Early <=> pc[e] \in Early
      BY <1>1, <3>1
    <3>4. QED
      BY <1>1, <3>1, <3>2, <3>3, OnceFrame DEF Single
  <2>3. CASE d # e /\ ~(WriteBegin(d) \/ AppendEvent(d))
    <3>1. \A g \in Handlers \ {d} : pc'[g] = pc[g] /\ cur'[g] = cur[g] /\ todo'[g] = todo[g]
      BY <1>1, <1>5, <2>3 DEF WriteEvent, SkipExtraction, BufferLazily, BufferForExplicitFlush,
         EnqueueTask, ExtractInline, CacheEventOnNode
    <3>2. pc'[d] \in Extracting => cur'[d] = d
      BY <1>1, <1>5, <2>3 DEF WriteEvent, SkipExtraction, BufferLazily, BufferForExplicitFlush,
         EnqueueTask, ExtractInline, CacheEventOnNode, Extracting
    <3>3. todo' = todo /\ pc'[e] = pc[e]
      BY <1>1, <1>5, <2>3, <3>1 DEF WriteEvent, SkipExtraction, BufferLazily,
         BufferForExplicitFlush, EnqueueTask, ExtractInline, CacheEventOnNode
    <3>4. \A g \in Handlers : Has(g, e)' => Has(g, e)
      BY <1>2, <2>3, <3>1, <3>2, <3>3
    <3>5. queue' \subseteq queue \cup {d} /\ buffer' \subseteq buffer \cup {d}
          /\ explicit' \subseteq explicit \cup {d}
      BY <1>5, <2>3 DEF WriteEvent, SkipExtraction, BufferLazily,
         BufferForExplicitFlush, EnqueueTask, ExtractInline, CacheEventOnNode
    <3>6. e \notin queue
      BY <1>1 DEF Single
    <3>7. QED
      BY <1>1, <2>3, <3>3, <3>4, <3>5, <3>6, OnceFrame
  <2>4. CASE d = e /\ (BufferLazily(e) \/ BufferForExplicitFlush(e))
    <3>1. pc[e] \in Early /\ pc' = [pc EXCEPT ![e] = "cache"] /\ UNCHANGED <<mem, cur, todo>>
      BY <2>4 DEF BufferLazily, BufferForExplicitFlush, Early, Modes
    <3>2. \A g \in Handlers : ~Has(g, e)
      BY <1>1, <3>1 DEF Single
    <3>3. \A g \in Handlers : ~Has(g, e)'
      BY <1>1, <3>1, <3>2 DEF Has, Exists, Extracting
    <3>4. pc'[e] \notin Early /\ e \notin queue'
      BY <1>1, <2>4, <3>1 DEF Early, Modes, Single, BufferLazily, BufferForExplicitFlush
    <3>5. ~(e \in buffer' /\ e \in explicit')
      BY <1>1, <2>4, <3>1 DEF Single, BufferLazily, BufferForExplicitFlush
    <3>6. QED
      BY <3>3, <3>4, <3>5 DEF Single
  <2>5. CASE d = e /\ ExtractInline(e)
    <3>1. pc[e] \in Early /\ pc'[e] = "write"
          /\ UNCHANGED <<mem, todo, queue, buffer, explicit>>
          /\ \A g \in Handlers \ {e} : pc'[g] = pc[g] /\ cur'[g] = cur[g]
      BY <1>1, <2>5 DEF ExtractInline, Early, Modes
    <3>2. \A g \in Handlers : ~Has(g, e)
      BY <1>1, <3>1 DEF Single
    <3>3. \A g \in Handlers \ {e} : ~Has(g, e)'
      BY <1>1, <3>1, <3>2 DEF Has, Exists, Extracting
    <3>4. e \notin queue' \cup buffer' \cup explicit' /\ pc'[e] \notin Early
      BY <1>1, <3>1 DEF Single, Early, Modes
    <3>5. QED
      BY <3>3, <3>4 DEF Single
  <2>6. CASE d = e /\ (SkipExtraction(e) \/ EnqueueTask(e) \/ CacheEventOnNode(e))
    <3>1. ~EnqueueTask(e)
      BY <1>1 DEF EnqueueTask, OwnEvent, Modes
    <3>2. PICK place \in {"cache", "done"} : pc' = [pc EXCEPT ![e] = place]
      BY <2>6, <3>1 DEF SkipExtraction, CacheEventOnNode
    <3>3. UNCHANGED <<mem, cur, todo, queue, buffer, explicit>>
      BY <2>6, <3>1 DEF SkipExtraction, CacheEventOnNode
    <3>4. \A g \in Handlers : Has(g, e)' => Has(g, e)
      BY <1>1, <1>2, <3>2, <3>3 DEF Extracting
    <3>5. pc'[e] \notin Early
      BY <1>1, <3>2 DEF Early, Modes
    <3>6. QED
      BY <1>1, <3>3, <3>4, <3>5 DEF Single
  <2>7. QED
    BY <1>5, <2>2, <2>3, <2>4, <2>5, <2>6 DEF WriteEvent
<1>6. ASSUME NEW h \in Handlers, ProcessEventExtraction(h) PROVE Single(e)'
  <2>1. /\ pc[h] \in Extracting /\ UNCHANGED <<cur, todo, queue, buffer, explicit>>
        /\ \A g \in Handlers \ {h} : pc'[g] = pc[g]
    BY <1>1, <1>6 DEF ProcessEventExtraction, CheckDuplicate, CheckRun, CheckNode, CheckStep,
       Judge, AddToolEvidence, ResolveFact, AddFact, FoldFact, Isolate, Extracting
  <2>2. pc'[h] \notin Early
    BY <1>1, <1>6 DEF ProcessEventExtraction, CheckDuplicate, CheckRun, CheckNode, CheckStep,
       Judge, AddToolEvidence, ResolveFact, AddFact, FoldFact, Isolate, AfterWrite, Early, Modes
  <2>3. Has(h, e)' => Has(h, e)
    BY <1>2, <2>1
  <2>4. pc[h] \notin Early
    BY <2>1 DEF Extracting, Early, Modes
  <2>5. QED
    BY <1>3, <2>1, <2>2, <2>3, <2>4
<1>7. ASSUME NEW h \in Handlers, FlushSession(h) PROVE Single(e)'
  <2>1. CASE Drain(h)
    <3>1. /\ pc[h] = "drain" /\ pc' = [pc EXCEPT ![h] = "next"]
          /\ todo' = [todo EXCEPT ![h] = buffer \cup (IF h \in Flushers THEN explicit ELSE {})]
          /\ buffer' = {} /\ explicit' = (IF h \in Flushers THEN {} ELSE explicit)
          /\ UNCHANGED <<mem, queue, cur>>
      BY <2>1 DEF Drain
    <3>2. pc'[e] \in Early <=> pc[e] \in Early
      BY <1>1, <3>1 DEF Early, Modes
    <3>3. \A g \in Handlers \ {h} : Has(g, e)' => Has(g, e)
      BY <1>1, <3>1 DEF Has, Exists
    <3>4. CASE e \in todo'[h]
      <4>1. e \in buffer \cup explicit /\ e \notin buffer' \cup explicit'
        BY <1>1, <3>1, <3>4 DEF Single
      <4>2. \A g \in Handlers \ {h} : ~Has(g, e)'
        BY <1>1, <3>3, <4>1 DEF Single
      <4>3. pc'[e] \notin Early /\ e \notin queue'
        BY <1>1, <3>1, <3>2, <4>1 DEF Single
      <4>4. QED
        BY <4>1, <4>2, <4>3 DEF Single
    <3>5. CASE e \notin todo'[h]
      <4>1. Has(h, e)' => Has(h, e)
        BY <1>1, <3>1, <3>5 DEF Has, Exists, Extracting
      <4>2. e \notin queue' /\ buffer' \subseteq buffer /\ explicit' \subseteq explicit
        BY <1>1, <3>1 DEF Single
      <4>3. QED
        BY <1>1, <3>2, <3>3, <4>1, <4>2, OnceFrame
    <3>6. QED
      BY <3>4, <3>5
  <2>2. CASE Pick(h)
    <3>1. PICK d \in todo[h] : cur' = [cur EXCEPT ![h] = d] /\ todo' = [todo EXCEPT ![h] = @ \ {d}]
      BY <2>2 DEF Pick
    <3>2. pc[h] = "next" /\ pc' = [pc EXCEPT ![h] = "duplicate"]
          /\ UNCHANGED <<queue, buffer, explicit>>
      BY <2>2 DEF Pick
    <3>3. Has(h, e)' => Has(h, e)
      BY <1>1, <1>2, <3>1, <3>2
    <3>4. QED
      BY <1>1, <1>3, <3>1, <3>2, <3>3 DEF Early, Modes
  <2>3. CASE EndFlush(h)
    BY <1>4, <2>3 DEF EndFlush, AfterFlush, Early, Modes, Extracting
  <2>4. QED
    BY <1>7, <2>1, <2>2, <2>3 DEF FlushSession
<1>8. ASSUME NEW h \in Handlers, Fail(h) PROVE Single(e)'
  <2>1. PICK place \in {"failed", "abandoned"} :
          pc' = [pc EXCEPT ![h] = place] /\ (place = "abandoned" => pc[h] \in Extracting)
    BY <1>8 DEF Fail, Rechecking, Extracting
  <2>2. UNCHANGED <<mem, cur, todo, queue, buffer, explicit>>
    BY <1>8 DEF Fail
  <2>3. \A g \in Handlers : Has(g, e)' => Has(g, e)
    BY <1>1, <1>2, <2>1, <2>2 DEF Extracting
  <2>4. pc'[e] \in Early => pc[e] \in Early
    BY <1>1, <2>1 DEF Early, Modes
  <2>5. e \in buffer \cup explicit => pc'[e] \notin Early
    BY <1>1, <2>4 DEF Single
  <2>6. QED
    BY <1>1, <2>2, <2>3, <2>4, <2>5 DEF Single
<1>9. ASSUME NEW w \in Workers, Deliver(w) PROVE Single(e)'
  <2>1. w \in Handlers \ Events
    BY DisjointHandlers DEF Handlers
  <2>2. PICK d \in queue : todo' = [todo EXCEPT ![w] = {d}]
    BY <1>9 DEF Deliver
  <2>3. pc' = [pc EXCEPT ![w] = "next"] /\ queue' \subseteq queue
        /\ UNCHANGED <<mem, cur, buffer, explicit>>
    BY <1>9 DEF Deliver
  <2>4. \A g \in Handlers : Has(g, e)' => Has(g, e)
    BY <1>1, <1>2, <2>2, <2>3 DEF Single, Extracting
  <2>5. pc'[e] = pc[e] /\ e \notin queue'
    BY <1>1, <2>1, <2>3 DEF Single
  <2>6. QED
    BY <1>1, <2>3, <2>4, <2>5, OnceFrame
<1>10. ASSUME NEW f \in Flushers \cup Retrievals, Flush(f) PROVE Single(e)'
  <2>1. f \in Handlers \ Events
    BY DisjointHandlers DEF Handlers
  <2>2. QED
    BY <1>4, <1>10, <2>1 DEF Flush, Early, Modes, Extracting
<1>11. ASSUME NEW c \in Closers, CompleteRun(c) PROVE Single(e)'
  <2>1. c \in Handlers \ Events
    BY DisjointHandlers DEF Handlers
  <2>2. QED
    BY <1>4, <1>11, <2>1 DEF CompleteRun, Early, Modes, Extracting
<1>12. ASSUME NEW f \in Finishes, Finish(f) PROVE Single(e)'
  <2>1. f \in Handlers \ Events
    BY DisjointHandlers DEF Handlers
  <2>2. QED
    BY <1>4, <1>12, <2>1 DEF Finish, FinishBegin, FinishStep, FinishNode, AddWorkingState,
       Early, Modes, Extracting
<1>13. ASSUME NEW r \in Rollbacks, RollbackBranch(r) PROVE Single(e)'
  <2>1. r \in Handlers \ Events
    BY DisjointHandlers DEF Handlers
  <2>2. CASE FlipMemory(r)
    <3>1. UNCHANGED <<pc, cur, todo, queue, buffer, explicit>>
      BY <2>2 DEF FlipMemory
    <3>2. \A g \in Handlers : Has(g, e)' => Has(g, e)
      BY <1>2, <3>1
    <3>3. QED
      BY <1>1, <3>1, <3>2, OnceFrame DEF Single
  <2>3. CASE ~FlipMemory(r)
    BY <1>4, <1>13, <2>1, <2>3 DEF RollbackBranch, RollbackBegin, ListNodes, MarkNode,
       MarkStep, ListMemories, RollbackEnd, Early, Modes, Extracting
  <2>4. QED
    BY <2>2, <2>3
<1>14. CASE UNCHANGED vars
  <2>1. \A g \in Handlers : Has(g, e)' => Has(g, e)
    BY <1>2, <1>14
  <2>2. QED
    BY <1>1, <1>14, <2>1, OnceFrame DEF Single
<1>15. QED
  BY <1>5, <1>6, <1>7, <1>8, <1>9, <1>10, <1>11, <1>12, <1>13, <1>14 DEF Next

\* Whatever flushes, retrievals, rollbacks and failures interleave, one
\* handler at most ever adds a memory for an event that no broker was given:
\* draining a buffer hands its events to one of them.
THEOREM ExtractedByOne == Spec => []DrainedOnce
<1>1. Base /\ OnceInv => DrainedOnce
  <2> SUFFICES ASSUME OnceInv, NEW e \in Events, "async" \notin ModesOf[e]
               PROVE  Cardinality({h \in Handlers : Exists(<<h, e>>)}) <= 1
    BY DEF DrainedOnce
  <2> DEFINE adders == {h \in Handlers : Exists(<<h, e>>)}
  <2>1. \A g, h \in adders : g = h
    BY DEF OnceInv, Single, Has
  <2> HIDE DEF adders
  <2>2. ASSUME adders = {} PROVE Cardinality(adders) <= 1
    <3>1. Cardinality(adders) = 0
      BY <2>2, FS_EmptySet
    <3>2. QED
      BY <3>1
  <2>3. ASSUME NEW h \in adders PROVE Cardinality(adders) <= 1
    <3>1. adders = {h}
      BY <2>1
    <3>2. Cardinality(adders) = 1
      BY <3>1, FS_Singleton
    <3>3. QED
      BY <3>2
  <2>4. Cardinality(adders) <= 1
    BY <2>2, <2>3
  <2>5. QED
    BY <2>4 DEF adders
<1>2. Init => Base /\ OnceInv
  BY InitBase, InitOnce
<1>3. Base /\ OnceInv /\ [Next]_vars => (Base /\ OnceInv)'
  BY NextBase, NextOnce
<1>4. QED
  BY <1>1, <1>2, <1>3, PTL DEF Spec

-----------------------------------------------------------------------------
(***************************************************************************)
(* A deferred tool result is never lost while nothing fails.               *)
(***************************************************************************)
Messages == {e \in Events : KindOf[e] = "message"}

\* Only facts stand for other events.
Sourced ==
  /\ \A m \in MemIds : mem[m].sources \subseteq Messages
  /\ \A h \in Handlers : \A w \in pending[h] : w.row.sources \subseteq Messages

LEMMA InitSourced == Init => Sourced
  BY DEF Init, Sourced, NoRow

LEMMA NextSourced == ASSUME Base, Sourced, [Next]_vars PROVE Sourced'
<1> USE DEF vars, store, queues, extraction, scratch, history, Move, Goto
<1>1. /\ mem \in [MemIds -> Row] /\ cur \in [Handlers -> Events \cup {NoEvent}]
      /\ pending \in [Handlers -> SUBSET [id : MemIds, row : Row]]
      /\ \A h \in Handlers : pc[h] \in Extracting => cur[h] \in Events
  BY DEF Base, Typed, TypeOK, CurOK
<1>2. ASSUME UNCHANGED <<mem, pending>> PROVE Sourced'
  BY <1>2 DEF Sourced, Messages
<1>3. ASSUME UNCHANGED pending, NEW m \in MemIds, NEW row, row.sources \subseteq Messages,
             mem' = [mem EXCEPT ![m] = row]
      PROVE  Sourced'
  BY <1>1, <1>3 DEF Sourced, Messages
<1>4. ASSUME NEW h \in Handlers, NEW w \in pending[h], WriteBack(h, w) PROVE Sourced'
  <2>1. w.id \in MemIds /\ w.row \in Row /\ mem[w.id] \in Row /\ w.row.sources \subseteq Messages
    BY <1>1, <1>4 DEF Sourced
  <2>2. Merged(mem[w.id], w.row).sources = w.row.sources
    BY <2>1 DEF Merged, Row
  <2>3. mem' = [mem EXCEPT ![w.id] = Merged(mem[w.id], w.row)]
        /\ pending' = [pending EXCEPT ![h] = @ \ {w}]
    BY <1>4 DEF WriteBack
  <2>4. \A m \in MemIds : mem'[m].sources \subseteq Messages
    BY <1>1, <2>1, <2>2, <2>3 DEF Sourced
  <2>5. \A g \in Handlers : pending'[g] \subseteq pending[g]
    BY <1>1, <2>3
  <2>6. \A g \in Handlers : \A v \in pending'[g] : v.row.sources \subseteq Messages
    BY <2>5 DEF Sourced
  <2>7. QED
    BY <2>4, <2>6 DEF Sourced, Messages
<1>5. ASSUME NEW h \in Handlers, UNCHANGED mem, NEW set,
             pending' = [pending EXCEPT ![h] = set],
             \A w \in set : w.row.sources \subseteq Messages
      PROVE  Sourced'
  BY <1>1, <1>5 DEF Sourced, Messages
<1>6. ASSUME NEW e \in Events, WriteEvent(e) PROVE Sourced'
  BY <1>2, <1>6 DEF WriteEvent, WriteBegin, AppendEvent, SkipExtraction, BufferLazily,
     BufferForExplicitFlush, EnqueueTask, ExtractInline, CacheEventOnNode
<1>7. ASSUME NEW h \in Handlers, ProcessEventExtraction(h) PROVE Sourced'
  <2>1. CASE CheckDuplicate(h) \/ CheckRun(h) \/ CheckNode(h) \/ CheckStep(h)
    BY <1>2, <2>1 DEF CheckDuplicate, CheckRun, CheckNode, CheckStep, Judge
  <2>2. \A e, t : FreshRow(e, t).sources = {}
    BY DEF FreshRow
  <2>3. CASE AddToolEvidence(h)
    <3>1. <<h, cur[h]>> \in MemIds
      BY <1>1, <2>3 DEF AddToolEvidence, Extracting, MemIds
    <3>2. QED
      BY <1>3, <2>2, <2>3, <3>1 DEF AddToolEvidence
  <2>4. CASE ResolveFact(h)
    <3>1. UNCHANGED mem /\ pc[h] = "write" /\ KindOf[cur[h]] = "message"
      BY <2>4 DEF ResolveFact
    <3>2. CASE pending' = [pending EXCEPT ![h] =
                 {[id |-> <<h, cur[h]>>, row |-> FreshRow(cur[h], clock)]}]
      <4> DEFINE rows == {[id |-> <<h, cur[h]>>, row |-> FreshRow(cur[h], clock)]}
      <4>1. \A w \in rows : w.row.sources \subseteq Messages
        BY <2>2
      <4>2. UNCHANGED mem /\ pending' = [pending EXCEPT ![h] = rows]
        BY <3>1, <3>2
      <4> HIDE DEF rows
      <4>3. QED
        BY <1>5, <4>1, <4>2
    <3>3. ASSUME NEW p \in SameIdentityActives,
                 pending' = [pending EXCEPT ![h] = Folded(p, SameIdentityActives, cur[h])]
          PROVE  Sourced'
      <4>1. cur[h] \in Messages
        BY <1>1, <3>1 DEF Extracting, Messages
      <4>2. \A m \in SameIdentityActives :
              m \in MemIds /\ m[2] \in Messages /\ mem[m] \in Row /\ mem[m].sources \subseteq Messages
        BY <1>1 DEF SameIdentityActives, IsFact, Messages, Sourced
      <4>3. ASSUME NEW w \in Folded(p, SameIdentityActives, cur[h]), NEW d \in w.row.sources
            PROVE  d = cur[h] \/ \E m \in SameIdentityActives : d = m[2] \/ d \in mem[m].sources
        BY <4>2 DEF Folded, Row
      <4>4. \A w \in Folded(p, SameIdentityActives, cur[h]) : w.row.sources \subseteq Messages
        BY <4>1, <4>2, <4>3
      <4>5. QED
        BY <1>5, <3>1, <3>3, <4>4
    <3>4. QED
      BY <2>4, <3>2, <3>3 DEF ResolveFact
  <2>5. CASE AddFact(h)
    <3>1. PICK w \in pending[h] : mem' = [mem EXCEPT ![w.id] = w.row]
      BY <2>5 DEF AddFact
    <3>2. w.id \in MemIds /\ w.row.sources \subseteq Messages
      BY <1>1 DEF Sourced
    <3>3. pending' = [pending EXCEPT ![h] = {}]
      BY <2>5 DEF AddFact
    <3>4. \A m \in MemIds : mem'[m].sources \subseteq Messages
      BY <1>1, <3>1, <3>2 DEF Sourced
    <3>5. \A g \in Handlers : \A v \in pending'[g] : v.row.sources \subseteq Messages
      BY <1>1, <3>3 DEF Sourced
    <3>6. QED
      BY <3>4, <3>5 DEF Sourced, Messages
  <2>6. CASE FoldFact(h)
    BY <1>4, <2>6 DEF FoldFact
  <2>7. CASE Isolate(h)
    <3>1. <<h, cur[h]>> \in MemIds /\ mem[<<h, cur[h]>>] \in Row
      BY <1>1, <2>7 DEF Isolate, Extracting, MemIds
    <3>2. [mem[<<h, cur[h]>>] EXCEPT !.branch = "rolled_back"].sources \subseteq Messages
      BY <3>1 DEF Row, Sourced
    <3>3. QED
      BY <1>3, <2>7, <3>1, <3>2 DEF Isolate
  <2>8. QED
    BY <1>7, <2>1, <2>3, <2>4, <2>5, <2>6, <2>7 DEF ProcessEventExtraction
<1>8. ASSUME NEW h \in Handlers, FlushSession(h) \/ Fail(h) PROVE Sourced'
  BY <1>2, <1>8 DEF FlushSession, Drain, Pick, EndFlush, Fail
<1>9. ASSUME NEW w \in Workers, Deliver(w) PROVE Sourced'
  BY <1>2, <1>9 DEF Deliver
<1>10. ASSUME NEW f \in Flushers \cup Retrievals, Flush(f) PROVE Sourced'
  BY <1>2, <1>10 DEF Flush
<1>11. ASSUME NEW c \in Closers, CompleteRun(c) PROVE Sourced'
  BY <1>2, <1>11 DEF CompleteRun
<1>12. ASSUME NEW f \in Finishes, Finish(f) PROVE Sourced'
  <2>1. CASE AddWorkingState(f)
    <3>1. <<f, f>> \in MemIds
      BY DEF MemIds, Handlers
    <3> DEFINE row == [branch |-> Finished("active", verdict[f]), status |-> "active",
                       sources |-> {}, born |-> 0]
    <3>2. row.sources = {}
      OBVIOUS
    <3>3. UNCHANGED pending /\ mem' = [mem EXCEPT ![<<f, f>>] = row]
      BY <2>1 DEF AddWorkingState
    <3> HIDE DEF row
    <3>4. QED
      BY <1>3, <3>1, <3>2, <3>3
  <2>2. CASE ~AddWorkingState(f)
    BY <1>2, <1>12, <2>2 DEF Finish, FinishBegin, FinishStep, FinishNode
  <2>3. QED
    BY <2>1, <2>2
<1>13. ASSUME NEW r \in Rollbacks, RollbackBranch(r) PROVE Sourced'
  <2> r \in Handlers BY DEF Handlers
  <2>1. CASE ListMemories(r)
    <3> DEFINE flips == {[id |-> m, row |-> [mem[m] EXCEPT !.branch = "rolled_back"]]
                           : m \in InBranch(r)}
    <3>1. \A m \in InBranch(r) :
            [mem[m] EXCEPT !.branch = "rolled_back"].sources \subseteq Messages
      BY <1>1 DEF InBranch, Row, Sourced
    <3>2. ASSUME NEW w \in flips PROVE w.row.sources \subseteq Messages
      <4>1. PICK m \in InBranch(r) :
              w = [id |-> m, row |-> [mem[m] EXCEPT !.branch = "rolled_back"]]
        OBVIOUS
      <4>2. w.row = [mem[m] EXCEPT !.branch = "rolled_back"]
        BY <4>1
      <4>3. QED
        BY <3>1, <4>2
    <3>3. UNCHANGED mem /\ pending' = [pending EXCEPT ![r] = flips]
      BY <2>1 DEF ListMemories
    <3> HIDE DEF flips
    <3>4. QED
      BY <1>5, <3>2, <3>3
  <2>2. CASE FlipMemory(r)
    BY <1>4, <2>2 DEF FlipMemory
  <2>3. CASE RollbackBegin(r) \/ ListNodes(r) \/ MarkNode(r) \/ MarkStep(r) \/ RollbackEnd(r)
    BY <1>2, <2>3 DEF RollbackBegin, ListNodes, MarkNode, MarkStep, RollbackEnd
  <2>4. QED
    BY <1>13, <2>1, <2>2, <2>3 DEF RollbackBranch
<1>14. CASE UNCHANGED vars
  BY <1>2, <1>14
<1>15. QED
  BY <1>6, <1>7, <1>8, <1>9, <1>10, <1>11, <1>12, <1>13, <1>14 DEF Next

Reading == {"duplicate", "run", "node", "step", "write"}
InHand(h, e) == e \in todo[h] \/ (cur[h] = e /\ pc[h] \in Reading)
Settled(e) == e \in refused \/ \E h \in Handlers : Exists(<<h, e>>)
Stored(e) ==
  \/ e \in buffer \cup explicit \cup queue
  \/ \E h \in Handlers : InHand(h, e)
  \/ Settled(e)

\* The events NoSilentLoss is about.
Deferred ==
  {e \in Events : ModesOf[e] \subseteq {"lazy", "sync_flush", "async"} /\ KindOf[e] # "message"}

NothingLost == \A e \in Deferred : pc[e] \in {"cache", "done"} => Stored(e)

LEMMA InitLost == Init => NothingLost
<1> SUFFICES ASSUME Init, NEW e \in Deferred PROVE pc[e] = "idle"
  BY DEF NothingLost
<1>1. e \in Handlers
  BY DEF Deferred, Handlers
<1>2. QED
  BY <1>1 DEF Init

\* What is stored is still stored if each step hands it on.
LEMMA StoredFrame ==
  ASSUME Base, NEW e \in Events, Stored(e), Kept, refused \subseteq refused',
         e \in buffer \cup explicit \cup queue =>
           e \in buffer' \cup explicit' \cup queue' \/ \E h \in Handlers : InHand(h, e)',
         \A h \in Handlers : InHand(h, e) => InHand(h, e)' \/ Settled(e)'
  PROVE  Stored(e)'
<1>1. Settled(e) => Settled(e)'
  <2>1. \A h \in Handlers : <<h, e>> \in MemIds
    BY DEF MemIds
  <2>2. QED
    BY <2>1 DEF Settled, Kept, Exists
<1>2. QED
  BY <1>1 DEF Stored

LEMMA NextLost ==
  ASSUME ~MayFail, Base, Sourced, NothingLost, [Next]_vars
  PROVE  NothingLost'
<1> USE DEF vars, store, queues, extraction, scratch, history, Move, Goto
<1> SUFFICES ASSUME NEW e \in Deferred, pc'[e] \in {"cache", "done"} PROVE Stored(e)'
  BY DEF NothingLost, Deferred
<1>1. /\ pc \in [Handlers -> Places] /\ cur \in [Handlers -> Events \cup {NoEvent}]
      /\ todo \in [Handlers -> SUBSET Events] /\ Kept /\ OwnEvent /\ Drained
      /\ mem \in [MemIds -> Row]
      /\ \A d \in Events : d \in Handlers
  BY Grows DEF Base, Typed, TypeOK, Handlers
<1>2. /\ e \in Events /\ e \in Handlers /\ KindOf[e] # "message"
      /\ ModesOf[e] \subseteq {"lazy", "sync_flush", "async"}
      /\ \A h \in Handlers : <<h, e>> \in MemIds
  BY DEF Deferred, Handlers, MemIds
<1>3. pc[e] \in {"cache", "done"} => Stored(e)
  BY DEF NothingLost
<1>4. ASSUME NEW h \in Handlers, cur'[h] = cur[h], todo[h] \subseteq todo'[h],
             pc[h] \in Reading => pc'[h] = pc[h], InHand(h, e)
      PROVE  InHand(h, e)'
  BY <1>4 DEF InHand, Reading
\* A step that changes no event's place and hands nothing on.
<1>5. ASSUME UNCHANGED <<cur, todo, buffer, explicit, queue>>, refused \subseteq refused',
             pc[e] \in {"cache", "done"},
             \A h \in Handlers : pc[h] \in Reading => pc'[h] = pc[h]
      PROVE  Stored(e)'
  <2>1. Stored(e)
    BY <1>3, <1>5
  <2>2. \A h \in Handlers : InHand(h, e) => InHand(h, e)'
    BY <1>4, <1>5
  <2>3. QED
    BY <1>2, <1>1, <1>5, <2>1, <2>2, StoredFrame
<1>6. ASSUME NEW d \in Events, WriteEvent(d) PROVE Stored(e)'
  <2>1. ModesOf[d] \subseteq Modes
    BY Tables
  <2>2. CASE d = e
    <3>1. CASE BufferLazily(e) \/ BufferForExplicitFlush(e) \/ EnqueueTask(e)
      BY <3>1 DEF BufferLazily, BufferForExplicitFlush, EnqueueTask, Stored
    <3>2. CASE CacheEventOnNode(e)
      BY <1>1, <1>2, <1>5, <3>2 DEF CacheEventOnNode, Reading
    <3>3. ~(WriteBegin(e) \/ SkipExtraction(e) \/ ExtractInline(e) \/ AppendEvent(e))
      BY <1>1, <1>2 DEF WriteBegin, SkipExtraction, ExtractInline, AppendEvent, OwnEvent, Modes
    <3>4. QED
      BY <1>6, <2>2, <3>1, <3>2, <3>3 DEF WriteEvent
  <2>3. CASE d # e
    <3>1. /\ \A h \in Handlers \ {d} : pc'[h] = pc[h] /\ cur'[h] = cur[h]
          /\ pc[d] \notin Reading /\ UNCHANGED <<todo, refused>>
          /\ buffer \subseteq buffer' /\ explicit \subseteq explicit' /\ queue \subseteq queue'
      BY <1>1, <1>6 DEF WriteEvent, WriteBegin, AppendEvent, SkipExtraction, BufferLazily,
         BufferForExplicitFlush, EnqueueTask, ExtractInline, CacheEventOnNode, Reading
    <3>2. \A h \in Handlers : InHand(h, e) => InHand(h, e)'
      BY <3>1 DEF InHand
    <3>3. Stored(e)
      BY <1>2, <1>3, <2>3, <3>1
    <3>4. QED
      BY <1>1, <1>2, <3>1, <3>2, <3>3, StoredFrame
  <2>4. QED
    BY <2>2, <2>3
<1>7. ASSUME NEW h \in Handlers, ProcessEventExtraction(h) PROVE Stored(e)'
  <2>1. /\ pc[h] \in Extracting /\ UNCHANGED <<cur, todo, queue, buffer, explicit>>
        /\ \A g \in Handlers \ {h} : pc'[g] = pc[g]
    BY <1>1, <1>7 DEF ProcessEventExtraction, CheckDuplicate, CheckRun, CheckNode, CheckStep,
       Judge, AddToolEvidence, ResolveFact, AddFact, FoldFact, Isolate, Extracting
  <2>2. refused \subseteq refused'
    BY <1>7 DEF ProcessEventExtraction, CheckDuplicate, CheckRun, CheckNode, CheckStep,
       Judge, AddToolEvidence, ResolveFact, AddFact, FoldFact, Isolate
  <2>3. h # e
    BY <1>1, <1>2, <2>1 DEF OwnEvent, Extracting, Early, Modes
  <2>4. Stored(e)
    BY <1>2, <1>3, <2>1, <2>3
  <2>5. \A g \in Handlers \ {h} : InHand(g, e) => InHand(g, e)'
    BY <2>1 DEF InHand
  <2>6. InHand(h, e) => InHand(h, e)' \/ Settled(e)'
    <3>1. CASE e \in todo[h]
      BY <2>1, <3>1 DEF InHand
    <3>2. CASE cur[h] = e /\ pc[h] \in Reading
      <4>1. CASE CheckDuplicate(h)
        <5>1. CASE AlreadyExtracted(e)
          <6>1. PICK m \in MemIds : Exists(m) /\ (m[2] = e \/ e \in mem[m].sources)
            BY <5>1 DEF AlreadyExtracted
          <6>2. e \notin mem[m].sources
            BY <1>2 DEF Sourced, Messages
          <6>3. m[1] \in Handlers /\ m = <<m[1], e>>
            BY <6>1, <6>2 DEF MemIds
          <6>4. Exists(<<m[1], e>>)'
            BY <1>1, <6>1, <6>3 DEF Kept
          <6>5. QED
            BY <6>3, <6>4 DEF Settled
        <5>2. CASE ~AlreadyExtracted(e)
          BY <1>1, <2>1, <3>2, <4>1, <5>2 DEF CheckDuplicate, InHand, Reading
        <5>3. QED
          BY <5>1, <5>2
      <4>2. CASE CheckRun(h) \/ CheckNode(h)
        BY <1>1, <2>1, <3>2, <4>2 DEF CheckRun, CheckNode, Judge, InHand, Reading, Settled
      <4>3. CASE CheckStep(h)
        <5>1. CASE made[h]
          <6>1. Exists(<<h, e>>)
            BY <3>2, <4>3, <5>1 DEF CheckStep, Judge, Base, Fresh
          <6>2. QED
            BY <1>1, <1>2, <6>1 DEF Kept, Settled
        <5>2. CASE ~made[h]
          BY <1>1, <2>1, <3>2, <4>3, <5>2 DEF CheckStep, Judge, InHand, Reading, Settled
        <5>3. QED
          BY <5>1, <5>2
      <4>4. CASE AddToolEvidence(h)
        <5>1. mem' = [mem EXCEPT ![<<h, e>>] = FreshRow(e, 0)]
          BY <3>2, <4>4 DEF AddToolEvidence
        <5>2. Exists(<<h, e>>)'
          BY <1>1, <1>2, <5>1 DEF Exists, FreshRow
        <5>3. QED
          BY <5>2 DEF Settled
      <4>5. ~(ResolveFact(h) \/ AddFact(h) \/ FoldFact(h) \/ Isolate(h))
        BY <1>2, <3>2 DEF ResolveFact, AddFact, FoldFact, Isolate, Reading
      <4>6. QED
        BY <1>7, <4>1, <4>2, <4>3, <4>4, <4>5 DEF ProcessEventExtraction
    <3>3. QED
      BY <3>1, <3>2 DEF InHand
  <2>7. QED
    BY <1>1, <1>2, <2>1, <2>2, <2>4, <2>5, <2>6, StoredFrame
<1>8. ASSUME NEW h \in Handlers, FlushSession(h) PROVE Stored(e)'
  <2>1. h # e
    BY <1>1, <1>2, <1>8 DEF FlushSession, Drain, Pick, EndFlush, OwnEvent, Early, Modes
  <2>2. /\ \A g \in Handlers \ {h} : pc'[g] = pc[g] /\ cur'[g] = cur[g] /\ todo'[g] = todo[g]
        /\ pc[h] \notin Reading /\ refused' = refused /\ queue' = queue
    BY <1>1, <1>8 DEF FlushSession, Drain, Pick, EndFlush, Reading
  <2>3. Stored(e)
    BY <1>2, <1>3, <2>1, <2>2
  <2>4. \A g \in Handlers \ {h} : InHand(g, e) => InHand(g, e)'
    BY <2>2 DEF InHand
  <2>5. CASE Drain(h)
    <3>1. pc[h] = "drain" /\ todo[h] = {}
      BY <1>1, <2>5 DEF Drain, Drained, Loading
    <3>2. ~InHand(h, e)
      BY <2>2, <3>1 DEF InHand
    <3>3. e \in buffer \cup explicit => e \in explicit' \/ InHand(h, e)'
      BY <1>1, <2>5 DEF Drain, InHand
    <3>4. QED
      BY <1>1, <1>2, <2>2, <2>3, <2>4, <3>2, <3>3, StoredFrame
  <2>6. CASE Pick(h)
    <3>1. PICK d \in todo[h] : cur' = [cur EXCEPT ![h] = d] /\ todo' = [todo EXCEPT ![h] = @ \ {d}]
      BY <2>6 DEF Pick
    <3>2. pc'[h] = "duplicate" /\ UNCHANGED <<buffer, explicit>>
      BY <1>1, <2>6 DEF Pick
    <3>3. InHand(h, e) => InHand(h, e)'
      BY <1>1, <2>2, <3>1, <3>2 DEF InHand, Reading
    <3>4. QED
      BY <1>1, <1>2, <2>2, <2>3, <2>4, <3>2, <3>3, StoredFrame
  <2>7. CASE EndFlush(h)
    BY <1>1, <1>2, <2>2, <2>3, <2>4, <2>7, StoredFrame DEF EndFlush, InHand
  <2>8. QED
    BY <1>8, <2>5, <2>6, <2>7 DEF FlushSession
<1>9. ASSUME NEW w \in Workers, Deliver(w) PROVE Stored(e)'
  <2>1. w \in Handlers /\ w # e
    BY <1>2, DisjointHandlers DEF Handlers
  <2>2. PICK d \in queue : todo' = [todo EXCEPT ![w] = {d}] /\ queue' \in {queue, queue \ {d}}
    BY <1>9 DEF Deliver
  <2>3. /\ pc[w] = "idle" /\ pc' = [pc EXCEPT ![w] = "next"]
        /\ UNCHANGED <<cur, buffer, explicit, refused>>
    BY <1>9 DEF Deliver
  <2>4. todo[w] = {}
    BY <1>1, <2>1, <2>3 DEF Drained, Loading
  <2>5. \A g \in Handlers : InHand(g, e) => InHand(g, e)'
    BY <1>1, <2>1, <2>2, <2>3, <2>4 DEF InHand, Reading
  <2>6. e \in queue => e \in queue' \/ InHand(w, e)'
    BY <1>1, <2>1, <2>2 DEF InHand
  <2>7. Stored(e)
    BY <1>1, <1>2, <1>3, <2>1, <2>3
  <2>8. QED
    BY <1>1, <1>2, <2>1, <2>3, <2>5, <2>6, <2>7, StoredFrame
<1>10. ASSUME NEW h \in Handlers \ Events, NEW place, pc' = [pc EXCEPT ![h] = place],
              pc[h] \notin Reading, UNCHANGED <<cur, todo, buffer, explicit, queue, refused>>
       PROVE  Stored(e)'
  BY <1>1, <1>2, <1>5, <1>10
<1>11. ASSUME NEW f \in Flushers \cup Retrievals, Flush(f) PROVE Stored(e)'
  <2>1. f \in Handlers \ Events
    BY DisjointHandlers DEF Handlers
  <2>2. QED
    BY <1>10, <1>11, <2>1 DEF Flush, Reading
<1>12. ASSUME NEW c \in Closers, CompleteRun(c) PROVE Stored(e)'
  <2>1. c \in Handlers \ Events
    BY DisjointHandlers DEF Handlers
  <2>2. QED
    BY <1>10, <1>12, <2>1 DEF CompleteRun, Reading
<1>13. ASSUME NEW f \in Finishes, Finish(f) PROVE Stored(e)'
  <2>1. f \in Handlers \ Events
    BY DisjointHandlers DEF Handlers
  <2>2. QED
    BY <1>10, <1>13, <2>1 DEF Finish, FinishBegin, FinishStep, FinishNode, AddWorkingState,
       Reading
<1>14. ASSUME NEW r \in Rollbacks, RollbackBranch(r) PROVE Stored(e)'
  <2>1. r \in Handlers \ Events
    BY DisjointHandlers DEF Handlers
  <2>2. CASE FlipMemory(r)
    BY <1>5, <2>2 DEF FlipMemory
  <2>3. CASE ~FlipMemory(r)
    BY <1>10, <1>14, <2>1, <2>3 DEF RollbackBranch, RollbackBegin, ListNodes, MarkNode,
       MarkStep, ListMemories, RollbackEnd, Reading
  <2>4. QED
    BY <2>2, <2>3
<1>15. CASE UNCHANGED vars
  BY <1>5, <1>15
<1>16. \A h \in Handlers : ~Fail(h)
  BY DEF Fail
<1>17. QED
  BY <1>6, <1>7, <1>8, <1>9, <1>11, <1>12, <1>13, <1>14, <1>15, <1>16 DEF Next

\* While nothing fails, a tool result whose extraction was deferred is waiting
\* in a buffer or with the broker, in some handler's hands, extracted or
\* refused, however drains, deliveries and the checks of others interleave.
THEOREM NeverLost == ASSUME ~MayFail PROVE Spec => []NoSilentLoss
<1>1. Base /\ NothingLost => NoSilentLoss
  <2> SUFFICES ASSUME NothingLost, NEW e \in Deferred, Stored(e) PROVE Accounted(e)
    BY DEF NoSilentLoss, NothingLost, Deferred
  <2>1. ASSUME NEW h \in Handlers, Exists(<<h, e>>) PROVE AlreadyExtracted(e)
    <3>1. <<h, e>> \in MemIds /\ <<h, e>>[2] = e
      BY DEF MemIds, Deferred
    <3>2. QED
      BY <2>1, <3>1 DEF AlreadyExtracted
  <2>2. QED
    BY <2>1 DEF Stored, Settled, InHand, Reading, Accounted
<1>2. Init => Base /\ Sourced /\ NothingLost
  BY InitBase, InitSourced, InitLost
<1>3. Base /\ Sourced /\ NothingLost /\ [Next]_vars => (Base /\ Sourced /\ NothingLost)'
  BY NextBase, NextSourced, NextLost
<1>4. QED
  BY <1>1, <1>2, <1>3, PTL DEF Spec

-----------------------------------------------------------------------------
(***************************************************************************)
(* Of the facts there are, the eldest is active.                           *)
(***************************************************************************)
Facts == {m \in MemIds : IsFact(m) /\ Exists(m)}
Elder(m) == \E n \in Facts : mem[n].born < mem[m].born

\* No two facts, added or about to be, are born at the same time.
Births ==
  /\ \A m \in Facts : mem[m].born < clock
  /\ \A m, n \in Facts : mem[m].born = mem[n].born => m = n
  /\ \A h \in Handlers : pc[h] = "add" => \A w \in pending[h] :
       /\ w.row.born < clock /\ w.row.status = "active"
       /\ \A m \in Facts : mem[m].born # w.row.born
       /\ \A g \in Handlers : pc[g] = "add" /\ g # h =>
            \A v \in pending[g] : v.row.born # w.row.born

\* A fact is superseded, or about to be, only if it has an elder.
Elders ==
  /\ \A m \in Facts : mem[m].status # "active" => Elder(m)
  /\ \A h \in Handlers : pc[h] \in {"update", "flip"} => \A w \in pending[h] :
       IsFact(w.id) /\ w.row.status # "active" => Elder(w.id)

LEMMA InitElders == Init => Births /\ Elders
<1> SUFFICES ASSUME Init PROVE Births /\ Elders
  OBVIOUS
<1>1. Facts = {}
  BY DEF Init, Facts, Exists, NoRow
<1>2. \A h \in Handlers : pending[h] = {}
  BY DEF Init
<1>3. QED
  BY <1>1, <1>2 DEF Births, Elders

\* No fact comes to be, none is born again: elders stay elders.
LEMMA EldersFrame ==
  ASSUME Base, Births, Elders, Kept, Facts' \subseteq Facts, clock' \in {clock, clock + 1},
         \A m \in Facts : mem'[m].status # "active" => mem[m].status # "active" \/ Elder(m),
         NEW h,
         \A g \in Handlers \ {h} : /\ pending'[g] = pending[g]
                                   /\ pc'[g] \in {"add", "update", "flip"} => pc'[g] = pc[g],
         h \in Handlers => /\ pc'[h] = "add" => pc[h] = "add" /\ pending'[h] \subseteq pending[h]
                           /\ pc'[h] \in {"update", "flip"} => \A w \in pending'[h] :
                                /\ IsFact(w.id) => w.id \in Facts
                                /\ IsFact(w.id) /\ w.row.status # "active" => Elder(w.id)
  PROVE  Births' /\ Elders'
<1>1. /\ clock \in Nat /\ \A m \in Facts : mem[m] \in Row
      /\ \A g \in Handlers : \A w \in pending[g] : w.row \in Row /\ w.id \in MemIds
  BY DEF Base, Typed, TypeOK, Facts
<1>2. \A m \in Facts : m \in Facts' /\ mem'[m].born = mem[m].born
  BY DEF Facts, Kept, IsFact, Exists
<1>3. \A m \in Facts : Elder(m) => Elder(m)'
  BY <1>2 DEF Elder
<1>4. Births'
  <2>1. \A m \in Facts' : mem'[m].born < clock'
    BY <1>1, <1>2 DEF Births, Row
  <2>2. \A m, n \in Facts' : mem'[m].born = mem'[n].born => m = n
    BY <1>2 DEF Births
  <2>3. \A g \in Handlers : pc'[g] = "add" => pc[g] = "add" /\ pending'[g] \subseteq pending[g]
    OBVIOUS
  <2>4. ASSUME NEW g \in Handlers, pc'[g] = "add", NEW w \in pending'[g]
        PROVE  /\ w.row.born < clock' /\ w.row.status = "active"
               /\ \A m \in Facts' : mem'[m].born # w.row.born
               /\ \A f \in Handlers : pc'[f] = "add" /\ f # g =>
                    \A v \in pending'[f] : v.row.born # w.row.born
    <3>1. pc[g] = "add" /\ w \in pending[g]
      BY <2>3, <2>4
    <3>2. w.row.born \in Nat /\ w.row.born < clock /\ w.row.status = "active"
      BY <1>1, <3>1 DEF Births, Row
    <3>3. \A m \in Facts' : mem'[m].born # w.row.born
      BY <1>2, <3>1 DEF Births
    <3>4. \A f \in Handlers : pc'[f] = "add" /\ f # g =>
            \A v \in pending'[f] : v.row.born # w.row.born
      BY <2>3, <3>1 DEF Births
    <3>5. QED
      BY <1>1, <3>2, <3>3, <3>4
  <2>5. QED
    BY <2>1, <2>2, <2>4 DEF Births
<1>5. Elders'
  <2>1. \A m \in Facts' : mem'[m].status # "active" => Elder(m)'
    BY <1>3 DEF Elders
  <2>2. ASSUME NEW g \in Handlers, pc'[g] \in {"update", "flip"}, NEW w \in pending'[g],
               IsFact(w.id), w.row.status # "active"
        PROVE  Elder(w.id)'
    <3>1. CASE g = h
      BY <1>3, <2>2, <3>1
    <3>2. CASE g # h
      <4>1. pc[g] \in {"update", "flip"} /\ w \in pending[g]
        BY <2>2, <3>2
      <4>2. Elder(w.id) /\ w.id \in Facts
        BY <1>1, <2>2, <4>1 DEF Elders, Base, Waiting, Facts
      <4>3. QED
        BY <1>3, <4>2
    <3>3. QED
      BY <3>1, <3>2
  <2>3. QED
    BY <2>1, <2>2 DEF Elders, IsFact
<1>6. QED
  BY <1>4, <1>5

LEMMA NextElders == ASSUME Base, Births, Elders, [Next]_vars PROVE Births' /\ Elders'
<1> USE DEF vars, store, queues, extraction, scratch, history, Move, Goto
<1>1. /\ pc \in [Handlers -> Places] /\ cur \in [Handlers -> Events \cup {NoEvent}]
      /\ pending \in [Handlers -> SUBSET [id : MemIds, row : Row]]
      /\ mem \in [MemIds -> Row] /\ clock \in Nat /\ Kept
      /\ \A h \in Handlers : pc[h] \in Extracting => cur[h] \in Events
      /\ \A h \in Handlers, e \in Events : <<h, e>> \in MemIds
  BY Grows DEF Base, Typed, TypeOK, CurOK, MemIds
<1>2. \A h \in Handlers : pc[h] \in {"update", "flip"} => \A w \in pending[h] :
        /\ IsFact(w.id) => w.id \in Facts
        /\ IsFact(w.id) /\ w.row.status # "active" => Elder(w.id)
  BY <1>1 DEF Base, Waiting, Elders, Facts
\* A step that leaves facts alone.
<1>3. ASSUME NEW h \in Handlers, UNCHANGED <<pending, clock>>,
             \A m \in MemIds : IsFact(m) =>
               /\ Exists(m)' => Exists(m)
               /\ mem'[m].status = mem[m].status,
             \A g \in Handlers : pc'[g] \in {"add", "update", "flip"} => pc'[g] = pc[g]
      PROVE  Births' /\ Elders'
  <2>1. Facts' \subseteq Facts
    BY <1>3 DEF Facts, IsFact, Exists
  <2>2. \A m \in Facts : mem'[m].status = mem[m].status
    BY <1>3 DEF Facts
  <2>3. QED
    BY <1>1, <1>2, <1>3, <2>1, <2>2, EldersFrame
<1>4. ASSUME NEW h \in Handlers, UNCHANGED <<mem, pending, clock>>,
             \A g \in Handlers : pc'[g] \in {"add", "update", "flip"} => pc'[g] = pc[g]
      PROVE  Births' /\ Elders'
  BY <1>3, <1>4 DEF Exists
<1>5. ASSUME NEW e \in Events, WriteEvent(e) PROVE Births' /\ Elders'
  <2>1. e \in Handlers /\ ModesOf[e] \subseteq Modes
    BY Tables DEF Handlers
  <2>2. CASE AppendEvent(e)
    BY <1>1, <1>4, <2>1, <2>2 DEF AppendEvent, Modes
  <2>3. CASE WriteBegin(e) \/ SkipExtraction(e) \/ BufferLazily(e) \/ CacheEventOnNode(e)
               \/ BufferForExplicitFlush(e) \/ EnqueueTask(e) \/ ExtractInline(e)
    BY <1>1, <1>4, <2>1, <2>3 DEF WriteBegin, SkipExtraction, BufferLazily,
       BufferForExplicitFlush, EnqueueTask, CacheEventOnNode, ExtractInline
  <2>4. QED
    BY <1>5, <2>2, <2>3 DEF WriteEvent
<1>6. ASSUME NEW h \in Handlers, NEW w \in pending[h], WriteBack(h, w), UNCHANGED clock,
             pc[h] \in {"update", "flip"}, pc'[h] # "add",
             \A g \in Handlers \ {h} : pc'[g] = pc[g]
      PROVE  Births' /\ Elders'
  <2>1. w.id \in MemIds /\ w.row \in Row /\ mem[w.id] \in Row
    BY <1>1
  <2>2. Facts' \subseteq Facts
    BY <1>6, WriteBackKeeps DEF Facts, IsFact
  <2>3. mem' = [mem EXCEPT ![w.id] = Merged(mem[w.id], w.row)]
        /\ pending' = [pending EXCEPT ![h] = @ \ {w}]
    BY <1>6 DEF WriteBack
  <2>4. Merged(mem[w.id], w.row).status =
          IF mem[w.id].status # "active" THEN mem[w.id].status ELSE w.row.status
    BY <2>1 DEF Merged, Row
  <2>5. ASSUME NEW m \in Facts, mem'[m].status # "active"
        PROVE  mem[m].status # "active" \/ Elder(m)
    <3>1. CASE m = w.id
      <4>1. mem'[m].status = IF mem[m].status # "active" THEN mem[m].status ELSE w.row.status
        BY <1>1, <2>1, <2>3, <2>4, <3>1
      <4>2. IsFact(w.id)
        BY <3>1 DEF Facts
      <4>3. w.row.status # "active" => Elder(w.id)
        BY <1>2, <1>6, <4>2
      <4>4. QED
        BY <2>5, <3>1, <4>1, <4>3
    <3>2. CASE m # w.id
      BY <1>1, <2>1, <2>3, <2>5, <3>2 DEF Facts
    <3>3. QED
      BY <3>1, <3>2
  <2>6. pending'[h] \subseteq pending[h]
        /\ \A g \in Handlers \ {h} : pending'[g] = pending[g]
    BY <1>1, <2>3
  <2>7. QED
    BY <1>1, <1>2, <1>6, <2>2, <2>5, <2>6, EldersFrame
<1>7. ASSUME NEW h \in Handlers, ProcessEventExtraction(h) PROVE Births' /\ Elders'
  <2>1. CASE CheckDuplicate(h) \/ CheckRun(h) \/ CheckNode(h) \/ CheckStep(h)
    BY <1>1, <1>4, <2>1 DEF CheckDuplicate, CheckRun, CheckNode, CheckStep, Judge
  <2>2. CASE AddToolEvidence(h)
    <3>1. <<h, cur[h]>> \in MemIds /\ ~IsFact(<<h, cur[h]>>)
      BY <1>1, <2>2 DEF AddToolEvidence, Extracting, IsFact
    <3>2. \A m \in MemIds : IsFact(m) => mem'[m] = mem[m]
      BY <1>1, <2>2, <3>1 DEF AddToolEvidence
    <3>3. \A g \in Handlers : pc'[g] \in {"add", "update", "flip"} => pc'[g] = pc[g]
      BY <1>1, <2>2 DEF AddToolEvidence, AfterWrite
    <3>4. UNCHANGED <<pending, clock>>
      BY <2>2 DEF AddToolEvidence
    <3>5. QED
      BY <1>3, <3>2, <3>3, <3>4 DEF Exists
  <2>3. CASE Isolate(h)
    <3>1. <<h, cur[h]>> \in MemIds /\ Exists(<<h, cur[h]>>) /\ mem[<<h, cur[h]>>] \in Row
      BY <1>1, <2>3 DEF Isolate, Extracting, Base, Fresh
    <3>2. \A m \in MemIds : (Exists(m)' => Exists(m)) /\ mem'[m].status = mem[m].status
      BY <1>1, <2>3, <3>1 DEF Isolate, Row, Exists
    <3>3. UNCHANGED <<pending, clock>>
          /\ \A g \in Handlers : pc'[g] \in {"add", "update", "flip"} => pc'[g] = pc[g]
      BY <1>1, <2>3 DEF Isolate
    <3>4. QED
      BY <1>3, <3>2, <3>3
  <2>4. CASE ResolveFact(h)
    <3>1. UNCHANGED mem /\ Facts' = Facts /\ pc[h] = "write"
      BY <2>4 DEF ResolveFact, Facts, IsFact, Exists
    <3>2. CASE pc' = [pc EXCEPT ![h] = "add"] /\ clock' = clock + 1
               /\ pending' = [pending EXCEPT ![h] =
                    {[id |-> <<h, cur[h]>>, row |-> FreshRow(cur[h], clock)]}]
      <4>1. \A w \in pending'[h] : w.row.born = clock /\ w.row.status = "active"
        BY <1>1, <3>2 DEF FreshRow
      <4>2. \A g \in Handlers \ {h} : pending'[g] = pending[g] /\ pc'[g] = pc[g]
        BY <1>1, <3>2
      <4>3. \A g \in Handlers : \A w \in pending[g] : w.row.born \in Nat
        BY <1>1 DEF Row
      <4>4. \A m \in Facts : mem[m].born \in Nat
        BY <1>1 DEF Facts, Row
      <4>5. Births'
        <5>1. \A m \in Facts' : mem'[m].born < clock'
          BY <1>1, <3>1, <3>2, <4>4 DEF Births
        <5>2. \A m, n \in Facts' : mem'[m].born = mem'[n].born => m = n
          BY <3>1 DEF Births
        <5>3. ASSUME NEW g \in Handlers, pc'[g] = "add", NEW w \in pending'[g]
              PROVE  /\ w.row.born < clock' /\ w.row.status = "active"
                     /\ \A m \in Facts' : mem'[m].born # w.row.born
                     /\ \A f \in Handlers : pc'[f] = "add" /\ f # g =>
                          \A v \in pending'[f] : v.row.born # w.row.born
          <6>1. CASE g = h
            <7>1. w.row.born = clock /\ w.row.status = "active"
              BY <4>1, <5>3, <6>1
            <7>2. \A m \in Facts' : mem'[m].born # clock
              BY <1>1, <3>1, <4>4 DEF Births
            <7>3. \A f \in Handlers \ {h} : pc'[f] = "add" =>
                    \A v \in pending'[f] : v.row.born # clock
              BY <1>1, <4>2, <4>3 DEF Births
            <7>4. QED
              BY <1>1, <3>2, <6>1, <7>1, <7>2, <7>3
          <6>2. CASE g # h
            <7>1. pc[g] = "add" /\ w \in pending[g]
              BY <4>2, <5>3, <6>2
            <7>2. /\ w.row.born < clock /\ w.row.status = "active" /\ w.row.born \in Nat
                  /\ \A m \in Facts : mem[m].born # w.row.born
              BY <4>3, <7>1 DEF Births
            <7>3. ASSUME NEW f \in Handlers, pc'[f] = "add", f # g, NEW v \in pending'[f]
                  PROVE  v.row.born # w.row.born
              <8>1. CASE f = h
                BY <1>1, <4>1, <7>2, <7>3, <8>1
              <8>2. CASE f # h
                BY <4>2, <7>1, <7>3, <8>2 DEF Births
              <8>3. QED
                BY <8>1, <8>2
            <7>4. QED
              BY <1>1, <3>1, <3>2, <7>2, <7>3
          <6>3. QED
            BY <6>1, <6>2
        <5>4. QED
          BY <5>1, <5>2, <5>3 DEF Births
      <4>6. \A m : Elder(m)' <=> Elder(m)
        BY <3>1 DEF Elder
      <4>7. pc'[h] = "add"
        BY <1>1, <3>2
      <4>8. Elders'
        BY <3>1, <4>2, <4>6, <4>7 DEF Elders, IsFact
      <4>9. QED
        BY <4>5, <4>8
    <3>3. ASSUME NEW p \in SameIdentityActives, Represents(p, SameIdentityActives),
                 pc' = [pc EXCEPT ![h] = "update"], clock' = clock,
                 pending' = [pending EXCEPT ![h] = Folded(p, SameIdentityActives, cur[h])]
          PROVE  Births' /\ Elders'
      <4>1. \A m \in SameIdentityActives :
              m \in Facts /\ mem[m] \in Row /\ mem[m].status = "active" /\ mem[m].born \in Nat
        BY <1>1 DEF SameIdentityActives, Facts, Row
      <4>2. \A m \in SameIdentityActives \ {p} : Elder(m)
        <5>1. ASSUME NEW m \in SameIdentityActives \ {p} PROVE mem[p].born < mem[m].born
          <6>1. mem[p].born <= mem[m].born
            BY <3>3 DEF Represents
          <6>2. mem[p].born # mem[m].born
            BY <4>1 DEF Births
          <6>3. QED
            BY <4>1, <6>1, <6>2
        <5>2. QED
          BY <4>1, <5>1 DEF Elder
      <4>3. ASSUME NEW w \in Folded(p, SameIdentityActives, cur[h])
            PROVE  w.id \in Facts /\ (w.row.status # "active" => Elder(w.id))
        <5>1. (w.id = p /\ w.row.status = mem[p].status) \/ w.id \in SameIdentityActives \ {p}
          BY <4>1 DEF Folded, Row
        <5>2. QED
          BY <4>1, <4>2, <5>1
      <4>4. pending'[h] = Folded(p, SameIdentityActives, cur[h]) /\ pc'[h] = "update"
            /\ \A g \in Handlers \ {h} : pending'[g] = pending[g] /\ pc'[g] = pc[g]
        BY <1>1, <3>3
      <4>5. \A w \in pending'[h] :
              /\ IsFact(w.id) => w.id \in Facts
              /\ IsFact(w.id) /\ w.row.status # "active" => Elder(w.id)
        BY <4>3, <4>4
      <4>6. QED
        BY <1>1, <3>1, <3>3, <4>4, <4>5, EldersFrame
    <3>4. QED
      BY <2>4, <3>2, <3>3 DEF ResolveFact
  <2>5. CASE FoldFact(h)
    <3>1. PICK w \in pending[h] :
            /\ WriteBack(h, w)
            /\ \/ pc' = [pc EXCEPT ![h] = "update"]
               \/ pc' = [pc EXCEPT ![h] = AfterWrite(h, FALSE)]
      BY <2>5 DEF FoldFact
    <3>2. pc[h] = "update" /\ UNCHANGED clock
      BY <2>5 DEF FoldFact
    <3>3. pc'[h] # "add" /\ \A g \in Handlers \ {h} : pc'[g] = pc[g]
      BY <1>1, <3>1 DEF AfterWrite
    <3>4. QED
      BY <1>6, <3>1, <3>2, <3>3
  <2>6. CASE AddFact(h)
    <3>1. PICK w \in pending[h] : mem' = [mem EXCEPT ![w.id] = w.row]
      BY <2>6 DEF AddFact
    <3>2. /\ pc[h] = "add" /\ pc'[h] \in {"cache", "run"} /\ UNCHANGED clock
          /\ pending' = [pending EXCEPT ![h] = {}]
          /\ \A g \in Handlers \ {h} : pc'[g] = pc[g] /\ pending'[g] = pending[g]
      BY <1>1, <2>6 DEF AddFact, AfterWrite
    <3>3. /\ w.id \in MemIds /\ w.row \in Row
          /\ w.row.born < clock /\ w.row.status = "active"
          /\ \A m \in Facts : mem[m].born # w.row.born
          /\ \A g \in Handlers \ {h} : pc[g] = "add" => \A v \in pending[g] : v.row.born # w.row.born
      BY <1>1, <3>2 DEF Births
    <3>4. Facts' \subseteq Facts \cup {w.id} /\ mem'[w.id] = w.row
          /\ \A m \in MemIds \ {w.id} : mem'[m] = mem[m]
      BY <1>1, <3>1, <3>3 DEF Facts, IsFact, Exists
    <3>5. w.id \notin Facts
      <4>1. w.id = <<h, cur[h]>>
        BY <3>2 DEF Base, Waiting
      <4>2. QED
        BY <3>2, <4>1 DEF Base, Fresh, Facts
    <3>6. \A m \in Facts : m \in Facts' /\ mem'[m] = mem[m]
      BY <1>1, <3>4, <3>5 DEF Facts, Kept, IsFact, Exists
    <3>7. \A m \in Facts : Elder(m) => Elder(m)'
      BY <3>6 DEF Elder
    <3>8. Births'
      <4>1. \A m \in Facts' : mem'[m].born < clock'
        BY <3>2, <3>3, <3>4, <3>6 DEF Births
      <4>2. \A m, n \in Facts' : mem'[m].born = mem'[n].born => m = n
        BY <3>3, <3>4, <3>6 DEF Births
      <4>3. ASSUME NEW g \in Handlers, pc'[g] = "add", NEW v \in pending'[g]
            PROVE  /\ v.row.born < clock' /\ v.row.status = "active"
                   /\ \A m \in Facts' : mem'[m].born # v.row.born
                   /\ \A f \in Handlers : pc'[f] = "add" /\ f # g =>
                        \A u \in pending'[f] : u.row.born # v.row.born
        <5>1. g # h /\ pc[g] = "add" /\ v \in pending[g]
          BY <3>2, <4>3
        <5>2. v.row.born < clock' /\ v.row.status = "active"
          BY <3>2, <5>1 DEF Births
        <5>3. \A m \in Facts' : mem'[m].born # v.row.born
          BY <3>3, <3>4, <3>6, <5>1 DEF Births
        <5>4. \A f \in Handlers : pc'[f] = "add" /\ f # g =>
                \A u \in pending'[f] : u.row.born # v.row.born
          BY <3>2, <5>1 DEF Births
        <5>5. QED
          BY <5>2, <5>3, <5>4
      <4>4. QED
        BY <4>1, <4>2, <4>3 DEF Births
    <3>9. Elders'
      <4>1. \A m \in Facts' : mem'[m].status # "active" => Elder(m)'
        BY <3>3, <3>4, <3>6, <3>7 DEF Elders
      <4>2. ASSUME NEW g \in Handlers, pc'[g] \in {"update", "flip"}, NEW v \in pending'[g],
                   IsFact(v.id), v.row.status # "active"
            PROVE  Elder(v.id)'
        <5>1. pc[g] \in {"update", "flip"} /\ v \in pending[g]
          BY <3>2, <4>2
        <5>2. v.id \in Facts /\ Elder(v.id)
          BY <1>2, <4>2, <5>1
        <5>3. QED
          BY <3>7, <5>2
      <4>3. QED
        BY <4>1, <4>2 DEF Elders, IsFact
    <3>10. QED
      BY <3>8, <3>9
  <2>7. QED
    BY <1>7, <2>1, <2>2, <2>3, <2>4, <2>5, <2>6 DEF ProcessEventExtraction
<1>8. ASSUME NEW h \in Handlers, FlushSession(h) \/ Fail(h) PROVE Births' /\ Elders'
  BY <1>1, <1>4, <1>8 DEF FlushSession, Drain, Pick, EndFlush, AfterFlush, Fail
<1>9. ASSUME NEW w \in Workers, Deliver(w) PROVE Births' /\ Elders'
  BY <1>1, <1>4, <1>9 DEF Deliver, Handlers
<1>10. ASSUME NEW f \in Flushers \cup Retrievals, Flush(f) PROVE Births' /\ Elders'
  BY <1>1, <1>4, <1>10 DEF Flush, Handlers
<1>11. ASSUME NEW c \in Closers, CompleteRun(c) PROVE Births' /\ Elders'
  BY <1>1, <1>4, <1>11 DEF CompleteRun, Handlers
<1>12. ASSUME NEW f \in Finishes, Finish(f) PROVE Births' /\ Elders'
  <2>1. f \in Handlers /\ f \notin Events
    BY DisjointHandlers DEF Handlers
  <2>2. CASE AddWorkingState(f)
    <3>1. \A m \in MemIds : IsFact(m) => mem'[m] = mem[m]
      BY <1>1, <2>1, <2>2 DEF AddWorkingState, IsFact
    <3>2. UNCHANGED <<pending, clock>>
          /\ \A g \in Handlers : pc'[g] \in {"add", "update", "flip"} => pc'[g] = pc[g]
      BY <1>1, <2>2 DEF AddWorkingState
    <3>3. QED
      BY <1>3, <2>1, <3>1, <3>2 DEF Exists
  <2>3. CASE ~AddWorkingState(f)
    BY <1>1, <1>4, <1>12, <2>1, <2>3 DEF Finish, FinishBegin, FinishStep, FinishNode
  <2>4. QED
    BY <2>2, <2>3
<1>13. ASSUME NEW r \in Rollbacks, RollbackBranch(r) PROVE Births' /\ Elders'
  <2> r \in Handlers BY DEF Handlers
  <2>1. CASE ListMemories(r)
    <3>1. /\ UNCHANGED <<mem, clock>> /\ pc' = [pc EXCEPT ![r] = "flip"]
          /\ pending' = [pending EXCEPT ![r] =
               {[id |-> m, row |-> [mem[m] EXCEPT !.branch = "rolled_back"]] : m \in InBranch(r)}]
      BY <2>1 DEF ListMemories
    <3>2. ASSUME NEW w \in pending'[r]
          PROVE  /\ IsFact(w.id) => w.id \in Facts
                 /\ IsFact(w.id) /\ w.row.status # "active" => Elder(w.id)
      <4>1. PICK m \in InBranch(r) :
              w = [id |-> m, row |-> [mem[m] EXCEPT !.branch = "rolled_back"]]
        BY <1>1, <3>1, <3>2
      <4>2. m \in MemIds /\ Exists(m) /\ mem[m] \in Row
        BY <1>1 DEF InBranch
      <4>3. w.id = m /\ w.row.status = mem[m].status
        BY <4>1, <4>2 DEF Row
      <4>4. QED
        BY <4>2, <4>3 DEF Elders, Facts
    <3>3. Facts' = Facts
      BY <3>1 DEF Facts, IsFact, Exists
    <3>4. pc'[r] = "flip" /\ \A g \in Handlers \ {r} : pc'[g] = pc[g] /\ pending'[g] = pending[g]
      BY <1>1, <3>1
    <3>5. QED
      BY <1>1, <3>1, <3>2, <3>3, <3>4, EldersFrame
  <2>2. CASE FlipMemory(r)
    <3>1. PICK w \in pending[r] : WriteBack(r, w)
      BY <2>2 DEF FlipMemory
    <3>2. pc[r] = "flip" /\ UNCHANGED <<pc, clock>>
      BY <2>2 DEF FlipMemory
    <3>3. QED
      BY <1>6, <3>1, <3>2
  <2>3. CASE RollbackBegin(r) \/ ListNodes(r) \/ MarkNode(r) \/ MarkStep(r) \/ RollbackEnd(r)
    BY <1>1, <1>4, <2>3 DEF RollbackBegin, ListNodes, MarkNode, MarkStep, RollbackEnd
  <2>4. QED
    BY <1>13, <2>1, <2>2, <2>3 DEF RollbackBranch
<1>14. CASE UNCHANGED vars
  <2>1. Facts' = Facts /\ \A m : Elder(m)' <=> Elder(m)
    BY <1>14 DEF Facts, Elder, IsFact, Exists
  <2>2. UNCHANGED <<mem, pending, pc, clock>>
    BY <1>14
  <2>3. QED
    BY <2>1, <2>2 DEF Births, Elders, IsFact
<1>15. QED
  BY <1>5, <1>7, <1>8, <1>9, <1>10, <1>11, <1>12, <1>13, <1>14 DEF Next

Below == OpToRel(<, Nat)

\* Times are well ordered.
LEMMA Earliest ==
  ASSUME NEW T, T \subseteq Nat, T # {}
  PROVE  \E x \in T : \A y \in T : x <= y
<1>1. IsWellFoundedOn(Below, Nat)
  BY Zenon, NatLessThanWellFounded DEF Below
<1>2. PICK x \in T : \A y \in T : ~(<<y, x>> \in Below)
  BY Zenon, <1>1, WFMin
<1>3. \A y \in T : ~(y < x)
  BY Zenon, <1>2 DEF Below, OpToRel
<1>4. QED
  BY <1>2, <1>3

\* However many resolvers fold the copies of a fact at once, each from what
\* it read, some copy of a fact that was ever added is active: they retire a
\* copy only for an elder one, and nobody retires the eldest.
THEOREM FactsStay == Spec => []FactStaysLive
<1>1. Base /\ Births /\ Elders => FactStaysLive
  <2> SUFFICES ASSUME Base, Elders, Facts # {} PROVE SameIdentityActives # {}
    BY DEF FactStaysLive, Facts
  <2> DEFINE times == {mem[m].born : m \in Facts}
  <2>1. \A m \in Facts : mem[m].born \in Nat /\ mem[m].status \in {"active", "superseded"}
    BY DEF Base, Typed, TypeOK, Facts, Row
  <2>2. times \subseteq Nat /\ times # {}
    BY <2>1
  <2> HIDE DEF times
  <2>3. PICK t \in times : \A u \in times : t <= u
    BY <2>2, Earliest
  <2>4. PICK m \in Facts : mem[m].born = t
    BY <2>3 DEF times
  <2>5. \A n \in Facts : mem[n].born \in times
    BY DEF times
  <2>6. ~Elder(m)
    BY <2>1, <2>3, <2>4, <2>5 DEF Elder
  <2>7. QED
    BY <2>6 DEF Elders, SameIdentityActives, Facts
<1>2. Init => Base /\ Births /\ Elders
  BY InitBase, InitElders
<1>3. Base /\ Births /\ Elders /\ [Next]_vars => (Base /\ Births /\ Elders)'
  BY NextBase, NextElders
<1>4. QED
  BY <1>1, <1>2, <1>3, PTL DEF Spec

===============================================================================
