----------------------- MODULE MemoryLifecycle_proofs -----------------------
(***************************************************************************)
(* Proofs about MemoryLifecycle, for any sets of requests and contents:    *)
(* whatever stale copies are written back, the version history follows the *)
(* row, no access is lost, a pin remembers what it replaced, and a memory  *)
(* becomes active again by an audited unpin only.                          *)
(***************************************************************************)
EXTENDS MemoryLifecycle, FiniteSetTheorems, TLAPS

(* A mover about to write plans a legal change of the status it read.      *)
Planned ==
  \A m \in Movers : pc[m] = "read" =>
    /\ job[m].to \in MemoryStatus
    /\ MovePicks(job[m].kind, copy[m].status, job[m].to)
    /\ CanMove(copy[m].status, job[m].to)

(* Whoever has read a pinned row has read the status it remembers.         *)
CopiesRemember ==
  \A x \in Requests : copy[x].status = "pinned" => copy[x].prev \in SafeUnpin

(* Every counted bump has ended.                                           *)
Counted == \A b \in bumped : pc[b] = "done"

IInv == /\ TypeOK /\ Planned /\ CopiesRemember /\ PinRemembersStatus
        /\ HistoryIsRow /\ Counted /\ NoAccessLost

-----------------------------------------------------------------------------
(* The operators.                                                          *)

LEMMA NextVersionIsRow ==
  ASSUME HistoryIsRow, NEW after
  PROVE  SameVersion(NextVersion(row, after), after)
  BY DEF HistoryIsRow, SameVersion, NextVersion

LEMMA NextVersionType ==
  ASSUME TypeOK, NEW after \in Rows
  PROVE  NextVersion(row, after) \in Rows
  BY DEF TypeOK, NextVersion

LEMMA IncomingType ==
  ASSUME NEW c \in Rows, NEW j \in Jobs
  PROVE  Incoming(c, j) \in Rows
  BY DEF Incoming, Rows, Jobs, MemoryStatus

(* What update_memory stores keeps the access bookkeeping of the row, the  *)
(* memory of a pin, and the status of a row that is no longer active.      *)
LEMMA PreservedRow ==
  ASSUME NEW before \in Rows, NEW incoming \in Rows
  PROVE  /\ Preserved(before, incoming) \in Rows
         /\ Preserved(before, incoming).access = before.access
         /\ before.status # "active" => Preserved(before, incoming).status # "active"
         /\ /\ before.status = "pinned" => before.prev \in SafeUnpin
            /\ incoming.status = "pinned" => incoming.prev \in SafeUnpin
            => (Preserved(before, incoming).status = "pinned"
                  => Preserved(before, incoming).prev \in SafeUnpin)
  BY DEF Preserved, Rows

LEMMA MovedRow ==
  ASSUME NEW c \in Rows, NEW to \in MemoryStatus, CanMove(c.status, to),
         c.status = "pinned" => c.prev \in SafeUnpin
  PROVE  /\ Moved(c, to) \in Rows
         /\ Moved(c, to).status = "pinned" => Moved(c, to).prev \in SafeUnpin
         /\ Moved(c, to).status = "active" => c.status = "pinned"
  <1>1. CASE to = "pinned"
    BY <1>1 DEF Moved, CanMove, Rows, MemoryStatus, SafeUnpin, Pinnable
  <1>2. CASE to # "pinned" /\ c.status = "pinned" /\ to = "active"
    BY <1>2 DEF Moved, Rows, MemoryStatus, SafeUnpin
  <1>3. CASE to # "pinned" /\ ~ (c.status = "pinned" /\ to = "active")
    BY <1>3 DEF Moved, CanMove, Rows, MemoryStatus
  <1> QED BY <1>1, <1>2, <1>3

-----------------------------------------------------------------------------
LEMMA InitIInv == Init => IInv
  <1> SUFFICES ASSUME Init PROVE IInv
    OBVIOUS
  <1>0. PICK s \in {"active", "conflicted", "superseded"}, b \in Bodies :
          /\ row = NewRow(s, b)
          /\ job = [x \in Requests |-> NoJob(b)]
    BY DEF Init
  <1>1. row \in Rows /\ row.status # "pinned" /\ row.access = 0
    BY <1>0 DEF NewRow, Rows, MemoryStatus
  <1>2. NoJob(b) \in Jobs
    BY DEF NoJob, Jobs
  <1>3. TypeOK
    BY <1>0, <1>1, <1>2 DEF Init, TypeOK
  <1>4. Planned /\ CopiesRemember /\ PinRemembersStatus /\ Counted
    BY <1>1 DEF Init, Planned, CopiesRemember, PinRemembersStatus, Counted, Requests
  <1>5. HistoryIsRow
    BY DEF Init, HistoryIsRow, SameVersion
  <1>6. NoAccessLost
    BY <1>1, FS_EmptySet DEF Init, NoAccessLost
  <1> QED BY <1>3, <1>4, <1>5, <1>6 DEF IInv

(* Reading touches no row: it suffices to look at the request itself.      *)
LEMMA ReadToUpdateIInv ==
  ASSUME IInv, NEW u \in Updaters, NEW k \in UpdateJobs, NEW b \in Bodies,
         ReadToUpdate(u, k, b)
  PROVE  IInv'
  <1>1. [kind |-> k, to |-> "none", body |-> b] \in Jobs
    BY DEF Jobs
  <1>2. TypeOK'
    BY <1>1 DEF IInv, TypeOK, ReadToUpdate, Requests
  <1>3. Planned'
    BY LifecycleConstants DEF IInv, TypeOK, ReadToUpdate, Planned, Requests
  <1>4. CopiesRemember' /\ PinRemembersStatus'
    BY DEF IInv, TypeOK, ReadToUpdate, CopiesRemember, PinRemembersStatus, Requests
  <1>5. HistoryIsRow' /\ NoAccessLost'
    BY DEF IInv, ReadToUpdate, HistoryIsRow, NoAccessLost, SameVersion
  <1>6. Counted'
    BY LifecycleConstants DEF IInv, TypeOK, ReadToUpdate, Counted, Requests
  <1> QED BY <1>2, <1>3, <1>4, <1>5, <1>6 DEF IInv

LEMMA UpdateMemoryIInv ==
  ASSUME IInv, NEW u \in Updaters, UpdateMemory(u)
  PROVE  IInv'
  <1> DEFINE incoming == Incoming(copy[u], job[u])
             after == Preserved(row, incoming)
  <1>0. incoming \in Rows /\ after \in Rows /\ row' = after
    BY IncomingType, PreservedRow DEF IInv, TypeOK, UpdateMemory, Requests
  <1>1. incoming.status = "pinned" => incoming.prev \in SafeUnpin
    BY DEF IInv, TypeOK, CopiesRemember, Incoming, Rows, Requests
  <1>2. TypeOK'
    BY <1>0, NextVersionType DEF IInv, TypeOK, UpdateMemory, Requests
  <1>3. Planned'
    BY LifecycleConstants DEF IInv, TypeOK, UpdateMemory, Planned, Requests
  <1>4. CopiesRemember'
    BY DEF IInv, UpdateMemory, CopiesRemember
  <1>5. PinRemembersStatus'
    BY <1>0, <1>1, PreservedRow DEF IInv, TypeOK, PinRemembersStatus
  <1>6. HistoryIsRow'
    BY <1>0, NextVersionIsRow DEF IInv, UpdateMemory, HistoryIsRow
  <1>7. Counted'
    BY LifecycleConstants DEF IInv, TypeOK, UpdateMemory, Counted, Requests
  <1>8. NoAccessLost'
    BY <1>0, PreservedRow DEF IInv, TypeOK, UpdateMemory, NoAccessLost
  <1> QED BY <1>2, <1>3, <1>4, <1>5, <1>6, <1>7, <1>8 DEF IInv

LEMMA ReadToMoveIInv ==
  ASSUME IInv, NEW m \in Movers, NEW k \in MoveJobs, NEW to \in MemoryStatus,
         ReadToMove(m, k, to)
  PROVE  IInv'
  <1>1. [job[m] EXCEPT !.kind = k, !.to = to] \in Jobs
    BY DEF IInv, TypeOK, Jobs, Requests
  <1>2. TypeOK'
    BY <1>1 DEF IInv, TypeOK, ReadToMove, Requests
  <1>3. job'[m].kind = k /\ job'[m].to = to /\ copy'[m] = row
    BY DEF IInv, TypeOK, ReadToMove, Jobs, Requests
  <1>4. Planned'
    <2> SUFFICES ASSUME NEW n \in Movers, pc'[n] = "read"
                 PROVE  /\ job'[n].to \in MemoryStatus
                        /\ MovePicks(job'[n].kind, copy'[n].status, job'[n].to)
                        /\ CanMove(copy'[n].status, job'[n].to)
      BY DEF Planned
    <2>1. CASE n = m
      BY <2>1, <1>3 DEF ReadToMove
    <2>2. CASE n # m
      <3>1. pc[n] = "read" /\ job'[n] = job[n] /\ copy'[n] = copy[n]
        BY <2>2 DEF IInv, TypeOK, ReadToMove, Requests
      <3> QED BY <3>1 DEF IInv, Planned
    <2> QED BY <2>1, <2>2
  <1>5. CopiesRemember' /\ PinRemembersStatus'
    BY DEF IInv, TypeOK, ReadToMove, CopiesRemember, PinRemembersStatus, Requests
  <1>6. HistoryIsRow' /\ NoAccessLost'
    BY DEF IInv, ReadToMove, HistoryIsRow, NoAccessLost, SameVersion
  <1>7. Counted'
    BY LifecycleConstants DEF IInv, TypeOK, ReadToMove, Counted, Requests
  <1> QED BY <1>2, <1>4, <1>5, <1>6, <1>7 DEF IInv

LEMMA TransitionIInv ==
  ASSUME IInv, NEW m \in Movers, TransitionWithAudit(m)
  PROVE  IInv'
  <1> DEFINE moved == Moved(copy[m], job[m].to)
             after == [row EXCEPT !.status = moved.status, !.prev = moved.prev,
                                  !.tagged = moved.tagged]
  <1>0. /\ copy[m] \in Rows /\ job[m] \in Jobs /\ row \in Rows /\ m \in Requests
        /\ job[m].to \in MemoryStatus /\ CanMove(copy[m].status, job[m].to)
        /\ copy[m].status = "pinned" => copy[m].prev \in SafeUnpin
    BY DEF IInv, TypeOK, Planned, CopiesRemember, TransitionWithAudit, Requests
  <1>1. moved \in Rows /\ (moved.status = "pinned" => moved.prev \in SafeUnpin)
    BY <1>0, MovedRow
  <1>2. /\ after \in Rows /\ after.access = row.access
        /\ after.status = moved.status /\ after.prev = moved.prev
    BY <1>0, <1>1 DEF Rows
  <1>3. row' = after /\ version' = NextVersion(row, after) /\ bumped' = bumped
    BY DEF TransitionWithAudit
  <1>4. /\ copy' = copy \/ copy' = [copy EXCEPT ![m] = moved]
        /\ job' = job \/ job' = [job EXCEPT ![m].to = "archived"]
        /\ pc' = pc \/ pc' = [pc EXCEPT ![m] = "done"]
    BY DEF TransitionWithAudit
  <1>5. [job[m] EXCEPT !.to = "archived"] \in Jobs
    BY <1>0 DEF Jobs, MemoryStatus
  <1>6. TypeOK'
    <2>1. row' \in Rows /\ version' \in Rows /\ bumped' \subseteq Bumpers
      BY <1>2, <1>3, NextVersionType DEF IInv, TypeOK
    <2>2. pc' \in [Requests -> {"idle", "read", "done"}]
      BY <1>4 DEF IInv, TypeOK
    <2>3. copy' \in [Requests -> Rows]
      BY <1>0, <1>1, <1>4 DEF IInv, TypeOK
    <2>4. job' \in [Requests -> Jobs]
      BY <1>0, <1>4, <1>5 DEF IInv, TypeOK
    <2> QED BY <2>1, <2>2, <2>3, <2>4 DEF TypeOK
  <1>7. Planned'
    <2> SUFFICES ASSUME NEW n \in Movers, pc'[n] = "read"
                 PROVE  /\ job'[n].to \in MemoryStatus
                        /\ MovePicks(job'[n].kind, copy'[n].status, job'[n].to)
                        /\ CanMove(copy'[n].status, job'[n].to)
      BY DEF Planned
    <2>1. CASE n = m /\ GoesOn(m)
      <3>1. copy'[m] = moved /\ job'[m] = [job[m] EXCEPT !.to = "archived"]
        BY <2>1, <1>0 DEF TransitionWithAudit, IInv, TypeOK
      <3>2. job'[m].kind = "archive" /\ job'[m].to = "archived"
        BY <3>1, <2>1, <1>0 DEF GoesOn, Jobs
      <3>3. moved.status = "dormant"
        <4>1. job[m].to = "dormant"
          BY <2>1 DEF GoesOn
        <4> QED BY <4>1, <1>0 DEF Moved, Rows
      <3> QED BY <2>1, <3>1, <3>2, <3>3 DEF MovePicks, CanMove, MemoryStatus
    <2>2. CASE n = m /\ ~ GoesOn(m)
      BY <2>2, <1>0 DEF TransitionWithAudit, IInv, TypeOK
    <2>3. CASE n # m
      <3>1. pc[n] = "read" /\ job'[n] = job[n] /\ copy'[n] = copy[n]
        BY <2>3, <1>4 DEF IInv, TypeOK, Requests
      <3> QED BY <3>1 DEF IInv, Planned
    <2> QED BY <2>1, <2>2, <2>3
  <1>8. CopiesRemember'
    BY <1>0, <1>1, <1>4 DEF IInv, TypeOK, CopiesRemember
  <1>9. PinRemembersStatus'
    BY <1>1, <1>2, <1>3 DEF PinRemembersStatus
  <1>10. HistoryIsRow'
    BY <1>3, NextVersionIsRow DEF IInv, HistoryIsRow
  <1>11. Counted'
    BY LifecycleConstants, <1>3, <1>4 DEF IInv, TypeOK, Counted, Requests
  <1>12. NoAccessLost'
    BY <1>2, <1>3 DEF IInv, NoAccessLost
  <1> QED BY <1>6, <1>7, <1>8, <1>9, <1>10, <1>11, <1>12 DEF IInv

LEMMA StaleTransitionIInv ==
  ASSUME IInv, NEW m \in Movers, StaleTransition(m)
  PROVE  IInv'
  <1>1. TypeOK'
    BY DEF IInv, TypeOK, StaleTransition, Requests
  <1>2. Planned' /\ Counted'
    BY LifecycleConstants DEF IInv, TypeOK, StaleTransition, Planned, Counted, Requests
  <1>3. CopiesRemember' /\ PinRemembersStatus' /\ HistoryIsRow' /\ NoAccessLost'
    BY DEF IInv, StaleTransition, CopiesRemember, PinRemembersStatus,
           HistoryIsRow, NoAccessLost, SameVersion
  <1> QED BY <1>1, <1>2, <1>3 DEF IInv

LEMMA BumpAccessIInv ==
  ASSUME IInv, NEW b \in Bumpers, BumpAccess(b)
  PROVE  IInv'
  <1>1. /\ row' \in Rows /\ row'.access = row.access + 1
        /\ row'.status = row.status /\ row'.prev = row.prev
        /\ row'.tagged = row.tagged /\ row'.body = row.body
    BY DEF IInv, TypeOK, BumpAccess, Rows
  <1>2. TypeOK'
    BY <1>1 DEF IInv, TypeOK, BumpAccess, Requests
  <1>3. Planned'
    BY LifecycleConstants DEF IInv, TypeOK, BumpAccess, Planned, Requests
  <1>4. CopiesRemember' /\ PinRemembersStatus' /\ HistoryIsRow'
    BY <1>1 DEF IInv, BumpAccess, CopiesRemember, PinRemembersStatus,
                HistoryIsRow, SameVersion
  <1>5. Counted'
    BY DEF IInv, TypeOK, BumpAccess, Counted, Requests
  <1>6. NoAccessLost'
    <2>1. IsFiniteSet(bumped) /\ b \notin bumped
      BY LifecycleConstants, FS_Subset DEF IInv, TypeOK, Counted, BumpAccess
    <2>2. Cardinality(bumped \cup {b}) = Cardinality(bumped) + 1
      BY <2>1, FS_AddElement
    <2> QED BY <1>1, <2>2 DEF IInv, NoAccessLost, BumpAccess
  <1> QED BY <1>2, <1>3, <1>4, <1>5, <1>6 DEF IInv

LEMMA StepIInv == IInv /\ [Next]_vars => IInv'
  <1> SUFFICES ASSUME IInv, [Next]_vars PROVE IInv'
    OBVIOUS
  <1>1. ASSUME NEW u \in Updaters, NEW k \in UpdateJobs, NEW b \in Bodies,
               ReadToUpdate(u, k, b)
        PROVE  IInv'
    BY <1>1, ReadToUpdateIInv
  <1>2. ASSUME NEW u \in Updaters, UpdateMemory(u) PROVE IInv'
    BY <1>2, UpdateMemoryIInv
  <1>3. ASSUME NEW m \in Movers, NEW k \in MoveJobs, NEW to \in MemoryStatus,
               ReadToMove(m, k, to)
        PROVE  IInv'
    BY <1>3, ReadToMoveIInv
  <1>4. ASSUME NEW m \in Movers, TransitionWithAudit(m) PROVE IInv'
    BY <1>4, TransitionIInv
  <1>5. ASSUME NEW m \in Movers, StaleTransition(m) PROVE IInv'
    BY <1>5, StaleTransitionIInv
  <1>6. ASSUME NEW b \in Bumpers, BumpAccess(b) PROVE IInv'
    BY <1>6, BumpAccessIInv
  <1>7. CASE UNCHANGED vars
    BY <1>7 DEF vars, IInv, TypeOK, Planned, CopiesRemember, PinRemembersStatus,
                HistoryIsRow, SameVersion, Counted, NoAccessLost
  <1> QED BY <1>1, <1>2, <1>3, <1>4, <1>5, <1>6, <1>7 DEF Next

LEMMA AlwaysIInv == Spec => []IInv
  BY InitIInv, StepIInv, PTL DEF Spec

-----------------------------------------------------------------------------
(* The types, the version history, the access counter and the memory of a  *)
(* pin hold in every reachable state.                                      *)
THEOREM RowsStaySound ==
  Spec => [](TypeOK /\ HistoryIsRow /\ NoAccessLost /\ PinRemembersStatus)
  <1>1. IInv => TypeOK /\ HistoryIsRow /\ NoAccessLost /\ PinRemembersStatus
    BY DEF IInv
  <1> QED BY <1>1, AlwaysIInv, PTL

(* The rows, copies and versions of every reachable state have their types. *)
THEOREM TypeCorrect == Spec => []TypeOK
  BY RowsStaySound, PTL

(* No update or transition loses an access that was counted.               *)
THEOREM AccessesCount == Spec => []NoAccessLost
  BY RowsStaySound, PTL

(* A pinned memory remembers a status an unpin may restore.                *)
THEOREM PinsRemember == Spec => []PinRemembersStatus
  BY RowsStaySound, PTL

(* update_memory gives no memory its `active' back: only an unpin does.    *)
THEOREM ReactivatedByUnpin == Spec => NoReactivation
  <1> DEFINE A == row.status # "active" /\ row'.status = "active"
                    => row.status = "pinned" /\ \E m \in Movers : TransitionWithAudit(m)
  <1>1. ASSUME IInv, [Next]_vars PROVE [A]_vars
    <2> SUFFICES ASSUME Next, row.status # "active", row'.status = "active"
                 PROVE  row.status = "pinned" /\ \E m \in Movers : TransitionWithAudit(m)
      BY <1>1
    <2>1. ASSUME NEW u \in Updaters, UpdateMemory(u) PROVE FALSE
      <3>1. Incoming(copy[u], job[u]) \in Rows /\ row \in Rows
        BY <1>1, IncomingType DEF IInv, TypeOK, Requests
      <3> QED BY <2>1, <3>1, PreservedRow DEF UpdateMemory
    <2>2. ASSUME NEW m \in Movers, TransitionWithAudit(m)
          PROVE  row.status = "pinned"
      <3>1. /\ copy[m] \in Rows /\ row \in Rows
            /\ job[m].to \in MemoryStatus /\ CanMove(copy[m].status, job[m].to)
            /\ copy[m].status = "pinned" => copy[m].prev \in SafeUnpin
            /\ row.status = copy[m].status
        BY <1>1, <2>2 DEF IInv, TypeOK, Planned, CopiesRemember, Fresh,
                          TransitionWithAudit, Requests
      <3>2. row'.status = Moved(copy[m], job[m].to).status
        BY <2>2, <3>1 DEF TransitionWithAudit, Rows
      <3> QED BY <3>1, <3>2, MovedRow
    <2>3. ASSUME NEW b \in Bumpers, BumpAccess(b) PROVE FALSE
      BY <1>1, <2>3 DEF BumpAccess, IInv, TypeOK, Rows
    <2>4. CASE row' = row
      BY <2>4
    <2>5. row' = row \/ \/ \E u \in Updaters : UpdateMemory(u)
                        \/ \E m \in Movers : TransitionWithAudit(m)
                        \/ \E b \in Bumpers : BumpAccess(b)
      BY DEF Next, ReadToUpdate, ReadToMove, StaleTransition
    <2> QED BY <2>1, <2>2, <2>3, <2>4, <2>5
  <1> QED BY <1>1, AlwaysIInv, PTL DEF Spec, NoReactivation

(* The compare-and-set keeps every decision the scheduler took before a    *)
(* pin from moving the pinned memory.                                      *)
THEOREM PinsAreSpared == Spec => SchedulerSparesPins
  <1> DEFINE A == \A m \in Movers :
                    row.status = "pinned" /\ TransitionWithAudit(m) => job[m].kind = "admin"
  <1>1. ASSUME IInv, [Next]_vars PROVE [A]_vars
    <2> SUFFICES ASSUME NEW m \in Movers, row.status = "pinned", TransitionWithAudit(m)
                 PROVE  job[m].kind = "admin"
      OBVIOUS
    <2>1. copy[m].status = "pinned" /\ MovePicks(job[m].kind, copy[m].status, job[m].to)
      BY <1>1 DEF IInv, Planned, TransitionWithAudit, Fresh
    <2> QED BY <2>1 DEF MovePicks
  <1> QED BY <1>1, AlwaysIInv, PTL DEF Spec, SchedulerSparesPins
=============================================================================
