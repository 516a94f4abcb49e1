---------------------------- MODULE Stores_proofs ----------------------------
(***************************************************************************)
(* Proofs about the two stores behind the runtime.  RedisCandidateBuffer:  *)
(* for any events, workspaces, processes and drains.  SqlRepository: for   *)
(* any workloads, of any number of calls, that the program can ask of it.  *)
(***************************************************************************)
EXTENDS RedisCandidateBuffer, SqlRepository, FiniteSetTheorems, TLAPS

-----------------------------------------------------------------------------
(* Types.  A drain that has detached a list knows its workspace, which     *)
(* Restore relies on.                                                      *)

AtWorkspace == \A d \in Drainers : pc[d] \in {"pop", "restore"} => at[d] \in Workspaces
Typed == TypeOK /\ AtWorkspace

LEMMA InitTyped == Init => Typed
  BY BufferConstants DEF Init, Typed, TypeOK, AtWorkspace

LEMMA NextTyped == Typed /\ [Next]_vars => Typed'
<1> SUFFICES ASSUME Typed, [Next]_vars PROVE Typed'
  OBVIOUS
<1> USE BufferConstants DEF Typed, TypeOK, AtWorkspace
<1>1. ASSUME NEW e \in Candidates, AppendToRedis(e) PROVE Typed'
  <2>1. CASE Push(e)
    <3>1. queue' \in [Workspaces -> SUBSET Candidates] /\ index' \subseteq Workspaces
          /\ members' \subseteq Workspaces /\ listed' \in BOOLEAN
      BY <2>1 DEF Push
    <3>2. QED
      BY <1>1, <3>1 DEF AppendToRedis, locals
  <2>2. CASE UNCHANGED redis
    BY <1>1, <2>2 DEF AppendToRedis, redis, locals
  <2>3. QED
    BY <1>1, <2>1, <2>2 DEF AppendToRedis
<1>2. ASSUME NEW e \in Candidates, AppendLocally(e) PROVE Typed'
  BY <1>2 DEF AppendLocally, redis, locals
<1>3. ASSUME NEW d \in Drainers, Drain(d) PROVE Typed'
  <2>1. CASE BeginDrain(d)
    BY <2>1 DEF BeginDrain, WorkspacesForSession, Raise, redis
  <2>2. CASE Detach(d)
    <3>1. PICK w \in todo[d] :
            /\ Rename(d, w)
            /\ at' = [at EXCEPT ![d] = w]
            /\ todo' = [todo EXCEPT ![d] = @ \ {w}]
      BY <2>2 DEF Detach
    <3>2. w \in Workspaces
      BY <3>1
    <3>3. queue' \in [Workspaces -> SUBSET Candidates] /\ index' \subseteq Workspaces
          /\ members' \subseteq Workspaces /\ listed' \in BOOLEAN
          /\ draining' \in [Drainers -> SUBSET Candidates]
      BY <3>1, <3>2 DEF Rename
    <3>4. todo' \in [Drainers -> SUBSET Workspaces] /\ at' \in [Drainers -> Workspaces \cup {Everything}]
      BY <3>1, <3>2
    <3>5. pc' \in [Drainers -> {"idle", "detach", "pop", "restore", "local", "done"}]
          /\ popped' \in [Drainers -> SUBSET Candidates]
          /\ events' \in [Drainers -> SUBSET Candidates]
      BY <2>2 DEF Detach, Raise
    <3>6. AtWorkspace'
      <4> SUFFICES ASSUME NEW c \in Drainers, pc'[c] \in {"pop", "restore"}
                   PROVE  at'[c] \in Workspaces
        BY DEF AtWorkspace
      <4>1. CASE c = d
        BY <3>1, <3>2, <4>1
      <4>2. CASE c # d
        BY <2>2, <3>1, <4>2 DEF Detach, Raise
      <4>3. QED
        BY <4>1, <4>2
    <3>7. QED
      BY <2>2, <3>3, <3>4, <3>5, <3>6 DEF Detach
  <2>3. CASE DetachRaises(d)
    BY <2>3 DEF DetachRaises, Raise, redis
  <2>4. CASE Pop(d)
    <3>1. PICK e \in draining[d] : draining' = [draining EXCEPT ![d] = @ \ {e}]
      BY <2>4 DEF Pop
    <3>2. /\ draining' \in [Drainers -> SUBSET Candidates]
          /\ popped' \in [Drainers -> SUBSET Candidates]
          /\ events' \in [Drainers -> SUBSET Candidates]
      BY <2>4, <3>1, SMTT(30) DEF Pop
    <3>3. pc[d] = "pop" /\ (pc' = pc \/ pc' = [pc EXCEPT ![d] = "restore"])
      BY <2>4 DEF Pop
    <3>4. QED
      BY <2>4, <3>2, <3>3 DEF Pop, redis
  <2>5. CASE PopRaises(d)
    BY <2>5 DEF PopRaises, redis, locals
  <2>6. CASE Delete(d)
    BY <2>6 DEF Delete, redis
  <2>7. CASE Restore(d)
    <3>1. at[d] \in Workspaces /\ Unpop(d) \subseteq Candidates
      BY <2>7 DEF Restore, Unpop
    <3>2. QED
      BY <2>7, <3>1 DEF Restore, Raise
  <2>8. CASE RestoreRaises(d)
    BY <2>8 DEF RestoreRaises, Raise, redis
  <2>9. CASE EndDrain(d)
    BY <2>9 DEF EndDrain, redis, locals
  <2>10. CASE DrainLocally(d)
    BY <2>10 DEF DrainLocally, LocalShare, redis
  <2>11. QED
    BY <1>3, <2>1, <2>2, <2>3, <2>4, <2>5, <2>6, <2>7, <2>8, <2>9, <2>10 DEF Drain
<1>4. ASSUME NEW p \in Processes, Crash(p) PROVE Typed'
  BY <1>4 DEF Crash, redis
<1>5. CASE UNCHANGED vars
  BY <1>5 DEF vars, redis, locals
<1>6. QED
  BY <1>1, <1>2, <1>3, <1>4, <1>5 DEF Next

\* Every variable keeps its type: in particular a drain only ever works on
\* workspaces, never on the "no workspace" of its request.
THEOREM TypeCorrect == Spec => []TypeOK
<1>1. Spec => []Typed
  BY InitTyped, NextTyped, PTL DEF Spec
<1>2. Typed => TypeOK
  BY DEF Typed
<1>3. QED
  BY <1>1, <1>2, PTL

-----------------------------------------------------------------------------
(* The indexes. *)

LEMMA NextDiscoverable == Typed /\ Discoverable /\ [Next]_vars => Discoverable'
<1> SUFFICES ASSUME Typed, Discoverable, [Next]_vars,
                    NEW w \in Workspaces, queue'[w] # {}
             PROVE  w \in index' \cap members' /\ listed'
  BY DEF Discoverable
<1> USE DEF Typed, TypeOK, AtWorkspace
<1>1. queue[w] # {} => w \in index \cap members /\ listed
  BY DEF Discoverable
<1>2. CASE UNCHANGED redis
  BY <1>1, <1>2 DEF redis
<1>3. ASSUME NEW e \in Candidates, Push(e)
      PROVE  w \in index' \cap members' /\ listed'
  BY <1>1, <1>3, BufferConstants DEF Push
<1>4. ASSUME NEW d \in Drainers, NEW v \in Workspaces, Rename(d, v)
      PROVE  w \in index' \cap members' /\ listed'
  <2>1. w # v
    BY <1>4 DEF Rename
  <2>2. queue[w] # {}
    BY <1>4, <2>1 DEF Rename
  <2>3. QED
    BY <1>1, <1>4, <2>1, <2>2 DEF Rename
<1>5. ASSUME NEW d \in Drainers, Restore(d)
      PROVE  w \in index' \cap members' /\ listed'
  <2>1. at[d] \in Workspaces
    BY <1>5 DEF Restore
  <2>2. CASE w = at[d]
    BY <1>5, <2>2 DEF Restore
  <2>3. CASE w # at[d]
    BY <1>1, <1>5, <2>1, <2>3 DEF Restore
  <2>4. QED
    BY <2>2, <2>3
<1>6. CASE Next
  <2>1. ASSUME NEW e \in Candidates, AppendToRedis(e) \/ AppendLocally(e)
        PROVE  Push(e) \/ UNCHANGED redis
    BY <2>1 DEF AppendToRedis, AppendLocally
  <2>2. ASSUME NEW d \in Drainers, Drain(d)
        PROVE  \/ UNCHANGED redis \/ Restore(d)
               \/ \E v \in Workspaces : Rename(d, v)
    <3>1. CASE Detach(d)
      BY <3>1 DEF Detach
    <3>2. QED
      BY <2>2, <3>1 DEF Drain, BeginDrain, DetachRaises, Pop, PopRaises, Delete,
                        RestoreRaises, EndDrain, DrainLocally
  <2>3. ASSUME NEW p \in Processes, Crash(p) PROVE UNCHANGED redis
    BY <2>3 DEF Crash
  <2>4. QED
    BY <1>2, <1>3, <1>4, <1>5, <1>6, <2>1, <2>2, <2>3 DEF Next
<1>7. CASE UNCHANGED vars
  BY <1>2, <1>7 DEF vars
<1>8. QED
  BY <1>6, <1>7

\* A queue that holds something is named by all three indexes in every
\* reachable state, whatever fails.
THEOREM AlwaysDiscoverable == Spec => []Discoverable
<1>1. Init => Discoverable
  BY DEF Init, Discoverable
<1>2. QED
  BY <1>1, InitTyped, NextTyped, NextDiscoverable, PTL DEF Spec

-----------------------------------------------------------------------------
(* No value is in two lists.  A drain's raw values came from the queue of  *)
(* the workspace it is at, and it starts every detach with none.           *)

Raw(d) == draining[d] \cup popped[d]

Homed == \A w \in Workspaces : \A e \in queue[w] : WorkspaceOf[e] = w /\ append[e] # "idle"
Carried == \A d \in Drainers : \A e \in Raw(d) : WorkspaceOf[e] = at[d] /\ append[e] # "idle"
EmptyHanded == \A d \in Drainers : pc[d] \in {"idle", "detach"} => Raw(d) = {}
RawOnce == \A d, c \in Drainers : d # c => Raw(d) \cap Raw(c) = {}
NotQueued == \A d \in Drainers, w \in Workspaces : Raw(d) \cap queue[w] = {}
Once == Homed /\ Carried /\ EmptyHanded /\ RawOnce /\ NotQueued

\* A step that changes nothing but what one drain holds, and only downwards.
LEMMA ShrinkOnce ==
  ASSUME Typed, Once, NEW d \in Drainers, UNCHANGED <<queue, at, append>>,
         \A c \in Drainers : c # d => pc'[c] = pc[c] /\ Raw(c)' = Raw(c),
         Raw(d)' \subseteq Raw(d),
         pc'[d] \in {"idle", "detach"} => Raw(d)' = {}
  PROVE  Once'
<1>1. Homed' /\ EmptyHanded'
  BY DEF Once, Homed, EmptyHanded
<1>2. Carried'
  BY DEF Once, Carried
<1>3. RawOnce'
  BY DEF Once, RawOnce
<1>4. NotQueued'
  BY DEF Once, NotQueued
<1>5. QED
  BY <1>1, <1>2, <1>3, <1>4 DEF Once

LEMMA NextOnce == Typed /\ Once /\ [Next]_vars => Once'
<1> SUFFICES ASSUME Typed, Once, [Next]_vars PROVE Once'
  OBVIOUS
<1> USE BufferConstants DEF Typed, TypeOK, AtWorkspace
<1>1. ASSUME NEW e \in Candidates, AppendToRedis(e) PROVE Once'
  <2>1. append' \in [Candidates -> {"idle", "raised", "done", "dead"}]
        /\ \A x \in Candidates : append[x] # "idle" => append'[x] # "idle"
    BY SMTT(30), <1>1 DEF AppendToRedis
  <2>2. UNCHANGED <<draining, popped, at, pc>> /\ \A d \in Drainers : Raw(d)' = Raw(d)
    BY <1>1 DEF AppendToRedis, locals, Raw
  <2>3. Carried' /\ EmptyHanded' /\ RawOnce'
    BY <2>1, <2>2 DEF Once, Carried, EmptyHanded, RawOnce, Raw
  <2>4. CASE UNCHANGED redis
    BY <2>1, <2>2, <2>3, <2>4 DEF Once, Homed, NotQueued, redis
  <2>5. CASE Push(e)
    <3>1. append[e] = "idle" /\ append'[e] # "idle"
      BY <1>1, <2>5 DEF AppendToRedis, Push, redis
    <3>2. Homed'
      BY <2>1, <2>5, <3>1 DEF Once, Homed, Push
    <3>3. \A d \in Drainers : e \notin Raw(d)
      BY <3>1 DEF Once, Carried
    <3>4. NotQueued'
      BY <2>2, <2>5, <3>3 DEF Once, NotQueued, Push
    <3>5. QED
      BY <2>3, <3>2, <3>4 DEF Once
  <2>6. QED
    BY <1>1, <2>4, <2>5 DEF AppendToRedis
<1>2. ASSUME NEW e \in Candidates, AppendLocally(e) PROVE Once'
  <2>1. \A x \in Candidates : append[x] # "idle" => append'[x] # "idle"
    BY <1>2 DEF AppendLocally
  <2>2. UNCHANGED <<draining, popped, at, pc, queue>> /\ \A d \in Drainers : Raw(d)' = Raw(d)
    BY <1>2 DEF AppendLocally, locals, redis, Raw
  <2>3. QED
    BY <2>1, <2>2 DEF Once, Homed, Carried, EmptyHanded, RawOnce, NotQueued, Raw
<1>3. ASSUME NEW d \in Drainers, Drain(d) PROVE Once'
  <2>1. CASE Detach(d)
    <3>1. PICK w \in todo[d] :
            /\ Rename(d, w)
            /\ at' = [at EXCEPT ![d] = w]
      BY <2>1 DEF Detach
    <3>2. w \in Workspaces /\ Raw(d) = {} /\ draining[d] = {} /\ popped[d] = {}
      BY <2>1, <3>1 DEF Detach, Once, EmptyHanded, Raw
    <3>3. popped'[d] = {} /\ \A c \in Drainers : c # d => popped'[c] = popped[c] /\ pc'[c] = pc[c]
      BY <2>1, <3>2 DEF Detach, Raise
    <3>4. Raw(d)' = queue[w] /\ \A c \in Drainers : c # d => Raw(c)' = Raw(c) /\ at'[c] = at[c]
      BY <3>1, <3>2, <3>3 DEF Raw, Rename
    <3>5. queue' = [queue EXCEPT ![w] = {}] /\ append' = append /\ at'[d] = w
      BY <2>1, <3>1 DEF Detach, Rename
    <3>6. pc'[d] \in {"idle", "detach"} => queue[w] = {}
      BY <2>1, <3>1 DEF Detach, Raise, Rename
    <3>7. Homed'
      BY <3>2, <3>5 DEF Once, Homed
    <3>8. Carried'
      <4> SUFFICES ASSUME NEW c \in Drainers, NEW e \in Raw(c)'
                   PROVE  WorkspaceOf[e] = at'[c] /\ append'[e] # "idle"
        BY DEF Carried
      <4>1. CASE c = d
        BY <3>2, <3>4, <3>5, <4>1 DEF Once, Homed
      <4>2. CASE c # d
        BY <3>4, <3>5, <4>2 DEF Once, Carried
      <4>3. QED
        BY <4>1, <4>2
    <3>9. EmptyHanded' /\ RawOnce'
      <4>1. EmptyHanded'
        BY <3>3, <3>4, <3>6 DEF Once, EmptyHanded
      <4>2. \A c \in Drainers : Raw(c) \cap queue[w] = {}
        BY <3>2 DEF Once, NotQueued
      <4>3. RawOnce'
        BY <3>4, <4>2 DEF Once, RawOnce
      <4>4. QED
        BY <4>1, <4>3
    <3>10. NotQueued'
      BY <3>2, <3>4, <3>5 DEF Once, Homed, NotQueued
    <3>11. QED
      BY <3>7, <3>8, <3>9, <3>10 DEF Once
  <2>2. CASE Restore(d)
    <3>1. at[d] \in Workspaces /\ queue' = [queue EXCEPT ![at[d]] = @ \cup Raw(d)]
          /\ UNCHANGED <<at, append>>
      BY <2>2 DEF Restore, Unpop, Raw
    <3>2. Raw(d)' = {}
      BY <2>2 DEF Restore, Raise, Raw
    <3>3. \A c \in Drainers : c # d => Raw(c)' = Raw(c) /\ pc'[c] = pc[c]
      BY <2>2 DEF Restore, Raise, Raw
    <3>4. Homed'
      BY <3>1 DEF Once, Homed, Carried
    <3>5. Carried' /\ EmptyHanded' /\ RawOnce'
      <4>1. Carried'
        <5> SUFFICES ASSUME NEW c \in Drainers, NEW e \in Raw(c)'
                     PROVE  WorkspaceOf[e] = at'[c] /\ append'[e] # "idle"
          BY DEF Carried
        <5>1. c # d
          BY <3>2
        <5>2. QED
          BY <3>1, <3>3, <5>1 DEF Once, Carried
      <4>2. EmptyHanded' /\ RawOnce'
        BY <3>2, <3>3 DEF Once, EmptyHanded, RawOnce
      <4>3. QED
        BY <4>1, <4>2
    <3>6. NotQueued'
      BY SMTT(30), <3>1, <3>2, <3>3 DEF Once, RawOnce, NotQueued
    <3>7. QED
      BY <3>4, <3>5, <3>6 DEF Once
  <2>3. CASE Pop(d)
    <3>1. PICK e \in draining[d] : draining' = [draining EXCEPT ![d] = @ \ {e}]
                                   /\ (popped' = popped \/ popped' = [popped EXCEPT ![d] = @ \cup {e}])
      BY <2>3 DEF Pop
    <3>2. Raw(d)' \subseteq Raw(d) /\ pc'[d] \in {"pop", "restore"}
          /\ \A c \in Drainers : c # d => Raw(c)' = Raw(c) /\ pc'[c] = pc[c]
      BY <2>3, <3>1 DEF Pop, Raw
    <3>3. QED
      BY <2>3, <3>2, ShrinkOnce DEF Pop, redis
  <2>4. CASE Delete(d)
    <3>1. Raw(d)' = {} /\ \A c \in Drainers : c # d => Raw(c)' = Raw(c) /\ pc'[c] = pc[c]
      BY <2>4 DEF Delete, Raw
    <3>2. QED
      BY <2>4, <3>1, ShrinkOnce DEF Delete, redis
  <2>5. CASE BeginDrain(d) \/ DetachRaises(d) \/ PopRaises(d) \/ RestoreRaises(d)
               \/ EndDrain(d) \/ DrainLocally(d)
    <3>1. /\ UNCHANGED <<queue, at, append, draining>>
          /\ \A c \in Drainers : c # d => popped'[c] = popped[c] /\ pc'[c] = pc[c]
          /\ popped'[d] \subseteq popped[d]
          /\ pc'[d] \in {"idle", "detach"} => pc[d] \in {"idle", "detach"}
      BY <2>5 DEF BeginDrain, DetachRaises, PopRaises, RestoreRaises, EndDrain,
                  DrainLocally, Raise, redis, locals
    <3>2. Raw(d)' \subseteq Raw(d) /\ \A c \in Drainers : c # d => Raw(c)' = Raw(c)
      BY <3>1 DEF Raw
    <3>3. pc'[d] \in {"idle", "detach"} => Raw(d)' = {}
      BY <3>1, <3>2 DEF Once, EmptyHanded
    <3>4. QED
      BY <3>1, <3>2, <3>3, ShrinkOnce
  <2>6. QED
    BY <1>3, <2>1, <2>2, <2>3, <2>4, <2>5 DEF Drain
<1>4. ASSUME NEW p \in Processes, Crash(p) PROVE Once'
  <2>1. UNCHANGED <<queue, at, draining>>
        /\ \A e \in Candidates : append[e] # "idle" => append'[e] # "idle"
    BY <1>4 DEF Crash, redis
  <2>2. \A c \in Drainers : /\ Raw(c)' \subseteq Raw(c)
                            /\ pc'[c] \in {"idle", "detach"} => pc[c] \in {"idle", "detach"}
    BY <1>4 DEF Crash, Raw
  <2>3. Homed' /\ Carried'
    BY <2>1, <2>2 DEF Once, Homed, Carried, Raw
  <2>4. EmptyHanded' /\ RawOnce' /\ NotQueued'
    BY <2>1, <2>2 DEF Once, EmptyHanded, RawOnce, NotQueued
  <2>5. QED
    BY <2>3, <2>4 DEF Once
<1>5. CASE UNCHANGED vars
  BY <1>5 DEF vars, redis, locals, Once, Homed, Carried, EmptyHanded, RawOnce, NotQueued, Raw
<1>6. QED
  BY <1>1, <1>2, <1>3, <1>4, <1>5 DEF Next

\* No Redis value is held by two drains, or held and still queued.
THEOREM AlwaysExclusive == Spec => []Exclusive
<1>1. Init => Once
  BY DEF Init, Once, Homed, Carried, EmptyHanded, RawOnce, NotQueued, Raw
<1>2. Once => Exclusive
  BY DEF Once, RawOnce, NotQueued, Exclusive, Raw
<1>3. QED
  BY <1>1, <1>2, InitTyped, NextTyped, NextOnce, PTL DEF Spec

-----------------------------------------------------------------------------
(* The refinement.  Faults are clean when a command that raises had no     *)
(* effect and no process dies; drains are scoped when each names its       *)
(* workspace.  Then what a drain gathered is exactly what it popped.       *)

Clean == Faults \subseteq {"append", "index", "detach", "pop"}
Scoped == \A d \in Drainers : ScopeOf[d] # Everything

Accepted ==
  /\ \A w \in Workspaces : \A e \in queue[w] : append[e] = "done"
  /\ \A p \in Processes : \A e \in fallback[p] : append[e] = "done" /\ ProcessOf[e] = p
  /\ \A d \in Drainers : \A e \in Held[d] : append[e] = "done"

Apart ==
  \A p \in Processes :
    /\ \A w \in Workspaces : queue[w] \cap fallback[p] = {}
    /\ \A d \in Drainers : Held[d] \cap fallback[p] = {}

Stage ==
  \A d \in Drainers :
    /\ todo[d] \subseteq {ScopeOf[d]}
    /\ pc[d] = "idle" => events[d] = {}
    /\ pc[d] = "detach" /\ todo[d] # {} => events[d] = {}
    /\ pc[d] \in {"pop", "restore"} => todo[d] = {} /\ events[d] = popped[d]
    /\ pc[d] = "local" => draining[d] = {}
    /\ pc[d] = "done" => draining[d] = {} /\ events[d] = {}

CInv == Typed /\ Once /\ Accepted /\ Apart /\ Stage

LEMMA InitCInv == Init => CInv
<1> SUFFICES ASSUME Init PROVE CInv
  OBVIOUS
<1>1. Typed
  BY InitTyped
<1>2. Once
  BY DEF Init, Once, Homed, Carried, EmptyHanded, RawOnce, NotQueued, Raw
<1>3. Accepted /\ Apart /\ Stage
  BY DEF Init, Accepted, Apart, Stage, Held
<1>4. QED
  BY <1>1, <1>2, <1>3 DEF CInv

\* The stage of a drain under clean faults.
LEMMA NextStage ==
  ASSUME Clean, Scoped, CInv, [Next]_vars PROVE Stage'
<1> USE DEF CInv, Typed, TypeOK, AtWorkspace
<1>1. CASE UNCHANGED <<pc, locals, draining>>
  BY <1>1 DEF Stage, locals
<1>2. ASSUME NEW d \in Drainers, Drain(d) PROVE Stage'
  <2> DEFINE S(c) ==
        /\ todo'[c] \subseteq {ScopeOf[c]}
        /\ pc'[c] = "idle" => events'[c] = {}
        /\ pc'[c] = "detach" /\ todo'[c] # {} => events'[c] = {}
        /\ pc'[c] \in {"pop", "restore"} => todo'[c] = {} /\ events'[c] = popped'[c]
        /\ pc'[c] = "local" => draining'[c] = {}
        /\ pc'[c] = "done" => draining'[c] = {} /\ events'[c] = {}
  <2>1. ASSUME NEW c \in Drainers, c # d PROVE S(c)
    <3>1. pc'[c] = pc[c] /\ todo'[c] = todo[c] /\ draining'[c] = draining[c]
          /\ popped'[c] = popped[c] /\ events'[c] = events[c]
      BY <1>2, <2>1 DEF Drain, BeginDrain, Detach, DetachRaises, Pop, PopRaises, Delete,
                        Restore, RestoreRaises, EndDrain, DrainLocally, Raise, Rename, locals
    <3>2. QED
      BY <3>1 DEF Stage
  <2>2. S(d)
    <3>1. CASE BeginDrain(d)
      BY <3>1 DEF BeginDrain, WorkspacesForSession, Raise, Scoped, Stage
    <3>2. CASE Detach(d)
      <4>1. PICK w \in todo[d] : Rename(d, w) /\ todo' = [todo EXCEPT ![d] = @ \ {w}]
        BY <3>2 DEF Detach
      <4>2. pc' = [pc EXCEPT ![d] = IF queue[w] = {} THEN "detach" ELSE "pop"]
            /\ UNCHANGED <<popped, events>>
        BY <3>2, <4>1 DEF Detach, Rename, Clean
      <4>3. pc[d] = "detach" /\ events[d] = {} /\ popped[d] = {} /\ todo'[d] = {}
        BY <3>2, <4>1 DEF Detach, Stage, Once, EmptyHanded, Raw
      <4>4. QED
        BY <4>2, <4>3
    <3>3. CASE DetachRaises(d)
      BY <3>3 DEF DetachRaises, Raise, Stage, Once, EmptyHanded, Raw
    <3>4. CASE Pop(d)
      <4>1. pc[d] = "pop" /\ pc'[d] = "pop" /\ todo' = todo
        BY <3>4 DEF Pop, Clean
      <4>2. PICK e \in draining[d] : /\ popped'[d] = popped[d] \cup {e}
                                     /\ events'[d] = events[d] \cup {e}
        BY <3>4 DEF Pop, Clean
      <4>3. QED
        BY <4>1, <4>2 DEF Stage
    <3>5. CASE PopRaises(d)
      BY <3>5 DEF PopRaises, Stage, locals
    <3>6. CASE Delete(d)
      BY <3>6 DEF Delete, Stage
    <3>7. CASE Restore(d)
      <4>1. /\ pc'[d] = "local" /\ draining'[d] = {} /\ todo' = todo
        BY <3>7 DEF Restore, Raise
      <4>2. QED
        BY <4>1 DEF Stage
    <3>8. CASE RestoreRaises(d)
      BY <3>8 DEF RestoreRaises, Clean
    <3>9. CASE EndDrain(d)
      BY <3>9 DEF EndDrain, Stage, locals, Once, EmptyHanded, Raw
    <3>10. CASE DrainLocally(d)
      <4>1. /\ pc[d] = "local" /\ pc'[d] = "done" /\ events'[d] = {}
            /\ draining' = draining /\ todo' = todo
        BY <3>10 DEF DrainLocally
      <4>2. QED
        BY <4>1 DEF Stage
    <3>11. QED
      BY <1>2, <3>1, <3>2, <3>3, <3>4, <3>5, <3>6, <3>7, <3>8, <3>9, <3>10 DEF Drain
  <2>3. QED
    BY <2>1, <2>2 DEF Stage
<1>3. CASE UNCHANGED vars
  BY <1>1, <1>3 DEF vars
<1>4. ASSUME NEW e \in Candidates, AppendToRedis(e) \/ AppendLocally(e) PROVE Stage'
  BY <1>1, <1>4 DEF AppendToRedis, AppendLocally
<1>5. ASSUME NEW p \in Processes PROVE ~Crash(p)
  BY DEF Crash, Clean
<1>6. QED
  BY <1>2, <1>3, <1>4, <1>5 DEF Next

LEMMA NextPlaces ==
  ASSUME Clean, Scoped, CInv, [Next]_vars PROVE Accepted' /\ Apart'
<1> USE DEF CInv, Typed, TypeOK, AtWorkspace
<1>1. CASE UNCHANGED vars
  BY <1>1 DEF vars, redis, locals, Accepted, Apart, Held
<1>2. ASSUME NEW e \in Candidates, AppendToRedis(e) PROVE Accepted' /\ Apart'
  <2>1. CASE UNCHANGED redis
    <3>1. \A x \in Candidates : append[x] = "done" => append'[x] = "done"
      BY <1>2 DEF AppendToRedis
    <3>2. UNCHANGED <<queue, fallback, draining, events>>
      BY <1>2, <2>1 DEF AppendToRedis, redis, locals
    <3>3. QED
      BY <3>1, <3>2 DEF Accepted, Apart, Held
  <2>2. CASE Push(e) /\ append' = [append EXCEPT ![e] = "done"]
    <3>1. append[e] = "idle" /\ UNCHANGED <<fallback, draining, events>>
      BY <1>2 DEF AppendToRedis, locals
    <3>2. Accepted'
      BY <2>2, <3>1 DEF Accepted, Held, Push
    <3>3. \A p \in Processes : e \notin fallback[p]
      BY <3>1 DEF Accepted
    <3>4. Apart'
      BY <2>2, <3>1, <3>3 DEF Apart, Held, Push
    <3>5. QED
      BY <3>2, <3>4
  <2>3. QED
    BY <1>2, <2>1, <2>2 DEF AppendToRedis, Clean
<1>3. ASSUME NEW e \in Candidates, AppendLocally(e) PROVE Accepted' /\ Apart'
  <2>1. append[e] = "raised" /\ append' = [append EXCEPT ![e] = "done"]
        /\ fallback' = [fallback EXCEPT ![ProcessOf[e]] = @ \cup {e}]
        /\ UNCHANGED <<queue, draining, events>>
    BY <1>3 DEF AppendLocally, redis, locals
  <2>2. \A p \in Processes : \A x \in fallback'[p] :
          x \in fallback[p] \/ (x = e /\ p = ProcessOf[e])
    BY <2>1
  <2>3. Accepted'
    BY <2>1, <2>2 DEF Accepted, Held
  <2>4. Apart'
    BY <2>1, <2>2 DEF Apart, Accepted, Held
  <2>5. QED
    BY <2>3, <2>4
<1>4. ASSUME NEW d \in Drainers, Drain(d) PROVE Accepted' /\ Apart'
  <2>1. CASE Detach(d)
    <3>1. PICK w \in todo[d] : Rename(d, w)
      BY <2>1 DEF Detach
    <3>2. w \in Workspaces /\ UNCHANGED <<append, events, fallback>>
      BY <2>1, <3>1 DEF Detach, Clean
    <3>3. \A c \in Drainers : Held'[c] \subseteq Held[c] \cup queue[w]
      BY <3>1, <3>2 DEF Held, Rename
    <3>4. \A v \in Workspaces : queue'[v] \subseteq queue[v]
      BY <3>1, <3>2 DEF Rename
    <3>5. Accepted'
      BY <3>2, <3>3, <3>4 DEF Accepted
    <3>6. Apart'
      BY <3>2, <3>3, <3>4 DEF Apart
    <3>7. QED
      BY <3>5, <3>6
  <2>2. CASE Restore(d)
    <3>1. at[d] \in Workspaces /\ UNCHANGED <<append, fallback>>
      BY <2>2 DEF Restore
    <3>2. \A c \in Drainers : Held'[c] \subseteq Held[c]
      BY <2>2 DEF Restore, Raise, Held
    <3>3. Unpop(d) \subseteq Held[d]
      BY <2>2 DEF Restore, Unpop, Held, Stage
    <3>4. \A v \in Workspaces : queue'[v] \subseteq queue[v] \cup Held[d]
      BY <2>2, <3>1, <3>3 DEF Restore
    <3>5. Accepted'
      BY <3>1, <3>2, <3>4 DEF Accepted
    <3>6. Apart'
      BY <3>1, <3>2, <3>4 DEF Apart
    <3>7. QED
      BY <3>5, <3>6
  <2>3. CASE ~Detach(d) /\ ~Restore(d)
    <3>1. UNCHANGED <<queue, append>>
          /\ \A p \in Processes : fallback'[p] \subseteq fallback[p]
      BY <1>4, <2>3 DEF Drain, BeginDrain, DetachRaises, Pop, PopRaises, Delete,
                        RestoreRaises, EndDrain, DrainLocally, redis
    <3>2. \A c \in Drainers : Held'[c] \subseteq Held[c]
      BY <1>4, <2>3 DEF Drain, BeginDrain, DetachRaises, Pop, PopRaises, Delete, Raise,
                        RestoreRaises, EndDrain, DrainLocally, locals, Held
    <3>3. QED
      BY <3>1, <3>2 DEF Accepted, Apart
  <2>4. QED
    BY <2>1, <2>2, <2>3
<1>5. ASSUME NEW p \in Processes PROVE ~Crash(p)
  BY DEF Crash, Clean
<1>6. QED
  BY <1>1, <1>2, <1>3, <1>4, <1>5 DEF Next

LEMMA InWaiting ==
  \A x : x \in Waiting <=> \/ \E w \in Workspaces : x \in queue[w]
                       \/ \E p \in Processes : x \in fallback[p]
<1> TAKE x
<1>1. x \in UNION {queue[w] : w \in Workspaces} <=> \E w \in Workspaces : x \in queue[w]
  <2>1. \A z : z \in {queue[w] : w \in Workspaces} <=> \E w \in Workspaces : z = queue[w]
    OBVIOUS
  <2>2. QED
    BY <2>1, Zenon
<1>2. x \in UNION {fallback[p] : p \in Processes} <=> \E p \in Processes : x \in fallback[p]
  <2>1. \A z : z \in {fallback[p] : p \in Processes} <=> \E p \in Processes : z = fallback[p]
    OBVIOUS
  <2>2. QED
    BY <2>1, Zenon
<1>3. QED
  BY <1>1, <1>2, Zenon DEF Waiting

LEMMA InWaitingNext ==
  \A x : x \in Waiting' <=> \/ \E w \in Workspaces : x \in queue'[w]
                       \/ \E p \in Processes : x \in fallback'[p]
<1> TAKE x
<1>1. x \in UNION {queue'[w] : w \in Workspaces} <=> \E w \in Workspaces : x \in queue'[w]
  <2>1. \A z : z \in {queue'[w] : w \in Workspaces} <=> \E w \in Workspaces : z = queue'[w]
    OBVIOUS
  <2>2. QED
    BY <2>1, Zenon
<1>2. x \in UNION {fallback'[p] : p \in Processes} <=> \E p \in Processes : x \in fallback'[p]
  <2>1. \A z : z \in {fallback'[p] : p \in Processes} <=> \E p \in Processes : z = fallback'[p]
    OBVIOUS
  <2>2. QED
    BY <2>1, Zenon
<1>3. QED
  BY <1>1, <1>2, Zenon DEF Waiting

\* A candidate starts to wait where it is accepted.
LEMMA Accepting ==
  ASSUME Typed, NEW e \in Candidates, append[e] # "done",
         append' = [append EXCEPT ![e] = "done"],
         Waiting' = Waiting \cup {e}, UNCHANGED <<Held, handed>>
  PROVE  Q!Put(e)
<1>1. Offered' = Offered \cup {e} /\ e \notin Offered
  BY DEF Offered, Typed, TypeOK
<1>2. QED
  BY <1>1 DEF Q!Put

LEMMA StepRefines ==
  ASSUME Clean, Scoped, CInv, [Next]_vars PROVE [Q!Next]_(Q!vars)
<1> USE DEF CInv, Typed, TypeOK, AtWorkspace
<1> DEFINE Same == UNCHANGED <<Offered, Waiting, Held, handed>>
<1>0. Same => [Q!Next]_(Q!vars)
  BY DEF Q!vars
<1>w. \A x : x \in Waiting <=> \/ \E w \in Workspaces : x \in queue[w]
                              \/ \E p \in Processes : x \in fallback[p]
  BY InWaiting
<1>v. \A x : x \in Waiting' <=> \/ \E w \in Workspaces : x \in queue'[w]
                               \/ \E p \in Processes : x \in fallback'[p]
  BY InWaitingNext
<1>1. CASE UNCHANGED vars
  BY <1>0, <1>1 DEF vars, redis, locals, Offered, Waiting, Held
<1>2. ASSUME NEW e \in Candidates, AppendToRedis(e) PROVE Same \/ Q!Put(e)
  <2>1. UNCHANGED <<Held, handed, fallback>>
    BY <1>2 DEF AppendToRedis, locals, Held
  <2>2. CASE UNCHANGED redis
    <3>1. ~Push(e)
      <4> SUFFICES ASSUME Push(e) PROVE FALSE
        OBVIOUS
      <4>1. e \in queue[WorkspaceOf[e]] /\ WorkspaceOf[e] \in Workspaces
        BY <2>2, BufferConstants DEF Push, redis
      <4>2. QED
        BY <1>2, <4>1 DEF AppendToRedis, Accepted
    <3>2. append[e] = "idle" /\ append' = [append EXCEPT ![e] = "raised"]
      BY <1>2, <3>1, Zenon DEF AppendToRedis
    <3>3. QED
      BY <2>1, <2>2, <3>2 DEF Offered, Waiting, redis
  <2>3. CASE Push(e) /\ append' = [append EXCEPT ![e] = "done"]
    <3>1. Waiting' = Waiting \cup {e}
      <4>1. WorkspaceOf[e] \in Workspaces
            /\ queue' = [queue EXCEPT ![WorkspaceOf[e]] = @ \cup {e}]
        BY <2>3, BufferConstants DEF Push
      <4>2. QED
        BY <1>w, <1>v, <2>1, <4>1
    <3>2. append[e] # "done"
      BY <1>2 DEF AppendToRedis
    <3>3. QED
      BY <2>1, <2>3, <3>1, <3>2, Accepting
  <2>4. QED
    BY <1>2, <2>2, <2>3 DEF AppendToRedis, Clean
<1>3. ASSUME NEW e \in Candidates, AppendLocally(e) PROVE Q!Put(e)
  <2>1. /\ append[e] # "done" /\ append' = [append EXCEPT ![e] = "done"]
        /\ fallback' = [fallback EXCEPT ![ProcessOf[e]] = @ \cup {e}]
        /\ UNCHANGED <<queue, Held, handed>>
    BY <1>3 DEF AppendLocally, redis, locals, Held
  <2>2. Waiting' = Waiting \cup {e}
    <3>1. ProcessOf[e] \in Processes
      BY BufferConstants
    <3>2. QED
      BY <1>w, <1>v, <2>1, <3>1
  <2>3. QED
    BY <2>1, <2>2, Accepting
<1>4. ASSUME NEW d \in Drainers, Drain(d)
      PROVE  Same \/ Q!Take(d) \/ Q!PutBack(d) \/ Q!HandOver(d)
  <2>1. UNCHANGED Offered
    BY <1>4 DEF Drain, BeginDrain, Detach, DetachRaises, Pop, PopRaises, Delete, Restore,
                RestoreRaises, EndDrain, DrainLocally, Offered
  <2>2. CASE Detach(d)
    <3>1. PICK w \in todo[d] : Rename(d, w)
      BY <2>2 DEF Detach
    <3>2. w \in Workspaces /\ UNCHANGED <<events, fallback, handed>>
      BY <2>2, <3>1 DEF Detach, Clean
    <3>3. draining[d] = {}
      BY <2>2 DEF Detach, Once, EmptyHanded, Raw
    <3>4. Held' = [Held EXCEPT ![d] = @ \cup queue[w]]
      BY <3>1, <3>2, <3>3 DEF Held, Rename
    <3>5. queue[w] \subseteq Waiting
      BY <1>w, <3>2
    <3>6. Waiting' = Waiting \ queue[w]
      <4>1. queue' = [queue EXCEPT ![w] = {}]
        BY <3>1 DEF Rename
      <4>2. \A v \in Workspaces : v # w => queue[v] \cap queue[w] = {}
        BY <3>2 DEF Once, Homed
      <4>3. \A p \in Processes : queue[w] \cap fallback[p] = {}
        BY <3>2 DEF Apart
      <4>4. QED
        BY <1>w, <1>v, <3>2, <4>1, <4>2, <4>3
    <3>7. QED
      BY <2>1, <3>2, <3>4, <3>5, <3>6 DEF Q!Take
  <2>3. CASE Restore(d)
    <3>1. at[d] \in Workspaces /\ UNCHANGED <<fallback, handed>>
      BY <2>3 DEF Restore
    <3>2. Unpop(d) = Held[d]
      BY <2>3 DEF Restore, Unpop, Held, Stage
    <3>3. Waiting' = Waiting \cup Held[d]
      <4>1. queue' = [queue EXCEPT ![at[d]] = @ \cup Held[d]]
        BY <2>3, <3>2 DEF Restore
      <4>2. QED
        BY <1>w, <1>v, <3>1, <4>1
    <3>4. Held' = [Held EXCEPT ![d] = {}]
      BY <2>3 DEF Restore, Raise, Held
    <3>5. QED
      BY <2>1, <3>1, <3>3, <3>4 DEF Q!PutBack
  <2>4. CASE DrainLocally(d)
    <3>1. draining[d] = {} /\ Held[d] = events[d]
      BY <2>4 DEF DrainLocally, Stage, Held
    <3>2. Held' = [Held EXCEPT ![d] = {}]
      BY <2>4, <3>1 DEF DrainLocally, Held
    <3>3. LocalShare(d) \subseteq Waiting
      BY <1>w, BufferConstants DEF LocalShare
    <3>4. Waiting' = Waiting \ LocalShare(d)
      <4>1. ProcessOf[d] \in Processes /\ LocalShare(d) \subseteq fallback[ProcessOf[d]]
        BY BufferConstants DEF LocalShare
      <4>2. /\ fallback' = [fallback EXCEPT ![ProcessOf[d]] = @ \ LocalShare(d)]
            /\ UNCHANGED queue
        BY <2>4 DEF DrainLocally, redis
      <4>3. \A w \in Workspaces : queue[w] \cap LocalShare(d) = {}
        BY <4>1 DEF Apart
      <4>4. \A p \in Processes : p # ProcessOf[d] => fallback[p] \cap LocalShare(d) = {}
        BY <4>1 DEF Accepted
      <4>5. QED
        BY <1>w, <1>v, <4>1, <4>2, <4>3, <4>4
    <3>5. handed' = handed \cup Held[d] \cup LocalShare(d)
      BY <2>4, <3>1 DEF DrainLocally
    <3>6. QED
      BY <2>1, <3>2, <3>3, <3>4, <3>5 DEF Q!HandOver
  <2>5. CASE ~Detach(d) /\ ~Restore(d) /\ ~DrainLocally(d)
    <3>1. UNCHANGED <<queue, fallback, handed>>
      BY <1>4, <2>5 DEF Drain, BeginDrain, DetachRaises, Pop, PopRaises, Delete,
                        RestoreRaises, EndDrain, redis
    <3>2. Held' = Held
      <4>1. CASE BeginDrain(d)
        BY <4>1 DEF BeginDrain, Raise, Scoped, Held
      <4>2. CASE DetachRaises(d)
        <5>1. events[d] = {}
          BY <4>2 DEF DetachRaises, Stage
        <5>2. events' = events /\ draining' = draining
          BY <4>2, <5>1 DEF DetachRaises, Raise
        <5>3. QED
          BY <5>2 DEF Held
      <4>3. CASE Pop(d)
        BY <4>3 DEF Pop, Clean, Held
      <4>4. CASE PopRaises(d) \/ Delete(d) \/ EndDrain(d)
        BY <4>4 DEF PopRaises, Delete, EndDrain, locals, Held
      <4>5. ~RestoreRaises(d)
        BY DEF RestoreRaises, Clean
      <4>6. QED
        BY <1>4, <2>5, <4>1, <4>2, <4>3, <4>4, <4>5 DEF Drain
    <3>3. QED
      BY <2>1, <3>1, <3>2 DEF Waiting
  <2>6. QED
    BY <2>2, <2>3, <2>4, <2>5
<1>5. ASSUME NEW p \in Processes PROVE ~Crash(p)
  BY DEF Crash, Clean
<1>6. CASE Next
  BY <1>0, <1>2, <1>3, <1>4, <1>5, <1>6 DEF Next, Q!Next
<1>7. QED
  BY <1>1, <1>6

LEMMA InitRefines == Init => Q!Init
  BY DEF Init, Q!Init, Offered, Waiting, Held

\* While failing commands have no effect, no process dies and every drain
\* names its workspace, the buffer keeps the promise of CandidateQueue:
\* candidates wait, belong to one drain, and go back or are handed over.
THEOREM ImplementsQueue ==
  ASSUME Clean, Scoped
  PROVE  Spec => QueueSpec
<1>1. CInv /\ [Next]_vars => CInv'
  BY NextTyped, NextOnce, NextStage, NextPlaces DEF CInv
<1>2. CInv /\ [Next]_vars => [Q!Next]_(Q!vars)
  BY StepRefines
<1>3. QED
  BY <1>1, <1>2, InitCInv, InitRefines, PTL DEF Spec, QueueSpec, Q!Spec

-----------------------------------------------------------------------------
\* What the promise amounts to, whoever keeps it: CandidateQueue loses no
\* accepted candidate and hands none over twice.

HeldByDrains == Held = [t \in Drainers |-> Held[t]]

QInv == HeldByDrains /\ Q!NothingLost /\ Q!OnePlace

\* NothingLost one candidate at a time.
LEMMA EachPlace ==
  Q!NothingLost <=> \A e : e \in Offered <=>
    (e \in Waiting \/ e \in handed \/ \E t \in Drainers : e \in Held[t])
BY DEF Q!NothingLost

LEMMA PlacesAfter ==
  Q!NothingLost' <=> \A e : e \in Offered' <=>
    (e \in Waiting' \/ e \in handed' \/ \E t \in Drainers : e \in Held'[t])
BY DEF Q!NothingLost

LEMMA InitQInv == Q!Init => QInv
BY Zenon, EachPlace DEF Q!Init, QInv, HeldByDrains, Q!OnePlace

LEMMA NextQInv == QInv /\ [Q!Next]_(Q!vars) => QInv'
<1> SUFFICES ASSUME QInv, [Q!Next]_(Q!vars) PROVE QInv'
  OBVIOUS
<1>0. \A e : e \in Offered <=>
        (e \in Waiting \/ e \in handed \/ \E t \in Drainers : e \in Held[t])
  BY EachPlace DEF QInv
<1> SUFFICES /\ HeldByDrains'
             /\ \A e : e \in Offered' <=>
                  (e \in Waiting' \/ e \in handed' \/ \E t \in Drainers : e \in Held'[t])
             /\ Q!OnePlace'
  BY PlacesAfter DEF QInv
<1> USE DEF HeldByDrains, Q!OnePlace
<1>H. HeldByDrains /\ Q!OnePlace
  BY DEF QInv
<1>1. ASSUME NEW e \in Candidates, Q!Put(e)
      PROVE  /\ HeldByDrains'
             /\ \A x : x \in Offered' <=>
                  (x \in Waiting' \/ x \in handed' \/ \E t \in Drainers : x \in Held'[t])
             /\ Q!OnePlace'
  BY <1>0, <1>1, <1>H DEF Q!Put
<1>2. ASSUME NEW t \in Drainers, Q!Take(t)
      PROVE  /\ HeldByDrains'
             /\ \A x : x \in Offered' <=>
                  (x \in Waiting' \/ x \in handed' \/ \E u \in Drainers : x \in Held'[u])
             /\ Q!OnePlace'
  <2>1. PICK taken \in SUBSET Waiting :
          Waiting' = Waiting \ taken /\ Held' = [Held EXCEPT ![t] = @ \cup taken]
    BY <1>2 DEF Q!Take
  <2>2. HeldByDrains' /\ \A u \in Drainers : Held'[u] = IF u = t THEN Held[t] \cup taken ELSE Held[u]
    BY <2>1, <1>H
  <2>3. QED
    BY <1>0, <1>2, <1>H, <2>1, <2>2 DEF Q!Take
<1>3. ASSUME NEW t \in Drainers, Q!PutBack(t)
      PROVE  /\ HeldByDrains'
             /\ \A x : x \in Offered' <=>
                  (x \in Waiting' \/ x \in handed' \/ \E u \in Drainers : x \in Held'[u])
             /\ Q!OnePlace'
  <2>1. HeldByDrains' /\ \A u \in Drainers : Held'[u] = IF u = t THEN {} ELSE Held[u]
    BY <1>3, <1>H DEF Q!PutBack
  <2>2. QED
    BY <1>0, <1>3, <1>H, <2>1 DEF Q!PutBack
<1>4. ASSUME NEW t \in Drainers, Q!HandOver(t)
      PROVE  /\ HeldByDrains'
             /\ \A x : x \in Offered' <=>
                  (x \in Waiting' \/ x \in handed' \/ \E u \in Drainers : x \in Held'[u])
             /\ Q!OnePlace'
  <2>1. PICK taken \in SUBSET Waiting :
          Waiting' = Waiting \ taken /\ handed' = handed \cup Held[t] \cup taken
    BY <1>4 DEF Q!HandOver
  <2>2. HeldByDrains' /\ \A u \in Drainers : Held'[u] = IF u = t THEN {} ELSE Held[u]
    BY <1>4, <1>H DEF Q!HandOver
  <2>3. QED
    BY <1>0, <1>4, <1>H, <2>1, <2>2 DEF Q!HandOver
<1>5. CASE UNCHANGED Q!vars
  BY <1>5, <1>0, <1>H DEF Q!vars
<1>6. QED
  BY <1>1, <1>2, <1>3, <1>4, <1>5 DEF Q!Next

LEMMA QueueKeeps == Q!Spec => [](Q!NothingLost /\ Q!OnePlace)
<1>1. QInv => Q!NothingLost /\ Q!OnePlace
  BY DEF QInv
<1>2. QED
  BY InitQInv, NextQInv, <1>1, PTL DEF Q!Spec

\* Under the conditions of the promise, whatever the buffer accepted still
\* waits, is with a drain, or was handed over for extraction.
THEOREM AcceptedIsKept ==
  ASSUME Clean, Scoped
  PROVE  Spec => []Q!NothingLost
BY ImplementsQueue, QueueKeeps, PTL DEF QueueSpec

\* Under the same conditions no candidate is handed over by two drains, or
\* handed over and still waiting.
THEOREM HandedOnce ==
  ASSUME Clean, Scoped
  PROVE  Spec => []Q!OnePlace
BY ImplementsQueue, QueueKeeps, PTL DEF QueueSpec

-----------------------------------------------------------------------------
(* The places of a transaction, and what holds at each of them.            *)
Places == {"start", "found", "absent", "locked", "numbered", "done"}
Open == {c \in DOMAIN asked : tx[c].at # "done"}
SqlTyped ==
  /\ db = [t \in DOMAIN Schema |-> db[t]]
  /\ answer = [c \in DOMAIN asked |-> answer[c]]
  /\ tx = [c \in DOMAIN asked |-> tx[c]]
  /\ \A c \in DOMAIN asked :
       /\ tx[c] = [at |-> tx[c].at, seen |-> tx[c].seen, no |-> tx[c].no, tries |-> tx[c].tries]
       /\ tx[c].at \in Places /\ (c \in Open <=> answer[c].is = "waiting")

(* A call that read a row, and has still to write it, knows the row as it  *)
(* was; the row is there, but for a membership that was deleted, and has   *)
(* the columns by which the call chose it.                                 *)
Stable(c) ==
  IF asked[c].op = "update" THEN Shape(c).compared
  ELSE IF asked[c].op = "enrol" THEN {"ws", "principal"} ELSE {}
Known(c, b) ==
  /\ tx[c].seen = {b} /\ IsRow(asked[c].table, b)
  /\ asked[c].op \in {"put", "update"} => b.id = Row(c).id
  /\ asked[c].op = "enrol" =>
       \A d \in Doing(asked, {"enrol"}) \cap Open : b.id # Row(d).id /\ b.updated # Row(d).updated
  /\ asked[c].op = "revoke" => b.id = asked[c].id /\ b.revoked = 0
  /\ \A col \in Stable(c) : b[col] = Row(c)[col]
Removing == \E d \in DOMAIN asked : asked[d].op = "remove" /\ d \notin Open
There(c, b) ==
  /\ WithId(Rows(c), b.id) # {} \/ (asked[c].op = "enrol" /\ Removing)
  /\ \A r \in WithId(Rows(c), b.id), col \in Stable(c) : r[col] = Row(c)[col]
Lacking(c) == tx[c].seen = {} /\ WithId(db.memories, Row(c).id) = {}
Found(c) ==
  /\ asked[c].op \in {"put", "enrol", "update", "revoke", "amend"}
  /\ asked[c].op = "put" => ~Repeats(Row(c))
  /\ asked[c].op \in {"update", "revoke"} => tx[c].seen # {}
  /\ asked[c].op = "amend" => Lacking(c)
  /\ \A b \in tx[c].seen : Known(c, b) /\ There(c, b)

(* A lock keeps what was read as it is, and one transaction at a time.     *)
EventsOf(run) == {e \in db.events : e.run = run}
VersionsOf(m) == {v \in db.versions : v.memory = m}
NumberOK(c) ==
  tx[c].no = 1 + Cardinality(IF asked[c].op = "append" THEN EventsOf(Row(c).run) ELSE VersionsOf(Row(c).id))
Holding(c) == tx[c].at \in {"locked", "numbered"}
LockOK(c) ==
  /\ asked[c].op \in {"append", "amend", "transition"}
  /\ asked[c].op \in {"amend", "transition"} =>
       /\ tx[c].seen = WithId(db.memories, Row(c).id) /\ tx[c].seen # {}
       /\ asked[c].op = "transition" => \A b \in tx[c].seen : b.status = asked[c].from
  /\ tx[c].at = "numbered" => NumberOK(c)
LocksDiffer ==
  \A c, d \in DOMAIN asked : Holding(c) /\ Holding(d) /\ c # d =>
    /\ asked[c].op = "append" /\ asked[d].op = "append" => Row(c).run # Row(d).run
    /\ asked[c].op # "append" /\ asked[d].op # "append" => Row(c).id # Row(d).id

TxOK(c) ==
  /\ tx[c].at = "found" => Found(c)
  /\ tx[c].at = "absent" => asked[c].op = "amend" /\ Lacking(c)
  /\ Holding(c) => LockOK(c)

SqlInv ==
  /\ SqlTyped /\ WorkOK(db, asked, Open) /\ LocksDiffer
  /\ \A c \in DOMAIN asked : TxOK(c)
-----------------------------------------------------------------------------
(* How a table of the schema fits the one of the contract.                 *)
Matches(t, s, k) ==
  /\ "id" \in s.columns /\ s.unique \cup s.compared \subseteq s.columns \ {"id"}
  /\ s.filters = k.filters /\ s.paged = k.paged
  /\ s.refers <=> t \in {"steps", "events", "nodes"}
  /\ s.refers => "run" \in s.columns
  /\ t \notin {"events", "members"} => s.unique = k.unique
  /\ t \in {"events", "members"} => k.unique = {}
  /\ t \notin {"signals", "profile"} => s.order = k.order
  /\ t \in {"conflicts", "maintenances", "attempts"} =>
       /\ s.compared = k.fixed /\ s.compared \cap s.assigned = {}
       /\ s.columns \ s.assigned \subseteq k.kept \cup k.fixed \cup {"id"}
       /\ k.kept \cap s.assigned = {} /\ s.unique \cap s.assigned = {}

(* The tables by name.                                                     *)
LEMMA SchemaIs ==
  /\ DOMAIN Schema =
       {"runs", "steps", "events", "nodes", "memories", "versions", "audits", "signals", "conflicts",
        "maintenances", "attempts", "admin_audits", "limits", "members", "access_logs", "gate_logs",
        "profile", "compactions", "cases", "results", "eval_cases", "eval_runs", "eval_results", "keys"}
  /\ Schema["runs"] = Runs /\ Contract!Catalogue["runs"] = Contract!Runs
  /\ Schema["steps"] = Steps /\ Contract!Catalogue["steps"] = Contract!Steps
  /\ Schema["events"] = Events /\ Contract!Catalogue["events"] = Contract!Events
  /\ Schema["nodes"] = Nodes /\ Contract!Catalogue["nodes"] = Contract!Nodes
  /\ Schema["memories"] = Memories /\ Contract!Catalogue["memories"] = Contract!Memories
  /\ Schema["versions"] = Versions /\ Contract!Catalogue["versions"] = Contract!Versions
  /\ Schema["audits"] = Audits /\ Contract!Catalogue["audits"] = Contract!Audits
  /\ Schema["signals"] = Signals /\ Contract!Catalogue["signals"] = Contract!Signals
  /\ Schema["conflicts"] = Conflicts /\ Contract!Catalogue["conflicts"] = Contract!Conflicts
  /\ Schema["maintenances"] = Maintenances /\ Contract!Catalogue["maintenances"] = Contract!Maintenances
  /\ Schema["attempts"] = Attempts /\ Contract!Catalogue["attempts"] = Contract!Attempts
  /\ Schema["admin_audits"] = AdminAudits /\ Contract!Catalogue["admin_audits"] = Contract!AdminAudits
  /\ Schema["limits"] = Limits /\ Contract!Catalogue["limits"] = Contract!Limits
  /\ Schema["members"] = Members /\ Contract!Catalogue["members"] = Contract!Members
  /\ Schema["access_logs"] = AccessLogs /\ Contract!Catalogue["access_logs"] = Contract!AccessLogs
  /\ Schema["gate_logs"] = GateLogs /\ Contract!Catalogue["gate_logs"] = Contract!GateLogs
  /\ Schema["profile"] = Profile /\ Contract!Catalogue["profile"] = Contract!Profile
  /\ Schema["compactions"] = Compactions /\ Contract!Catalogue["compactions"] = Contract!Compactions
  /\ Schema["cases"] = Cases /\ Contract!Catalogue["cases"] = Contract!Cases
  /\ Schema["results"] = Results /\ Contract!Catalogue["results"] = Contract!Results
  /\ Schema["eval_cases"] = EvalCases /\ Contract!Catalogue["eval_cases"] = Contract!EvalCases
  /\ Schema["eval_runs"] = EvalRuns /\ Contract!Catalogue["eval_runs"] = Contract!EvalRuns
  /\ Schema["eval_results"] = EvalResults /\ Contract!Catalogue["eval_results"] = Contract!EvalResults
  /\ Schema["keys"] = Keys /\ Contract!Catalogue["keys"] = Contract!Keys
  BY DEF Schema, Contract!Catalogue

(* Each table is as the contract has it, but for what Matches excepts.      *)
LEMMA TablesMatch ==
  ASSUME NEW t \in DOMAIN Schema
  PROVE  Matches(t, Schema[t], Contract!Catalogue[t])
<1>1. Matches("runs", Runs, Contract!Runs)
  BY DEF Matches, Table, Paged, Contract!Plain, Contract!Listing, Contract!Paging,
         Runs, Contract!Runs, RunColumns
<1>2. Matches("steps", Steps, Contract!Steps)
  BY DEF Matches, Table, Paged, Contract!Plain, Contract!Listing, Contract!Paging,
         Steps, Contract!Steps, StepColumns
<1>3. Matches("events", Events, Contract!Events)
  BY DEF Matches, Table, Paged, Contract!Plain, Contract!Listing, Contract!Paging,
         Events, Contract!Events, EventColumns, EventIndex
<1>4. Matches("nodes", Nodes, Contract!Nodes)
  BY DEF Matches, Table, Paged, Contract!Plain, Contract!Listing, Contract!Paging,
         Nodes, Contract!Nodes, NodeColumns
<1>5. Matches("memories", Memories, Contract!Memories)
  BY DEF Matches, Table, Paged, Contract!Plain, Contract!Listing, Contract!Paging,
         Memories, Contract!Memories, MemoryColumns
<1>6. Matches("versions", Versions, Contract!Versions)
  BY DEF Matches, Table, Paged, Contract!Plain, Contract!Listing, Contract!Paging,
         Versions, Contract!Versions, VersionColumns, VersionIndex
<1>7. Matches("audits", Audits, Contract!Audits)
  BY DEF Matches, Table, Paged, Contract!Plain, Contract!Listing, Contract!Paging,
         Audits, Contract!Audits, AuditColumns
<1>8. Matches("signals", Signals, Contract!Signals)
  BY DEF Matches, Table, Paged, Contract!Plain, Contract!Listing, Contract!Paging,
         Signals, Contract!Signals, SignalColumns
<1>9. Matches("conflicts", Conflicts, Contract!Conflicts)
  BY DEF Matches, Table, Paged, Contract!Plain, Contract!Listing, Contract!Paging,
         Conflicts, Contract!Conflicts, ConflictColumns
<1>10. Matches("maintenances", Maintenances, Contract!Maintenances)
  BY DEF Matches, Table, Paged, Contract!Plain, Contract!Listing, Contract!Paging,
         Maintenances, Contract!Maintenances, MaintenanceColumns
<1>11. Matches("attempts", Attempts, Contract!Attempts)
  BY DEF Matches, Table, Paged, Contract!Plain, Contract!Listing, Contract!Paging,
         Attempts, Contract!Attempts, AttemptColumns, AttemptIndex
<1>12. Matches("admin_audits", AdminAudits, Contract!AdminAudits)
  BY DEF Matches, Table, Paged, Contract!Plain, Contract!Listing, Contract!Paging,
         AdminAudits, Contract!AdminAudits, AdminAuditColumns
<1>13. Matches("limits", Limits, Contract!Limits)
  BY DEF Matches, Table, Paged, Contract!Plain, Contract!Listing, Contract!Paging,
         Limits, Contract!Limits, LimitColumns
<1>14. Matches("members", Members, Contract!Members)
  BY DEF Matches, Table, Paged, Contract!Plain, Contract!Listing, Contract!Paging,
         Members, Contract!Members, MemberColumns, MemberIndex
<1>15. Matches("access_logs", AccessLogs, Contract!AccessLogs)
  BY DEF Matches, Table, Paged, Contract!Plain, Contract!Listing, Contract!Paging,
         AccessLogs, Contract!AccessLogs, AccessLogColumns
<1>16. Matches("gate_logs", GateLogs, Contract!GateLogs)
  BY DEF Matches, Table, Paged, Contract!Plain, Contract!Listing, Contract!Paging,
         GateLogs, Contract!GateLogs, GateLogColumns
<1>17. Matches("profile", Profile, Contract!Profile)
  BY DEF Matches, Table, Paged, Contract!Plain, Contract!Listing, Contract!Paging,
         Profile, Contract!Profile, ProfileColumns
<1>18. Matches("compactions", Compactions, Contract!Compactions)
  BY DEF Matches, Table, Paged, Contract!Plain, Contract!Listing, Contract!Paging,
         Compactions, Contract!Compactions, CompactionColumns
<1>19. Matches("cases", Cases, Contract!Cases)
  BY DEF Matches, Table, Paged, Contract!Plain, Contract!Listing, Contract!Paging,
         Cases, Contract!Cases, CaseColumns
<1>20. Matches("results", Results, Contract!Results)
  BY DEF Matches, Table, Paged, Contract!Plain, Contract!Listing, Contract!Paging,
         Results, Contract!Results, ResultColumns
<1>21. Matches("eval_cases", EvalCases, Contract!EvalCases)
  BY DEF Matches, Table, Paged, Contract!Plain, Contract!Listing, Contract!Paging,
         EvalCases, Contract!EvalCases, EvalCaseColumns
<1>22. Matches("eval_runs", EvalRuns, Contract!EvalRuns)
  BY DEF Matches, Table, Paged, Contract!Plain, Contract!Listing, Contract!Paging,
         EvalRuns, Contract!EvalRuns, EvalRunColumns
<1>23. Matches("eval_results", EvalResults, Contract!EvalResults)
  BY DEF Matches, Table, Paged, Contract!Plain, Contract!Listing, Contract!Paging,
         EvalResults, Contract!EvalResults, EvalResultColumns
<1>24. Matches("keys", Keys, Contract!Keys)
  BY DEF Matches, Table, Paged, Contract!Plain, Contract!Listing, Contract!Paging,
         Keys, Contract!Keys, KeyColumns, KeyIndex
<1>25. QED
  BY SchemaIs, <1>1, <1>2, <1>3, <1>4, <1>5, <1>6, <1>7, <1>8, <1>9, <1>10, <1>11, <1>12,
     <1>13, <1>14, <1>15, <1>16, <1>17, <1>18, <1>19, <1>20, <1>21, <1>22, <1>23, <1>24

(* The contract's instance of Tables computes what this one does.          *)
LEMMA SameTables ==
  /\ \A rows, id : Contract!WithId(rows, id) = WithId(rows, id)
  /\ \A rows, new : Contract!Stored(rows, new) = Stored(rows, new)
  /\ \A rows, unique, new : Contract!Fits(rows, unique, new) = Fits(rows, unique, new)
  /\ \A row : Contract!Repeats(row) = Repeats(row)
<1>1. \A rows, id : Contract!WithId(rows, id) = WithId(rows, id)
  BY Zenon DEF Contract!WithId, WithId
<1>2. \A rows, new : Contract!Stored(rows, new) = Stored(rows, new)
  BY Zenon DEF Contract!Stored, Stored
<1>3. \A rows, unique, new : Contract!Fits(rows, unique, new) = Fits(rows, unique, new)
  BY Zenon DEF Contract!Fits, Fits
<1>4. \A row : Contract!Repeats(row) = Repeats(row)
  BY Zenon DEF Contract!Repeats, Repeats
<1>5. QED
  BY <1>1, <1>2, <1>3, <1>4

LEMMA SameQueries ==
  /\ \A rows, where : Contract!Selected(rows, where) = Selected(rows, where)
  /\ \A where, filters : Contract!Filtered(where, filters) = Filtered(where, filters)
  /\ \A rows, order : Contract!Arranged(rows, order) = Arranged(rows, order)
  /\ \A rows, offset, limit : Contract!Page(rows, offset, limit) = Page(rows, offset, limit)
  /\ \A offset, limit, maximum : Contract!PageOK(offset, limit, maximum) = PageOK(offset, limit, maximum)
<1>1. \A rows, where : Contract!Selected(rows, where) = Selected(rows, where)
  BY Zenon DEF Contract!Selected, Selected, Contract!Accepts, Accepts, Contract!AcceptsAny, AcceptsAny
<1>2. \A where, filters : Contract!Filtered(where, filters) = Filtered(where, filters)
  BY Zenon DEF Contract!Filtered, Filtered
<1>3. \A rows, order : Contract!Arranged(rows, order) = Arranged(rows, order)
  BY Zenon DEF Contract!Arranged, Arranged, Contract!Before, Before, Contract!Cardinality, Cardinality
<1>4. \A rows, offset, limit : Contract!Page(rows, offset, limit) = Page(rows, offset, limit)
  BY Zenon DEF Contract!Page, Page, Contract!Least, Least
<1>5. \A offset, limit, maximum : Contract!PageOK(offset, limit, maximum) = PageOK(offset, limit, maximum)
  BY Zenon DEF Contract!PageOK, PageOK
<1>6. QED
  BY <1>1, <1>2, <1>3, <1>4, <1>5

LEMMA SameMemories ==
  /\ \A before, memory : Contract!Amended(before, memory) = Amended(before, memory)
  /\ \A before, memory : Contract!Transitioned(before, memory) = Transitioned(before, memory)
  /\ \A versions, id, before, after, number :
       Contract!WithVersion(versions, id, before, after, number) = WithVersion(versions, id, before, after, number)
  /\ \A m : Contract!NextNumber(m) = Cardinality({v \in db.versions : v.memory = m}) + 1
<1>1. \A before, memory : Contract!Amended(before, memory) = Amended(before, memory)
  BY Zenon DEF Contract!Amended, Amended
<1>2. \A before, memory : Contract!Transitioned(before, memory) = Transitioned(before, memory)
  BY Zenon DEF Contract!Transitioned, Transitioned
<1>3. \A versions, id, before, after, number :
       Contract!WithVersion(versions, id, before, after, number) = WithVersion(versions, id, before, after, number)
  BY Zenon DEF Contract!WithVersion, WithVersion, Contract!SameVersion, SameVersion, Contract!Version, Version,
               Contract!VersionedFields, VersionedFields
<1>4. \A m : Contract!NextNumber(m) = Cardinality({v \in db.versions : v.memory = m}) + 1
  BY Zenon DEF Contract!Cardinality, Cardinality, Contract!NextNumber
<1>5. QED
  BY <1>1, <1>2, <1>3, <1>4

(* A row of a table is the record of its columns.                          *)
LEMMA RowIsItself ==
  ASSUME NEW t, NEW row, IsRow(t, row)
  PROVE  Restrict(row, Schema[t].columns) = row /\ DOMAIN row = Schema[t].columns
  BY DEF IsRow, Restrict

(* Identifiers are unique, so that storing a row again changes nothing.     *)
LEMMA OneById ==
  ASSUME NEW rows, NEW r \in rows, \A a, b \in rows : a.id = b.id => a = b
  PROVE  WithId(rows, r.id) = {r} /\ Stored(rows, r) = rows
  BY DEF WithId, Stored

(* What a table has by identifier once a row is stored.                     *)
LEMMA StoredIds ==
  ASSUME NEW rows, NEW new, NEW id
  PROVE  /\ WithId(Stored(rows, new), id) = IF id = new.id THEN {new} ELSE WithId(rows, id)
         /\ WithId(rows, id) # {} => WithId(Stored(rows, new), id) # {}
  BY DEF WithId, Stored

(* Each kind of call has its tables.                                       *)
LEMMA CallTables ==
  ASSUME NEW call, CallOK(call)
  PROVE  /\ call.op = "put" => call.table \in DOMAIN Schema \ {"limits", "members", "gate_logs", "profile"}
         /\ call.op = "log" => call.table \in {"gate_logs", "profile"}
         /\ call.op = "append" => call.table = "events"
         /\ call.op \in {"amend", "transition", "bump", "candidates"} => call.table = "memories"
         /\ call.op = "enrol" => call.table = "members"
         /\ call.op = "update" => call.table \in {"conflicts", "maintenances", "attempts"}
         /\ call.op = "revoke" => call.table = "keys" /\ call.at # 0
         /\ call.op = "mark" => call.table = "keys"
         /\ call.op = "remove" => call.table \in {"limits", "members"}
  BY DEF CallOK, Logs

(* Every call is about a table of the schema.                               *)
LEMMA CallTable ==
  ASSUME NEW call, CallOK(call)
  PROVE  call.table \in DOMAIN Schema
<1>1. call.op \in {"put", "log", "append", "amend", "transition", "bump", "candidates", "enrol", "update",
                  "revoke", "mark", "remove", "get", "list"}
  BY DEF CallOK
<1>2. call.op \in {"get", "list"} => call.table \in DOMAIN Schema
  BY DEF CallOK
<1>3. QED
  BY <1>1, <1>2, CallTables, SchemaIs

(* What makes storing `new' in table t safe: it is new to the table, or    *)
(* agrees with a known row of its id on what identifies it, and no call    *)
(* that is still under way counts on its identifier being free.            *)
Kin(tables, calls, t, new) ==
  LET known == tables[t] \cup PutRows(calls, t)
  IN  \/ (\A r \in known : r.id # new.id) /\ (t = "events" => PutRows(calls, "events") = {})
      \/ \E r \in known : r.id = new.id /\ \A col \in Schema[t].unique \cup Schema[t].compared : r[col] = new[col]
Unclaimed(calls, open, t, new) ==
  /\ t = "members" => \A c \in Doing(calls, {"enrol"}) \cap open :
                        new.id # calls[c].row.id /\ new.updated # calls[c].row.updated
  /\ t = "audits" => \A c \in Doing(calls, {"transition"}) \cap open : new.id # calls[c].audit.id
Storable(tables, calls, t, new) ==
  /\ IsRow(t, new) /\ Fits(tables[t], Schema[t].unique, new)
  /\ Schema[t].refers => WithId(tables.runs, new.run) # {}
  /\ Kin(tables, calls, t, new)
Gains(tables, after, t, new) ==
  /\ t \in DOMAIN Schema /\ after = [u \in DOMAIN Schema |-> after[u]]
  /\ after[t] = Stored(tables[t], new)
  /\ \A u \in DOMAIN Schema \ {t} : after[u] = tables[u]

(* Rows stay apart in the unique columns if the new one fits.               *)
LEMMA GainKeepsRows ==
  ASSUME NEW rows, NEW unique, NEW new, Fits(rows, unique, new),
         \A r \in rows : Fits(rows, unique, r)
  PROVE  \A r \in Stored(rows, new) : Fits(Stored(rows, new), unique, r)
  BY DEF Fits, Stored

(* Storing a storable row keeps every table in order ...                    *)
LEMMA GainKeepsTables ==
  ASSUME NEW tables, NEW after, NEW calls, NEW t, NEW new, Gains(tables, after, t, new),
         \A u \in DOMAIN Schema : TableOK(tables, u),
         Storable(tables, calls, t, new)
  PROVE  \A u \in DOMAIN Schema : TableOK(after, u)
<1>1. t \in DOMAIN Schema /\ "runs" \in DOMAIN Schema
  BY SchemaIs DEF Gains
<1>2. \A id : WithId(tables.runs, id) # {} => WithId(after.runs, id) # {}
  BY <1>1, StoredIds DEF Gains
<1>3. TableOK(after, t)
  <2>1. \A r, s \in after[t] : r.id = s.id => r = s
    BY <1>1 DEF Gains, TableOK, Stored
  <2>2. \A r \in after[t] : Fits(after[t], Schema[t].unique, r)
    BY <1>1, GainKeepsRows DEF Gains, TableOK, Storable
  <2>3. \A r \in after[t] : r = new \/ r \in tables[t]
    BY DEF Gains, Stored
  <2>4. \A r \in after[t] : IsRow(t, r) /\ (Schema[t].refers => WithId(after.runs, r.run) # {})
    BY <1>1, <1>2, <2>3 DEF TableOK, Storable
  <2>5. QED
    BY <2>1, <2>2, <2>4 DEF TableOK
<1>4. ASSUME NEW u \in DOMAIN Schema, u # t
      PROVE  TableOK(after, u)
  <2>1. after[u] = tables[u] /\ TableOK(tables, u)
    BY <1>4 DEF Gains
  <2>2. QED
    BY <2>1, <1>2 DEF TableOK
<1>5. QED
  BY <1>3, <1>4

(* ... and keeps rows what they are, and claimed identifiers free.          *)
LEMMA GainKeepsIdentity ==
  ASSUME NEW tables, NEW after, NEW calls, NEW open, NEW rest, rest \subseteq open,
         NEW t, NEW new, Gains(tables, after, t, new), IdentityOK(tables, calls, open),
         Storable(tables, calls, t, new), Unclaimed(calls, rest, t, new)
  PROVE  IdentityOK(after, calls, rest)
<1>1. /\ t \in DOMAIN Schema
      /\ {"events", "members", "audits", "memories"} \subseteq DOMAIN Schema
  BY SchemaIs DEF Gains
<1>2. \A u \in DOMAIN Schema : \A r \in after[u] : r \in tables[u] \/ (u = t /\ r = new)
  BY DEF Gains, Stored
<1>3. ASSUME NEW u \in DOMAIN Schema
      PROVE  Alike(after[u] \cup PutRows(calls, u), u)
  <2>1. Alike(tables[u] \cup PutRows(calls, u), u)
    BY DEF IdentityOK
  <2>2. PICK x \in Schema[u].columns : \A r, s \in tables[u] \cup PutRows(calls, u) :
          r.id = s.id => \A col \in Schema[u].unique \ {x} : r[col] = s[col]
    BY <2>1 DEF Alike
  <2>3. \A r, s \in tables[u] \cup PutRows(calls, u) :
          r.id = s.id => \A col \in Schema[u].compared : r[col] = s[col]
    BY <2>1 DEF Alike
  <2>4. \A r, s \in after[u] \cup PutRows(calls, u) :
          r.id = s.id => \A col \in Schema[u].unique \ {x} : r[col] = s[col]
    <3>1. ASSUME NEW s \in tables[u] \cup PutRows(calls, u), u = t, s.id = new.id
          PROVE  \A col \in Schema[u].unique \ {x} : new[col] = s[col]
      BY <2>2, <3>1 DEF Storable, Kin
    <3>2. QED
      BY <1>2, <2>2, <3>1
  <2>5. \A r, s \in after[u] \cup PutRows(calls, u) :
          r.id = s.id => \A col \in Schema[u].compared : r[col] = s[col]
    <3>1. ASSUME NEW s \in tables[u] \cup PutRows(calls, u), u = t, s.id = new.id
          PROVE  \A col \in Schema[u].compared : new[col] = s[col]
      BY <2>3, <3>1 DEF Storable, Kin
    <3>2. QED
      BY <1>2, <2>3, <3>1
  <2>6. QED
    BY <2>4, <2>5 DEF Alike
<1>4. ASSUME NEW e \in PutRows(calls, "events")
      PROVE  Fits(after.events \cup PutRows(calls, "events"), EventIndex, e)
  <2>1. Fits(tables.events \cup PutRows(calls, "events"), EventIndex, e)
    BY <1>4 DEF IdentityOK
  <2>2. Schema["events"].unique = EventIndex /\ EventIndex # {}
    BY SchemaIs DEF Events, Table, EventIndex
  <2>3. ASSUME t = "events", new.id # e.id
        PROVE  \E col \in EventIndex : new[col] # e[col]
    BY <2>1, <2>2, <2>3 DEF Storable, Kin, Fits
  <2>4. QED
    BY <1>1, <1>2, <2>1, <2>2, <2>3 DEF Fits
<1>5. ASSUME NEW c \in Doing(calls, {"enrol"}) \cap rest,
             NEW r \in after.members \cup {calls[d].row : d \in Doing(calls, {"enrol"}) \ {c}}
      PROVE  r.id # calls[c].row.id /\ r.updated # calls[c].row.updated
  <2>1. c \in Doing(calls, {"enrol"}) \cap open
    BY <1>5
  <2>2. \/ r \in tables.members \cup {calls[d].row : d \in Doing(calls, {"enrol"}) \ {c}}
        \/ t = "members" /\ r = new
    BY <1>1, <1>2, <1>5
  <2>3. QED
    BY <1>5, <2>1, <2>2 DEF IdentityOK, Unclaimed
<1>6. ASSUME NEW c \in Doing(calls, {"transition"}) \cap rest,
             NEW r \in after.audits \cup PutRows(calls, "audits")
                         \cup {calls[d].audit : d \in Doing(calls, {"transition"}) \ {c}}
      PROVE  r.id # calls[c].audit.id
  <2>1. c \in Doing(calls, {"transition"}) \cap open
    BY <1>6
  <2>2. \/ r \in tables.audits \cup PutRows(calls, "audits")
                   \cup {calls[d].audit : d \in Doing(calls, {"transition"}) \ {c}}
        \/ t = "audits" /\ r = new
    BY <1>1, <1>2, <1>6
  <2>3. QED
    BY <1>6, <2>1, <2>2 DEF IdentityOK, Unclaimed
<1>7. ASSUME NEW c \in Doing(calls, {"amend"}) \cap rest
      PROVE  \/ WithId(after.memories, calls[c].row.id) # {}
             \/ \A d \in Doing(calls, {"put", "amend"}) \ {c} :
                  calls[d].table = "memories" => calls[d].row.id # calls[c].row.id
  <2>1. c \in Doing(calls, {"amend"}) \cap open
    BY <1>7
  <2>2. WithId(tables.memories, calls[c].row.id) # {} => WithId(after.memories, calls[c].row.id) # {}
    BY <1>1, StoredIds DEF Gains
  <2>3. QED
    BY <2>1, <2>2 DEF IdentityOK
<1>8. QED
  BY <1>3, <1>4, <1>5, <1>6, <1>7 DEF IdentityOK

(* ... and safe for what call d knows while its transaction goes on.       *)
Waits(d) == asked[d].op \in {"amend", "transition"} /\ tx[d].at \in {"found", "absent", "locked", "numbered"}
Harmless(d, t, new) ==
  /\ t = "memories" /\ Waits(d) => new.id # Row(d).id
  /\ t = "events" /\ asked[d].op = "append" /\ Holding(d) =>
       WithId(db.events, new.id) = {} /\ new.run # Row(d).run
  /\ t = "versions" /\ Waits(d) => WithId(db.versions, new.id) = {} /\ new.memory # Row(d).id
  /\ t = "members" /\ asked[d].op = "enrol" /\ tx[d].at = "found" =>
       /\ PutRows(asked, "members") = {}
       /\ \A b \in tx[d].seen : new.id # b.id \/ WithId(db.members, new.id) # {}

Agree(rows, cols, row) == \A r \in rows, col \in cols : r[col] = row[col]

(* Columns by which a call chose its row are not written by others.         *)
LEMMA ColumnsStay ==
  ASSUME NEW t \in DOMAIN Schema, NEW new, NEW b, NEW cols, NEW row,
         Gains(db, db', t, new), Storable(db, asked, t, new), Alike(db[t] \cup PutRows(asked, t), t),
         WithId(db[t], b.id) # {}, Agree(WithId(db[t], b.id), cols, row),
         cols \subseteq Schema[t].compared
           \/ (cols \subseteq Schema[t].unique /\ PutRows(asked, t) = {})
  PROVE  Agree(WithId(db'[t], b.id), cols, row)
<1>1. db'[t] = Stored(db[t], new)
  BY DEF Gains
<1>2. CASE b.id # new.id
  BY <1>1, <1>2, StoredIds DEF Agree
<1>3. CASE b.id = new.id
  <2>1. PICK q \in db[t] : q.id = b.id
    BY DEF WithId
  <2>2. PICK r \in db[t] \cup PutRows(asked, t) :
          r.id = new.id /\ \A col \in Schema[t].unique \cup Schema[t].compared : r[col] = new[col]
    BY <1>3, <2>1 DEF Storable, Kin
  <2>3. \A col \in cols : q[col] = row[col]
    BY <2>1 DEF WithId, Agree
  <2>4. \A col \in cols : new[col] = row[col]
    <3>1. CASE cols \subseteq Schema[t].compared
      <4>1. \A col \in cols : r[col] = q[col]
        BY <1>3, <2>1, <2>2, <3>1 DEF Alike
      <4>2. QED
        BY <2>2, <2>3, <3>1, <4>1
    <3>2. CASE cols \subseteq Schema[t].unique /\ PutRows(asked, t) = {}
      <4>1. r \in WithId(db[t], b.id)
        BY <1>3, <2>2, <3>2 DEF WithId
      <4>2. QED
        BY <2>2, <3>2, <4>1 DEF Agree
    <3>3. QED
      BY <3>1, <3>2
  <2>5. WithId(db'[t], b.id) = {new}
    BY <1>1, <1>3, StoredIds
  <2>6. QED
    BY <2>4, <2>5 DEF Agree
<1>4. QED
  BY <1>2, <1>3

(* A row that was read is still there after a harmless write ...            *)
LEMMA ThereStays ==
  ASSUME NEW d \in DOMAIN asked, NEW b, NEW t, NEW new, Gains(db, db', t, new),
         Storable(db, asked, t, new), WorkOK(db, asked, Open), Harmless(d, t, new),
         asked' = asked, tx'[d] = tx[d], Open' \subseteq Open,
         tx[d].at = "found", Found(d), b \in tx[d].seen
  PROVE  There(d, b)'
<1> DEFINE u == asked[d].table
<1>1. CallOK(asked[d]) /\ asked[d].op \in {"put", "enrol", "update", "revoke", "amend"}
  BY DEF WorkOK, Found
<1>2. u \in DOMAIN Schema /\ t \in DOMAIN Schema
  BY <1>1, CallTable DEF Gains
<1>3. Known(d, b) /\ There(d, b)
  BY DEF Found
<1>4. Rows(d)' = db'[u] /\ Row(d)' = Row(d)
  BY DEF Rows, Row
<1>5. Removing => Removing'
  BY DEF Removing, Open
<1>6. WithId(Rows(d), b.id) # {} => WithId(Rows(d)', b.id) # {}
  BY <1>2, <1>4, StoredIds DEF Gains, Rows
<1>7. Stable(d)' = Stable(d)
  BY DEF Stable, Shape
<1>8. Agree(WithId(db'[u], b.id), Stable(d), Row(d))
  <2>1. CASE u # t
    BY <2>1, <1>2, <1>3 DEF Gains, There, Rows, Agree
  <2>2. CASE u = t /\ WithId(db[t], b.id) # {}
    <3>1. \/ Stable(d) \subseteq Schema[t].compared
          \/ Stable(d) \subseteq Schema[t].unique /\ PutRows(asked, t) = {}
      <4>1. CASE asked[d].op = "enrol"
        <5>1. t = "members"
          BY <4>1, <1>1, <2>2, CallTables
        <5>2. Schema["members"].unique = {"ws", "principal"}
          BY SchemaIs DEF Members, Paged, Table, MemberIndex
        <5>3. QED
          BY <4>1, <5>1, <5>2 DEF Harmless, Stable
      <4>2. CASE asked[d].op # "enrol"
        BY <4>2, <2>2 DEF Stable, Shape
      <4>3. QED
        BY <4>1, <4>2
    <3>2. Alike(db[t] \cup PutRows(asked, t), t)
      BY <1>2 DEF WorkOK, IdentityOK
    <3>3. Agree(WithId(db[t], b.id), Stable(d), Row(d))
      BY <1>3, <2>2 DEF There, Rows, Agree
    <3>4. QED
      BY <1>2, <2>2, <3>1, <3>2, <3>3, ColumnsStay
  <2>3. CASE u = t /\ WithId(db[t], b.id) = {}
    <3>1. asked[d].op = "enrol" /\ t = "members"
      BY <1>1, <1>3, <2>3, CallTables DEF There, Rows
    <3>2. new.id # b.id
      BY <2>3, <3>1 DEF Harmless, WithId
    <3>3. WithId(db'[u], b.id) = {}
      BY <2>3, <3>2, StoredIds DEF Gains
    <3>4. QED
      BY <3>3 DEF Agree
  <2>4. QED
    BY <2>1, <2>2, <2>3
<1>9. QED
  BY <1>3, <1>4, <1>5, <1>6, <1>7, <1>8 DEF There, Agree

(* ... a number that was taken is still the next one ...                    *)
LEMMA NumbersStay ==
  ASSUME NEW d \in DOMAIN asked, NEW t, NEW new, Gains(db, db', t, new), Harmless(d, t, new),
         asked' = asked, tx'[d] = tx[d], tx[d].at = "numbered", LockOK(d)
  PROVE  NumberOK(d)'
<1>1. Row(d)' = Row(d) /\ NumberOK(d) /\ {"events", "versions"} \subseteq DOMAIN Schema
  BY SchemaIs DEF Row, LockOK
<1>2. CASE asked[d].op = "append"
  <2>1. {e \in db'.events : e.run = Row(d).run} = {e \in db.events : e.run = Row(d).run}
    BY <1>1, <1>2 DEF Gains, Harmless, Holding, Stored, WithId
  <2>2. QED
    BY <1>1, <1>2, <2>1 DEF NumberOK, EventsOf
<1>3. CASE asked[d].op \in {"amend", "transition"}
  <2>1. {v \in db'.versions : v.memory = Row(d).id} = {v \in db.versions : v.memory = Row(d).id}
    BY <1>1, <1>3 DEF Gains, Harmless, Waits, Stored, WithId
  <2>2. QED
    BY <1>1, <1>3, <2>1 DEF NumberOK, VersionsOf
<1>4. QED
  BY <1>2, <1>3 DEF LockOK

(* ... a memory that a call locked, or found missing, is as it was ...      *)
LEMMA MemoryStays ==
  ASSUME NEW d \in DOMAIN asked, NEW t, NEW new, Gains(db, db', t, new), Harmless(d, t, new), Waits(d)
  PROVE  WithId(db'.memories, Row(d).id) = WithId(db.memories, Row(d).id)
<1>1. "memories" \in DOMAIN Schema
  BY SchemaIs
<1>2. CASE t = "memories"
  BY <1>1, <1>2, StoredIds DEF Gains, Harmless
<1>3. CASE t # "memories"
  BY <1>1, <1>3 DEF Gains
<1>4. QED
  BY <1>2, <1>3

(* ... so that the write leaves what holds of other transactions alone.     *)
LEMMA OthersStay ==
  ASSUME NEW d \in DOMAIN asked, NEW t, NEW new, Gains(db, db', t, new),
         Storable(db, asked, t, new), WorkOK(db, asked, Open), Harmless(d, t, new), TxOK(d),
         asked' = asked, tx'[d] = tx[d], Open' \subseteq Open
  PROVE  TxOK(d)'
<1>1. Row(d)' = Row(d)
  BY DEF Row
<1>2. Waits(d) /\ Lacking(d) => Lacking(d)'
  BY <1>1, MemoryStays DEF Lacking
<1>3. ASSUME tx[d].at = "found"
      PROVE  Found(d)'
  <2>1. Found(d)
    BY <1>3 DEF TxOK
  <2>2. \A b \in tx[d].seen : There(d, b)'
    BY <1>3, <2>1, ThereStays
  <2>3. \A b \in tx[d].seen : Known(d, b)'
    BY <2>1 DEF Found, Known, Stable, Shape, Row
  <2>4. asked[d].op = "amend" => Lacking(d)'
    BY <1>2, <1>3, <2>1 DEF Found, Waits
  <2>5. QED
    BY <1>1, <2>1, <2>2, <2>3, <2>4 DEF Found
<1>4. ASSUME tx[d].at = "absent"
      PROVE  asked[d].op = "amend" /\ Lacking(d)'
  BY <1>2, <1>4 DEF TxOK, Waits
<1>5. ASSUME Holding(d)
      PROVE  LockOK(d)'
  <2>1. LockOK(d)
    BY <1>5 DEF TxOK
  <2>2. tx[d].at = "numbered" => NumberOK(d)'
    BY <2>1, NumbersStay
  <2>3. asked[d].op \in {"amend", "transition"} =>
          WithId(db'.memories, Row(d).id) = WithId(db.memories, Row(d).id)
    BY <1>5, MemoryStays DEF Holding, Waits
  <2>4. QED
    BY <1>1, <2>1, <2>2, <2>3 DEF LockOK
<1>6. QED
  BY <1>3, <1>4, <1>5 DEF TxOK, Holding

(* How one transaction moves.                                              *)
Moves(c, next) ==
  /\ next = [at |-> next.at, seen |-> next.seen, no |-> next.no, tries |-> next.tries] /\ next.at \in Places
  /\ tx' = [tx EXCEPT ![c] = next] /\ UNCHANGED asked

(* What is asked of the work holds of the calls that are left of it.        *)
LEMMA FewerOpen ==
  ASSUME NEW tables, NEW calls, NEW open, NEW rest, rest \subseteq open, WorkOK(tables, calls, open)
  PROVE  WorkOK(tables, calls, rest)
<1>1. NumbersOK(tables, calls, rest)
  BY DEF WorkOK, NumbersOK
<1>2. IdentityOK(tables, calls, rest)
  <2>1. IdentityOK(tables, calls, open)
    BY DEF WorkOK
  <2>2. \A ops : Doing(calls, ops) \cap rest \subseteq Doing(calls, ops) \cap open
    OBVIOUS
  <2>3. QED
    BY <2>1, <2>2 DEF IdentityOK
<1>3. QED
  BY <1>1, <1>2 DEF WorkOK

(* What a move changes: the place of one transaction.                       *)
LEMMA MoveIs ==
  ASSUME NEW c \in DOMAIN asked, NEW next, SqlTyped, Moves(c, next)
  PROVE  /\ tx' = [d \in DOMAIN asked' |-> tx'[d]] /\ DOMAIN asked' = DOMAIN asked
         /\ tx'[c] = next /\ \A d \in DOMAIN asked \ {c} : tx'[d] = tx[d]
         /\ \A d \in DOMAIN asked' :
              /\ tx'[d] = [at |-> tx'[d].at, seen |-> tx'[d].seen, no |-> tx'[d].no, tries |-> tx'[d].tries]
              /\ tx'[d].at \in Places
         /\ Open' = IF next.at = "done" THEN Open \ {c} ELSE Open \cup {c}
<1>1. tx' = [d \in DOMAIN asked' |-> tx'[d]] /\ DOMAIN asked' = DOMAIN asked
  BY DEF Moves, SqlTyped
<1>2. tx'[c] = next /\ \A d \in DOMAIN asked \ {c} : tx'[d] = tx[d]
  BY DEF Moves, SqlTyped
<1>3. ASSUME NEW d \in DOMAIN asked
      PROVE  /\ tx'[d] = [at |-> tx'[d].at, seen |-> tx'[d].seen, no |-> tx'[d].no, tries |-> tx'[d].tries]
             /\ tx'[d].at \in Places
  BY <1>2 DEF Moves, SqlTyped
<1>4. Open' = IF next.at = "done" THEN Open \ {c} ELSE Open \cup {c}
  BY <1>1, <1>2 DEF Open
<1>5. QED
  BY <1>1, <1>2, <1>3, <1>4

(* An answer ends the transaction.                                         *)
LEMMA AnswerIs ==
  ASSUME NEW c \in DOMAIN asked, NEW is, NEW rows, is # "waiting", SqlTyped, Answer(c, is, rows)
  PROVE  /\ Moves(c, Over) /\ Open' = Open \ {c} /\ UNCHANGED <<asked, faults>>
         /\ answer' = [d \in DOMAIN asked' |-> answer'[d]]
         /\ \A d \in DOMAIN asked' : d \in Open' <=> answer'[d].is = "waiting"
<1>1. Moves(c, Over) /\ Over.at = "done" /\ UNCHANGED <<asked, faults>>
  BY DEF Answer, Moves, Over, Idle, Places
<1>2. Open' = Open \ {c}
  BY <1>1, MoveIs
<1>3. QED
  BY <1>1, <1>2 DEF Answer, SqlTyped

(* A transaction that takes no lock leaves the locks apart.                 *)
LEMMA LocksStay ==
  ASSUME NEW c \in DOMAIN asked, NEW next, SqlTyped, LocksDiffer, Moves(c, next),
         next.at \in {"locked", "numbered"} => Holding(c)
  PROVE  LocksDiffer'
<1>1. \A d \in DOMAIN asked : Holding(d)' => Holding(d)
  BY MoveIs DEF Holding
<1>2. asked' = asked /\ \A d \in DOMAIN asked : Row(d)' = Row(d)
  BY DEF Moves, Row
<1>3. QED
  BY <1>1, <1>2 DEF LocksDiffer

(* A step that writes nothing disturbs no other call.                      *)
LEMMA QuietStep ==
  ASSUME NEW d \in DOMAIN asked, TxOK(d), UNCHANGED <<db, asked>>, tx'[d] = tx[d], Open' \subseteq Open
  PROVE  TxOK(d)'
<1>1. Row(d)' = Row(d) /\ Rows(d)' = Rows(d) /\ Stable(d)' = Stable(d)
  BY DEF Row, Rows, Stable, Shape
<1>2. Removing => Removing'
  BY DEF Removing
<1>3. \A b : Known(d, b) => Known(d, b)'
  BY <1>1 DEF Known, Row
<1>4. \A b : There(d, b) => There(d, b)'
  BY <1>1, <1>2 DEF There
<1>5. Lacking(d)' = Lacking(d)
  BY <1>1 DEF Lacking
<1>6. Found(d) => Found(d)'
  BY <1>1, <1>3, <1>4, <1>5 DEF Found
<1>7. LockOK(d)' = LockOK(d)
  BY <1>1 DEF LockOK, NumberOK, EventsOf, VersionsOf
<1>8. QED
  BY <1>5, <1>6, <1>7 DEF TxOK, Holding

(* An answer without a write keeps the invariant ...                        *)
LEMMA SettledKeeps ==
  ASSUME NEW c \in DOMAIN asked, NEW is, NEW rows, is # "waiting", SqlInv, Answer(c, is, rows), UNCHANGED db
  PROVE  SqlInv'
<1>1. /\ Moves(c, Over) /\ Open' = Open \ {c} /\ UNCHANGED <<asked, faults>> /\ Over.at = "done"
      /\ answer' = [d \in DOMAIN asked' |-> answer'[d]]
      /\ \A d \in DOMAIN asked' : d \in Open' <=> answer'[d].is = "waiting"
  BY AnswerIs DEF SqlInv, Over, Idle
<1>2. SqlTyped'
  BY <1>1, MoveIs DEF SqlInv, SqlTyped
<1>3. WorkOK(db', asked', Open')
  BY <1>1, FewerOpen DEF SqlInv
<1>4. LocksDiffer'
  BY <1>1, LocksStay DEF SqlInv
<1>5. ASSUME NEW d \in DOMAIN asked
      PROVE  TxOK(d)'
  <2>1. CASE d = c
    BY <2>1, <1>1, MoveIs DEF TxOK, Holding, SqlInv
  <2>2. CASE d # c
    BY <2>2, <1>1, MoveIs, QuietStep DEF SqlInv
  <2>3. QED
    BY <2>1, <2>2
<1>6. QED
  BY <1>1, <1>2, <1>3, <1>4, <1>5 DEF SqlInv

(* ... so does a move that keeps the locks and its transaction in order ... *)
LEMMA MoveKeeps ==
  ASSUME NEW c \in DOMAIN asked, NEW next, SqlInv, c \in Open, Moves(c, next), next.at # "done",
         UNCHANGED <<db, answer>>, LocksDiffer', TxOK(c)'
  PROVE  SqlInv'
<1>1. Open' = Open /\ asked' = asked
  <2>1. Open' = IF next.at = "done" THEN Open \ {c} ELSE Open \cup {c}
    BY MoveIs DEF SqlInv
  <2>2. QED
    BY <2>1 DEF Moves
<1>2. SqlTyped'
  BY <1>1, MoveIs DEF SqlInv, SqlTyped
<1>3. WorkOK(db', asked', Open')
  BY <1>1 DEF SqlInv
<1>4. ASSUME NEW d \in DOMAIN asked
      PROVE  TxOK(d)'
  <2>1. CASE d # c
    BY <2>1, <1>1, MoveIs, QuietStep DEF SqlInv
  <2>2. QED
    BY <2>1
<1>5. QED
  BY <1>1, <1>2, <1>3, <1>4 DEF SqlInv

(* ... the tables stay in order when a row is stored ...                    *)
LEMMA GainKeepsWork ==
  ASSUME NEW tables, NEW after, NEW calls, NEW open, NEW rest, rest \subseteq open,
         NEW t, NEW new, Gains(tables, after, t, new), WorkOK(tables, calls, open),
         Storable(tables, calls, t, new), Unclaimed(calls, rest, t, new), NumbersOK(after, calls, rest)
  PROVE  WorkOK(after, calls, rest)
<1>1. \A u \in DOMAIN Schema : TableOK(after, u)
  BY GainKeepsTables DEF WorkOK
<1>2. IdentityOK(after, calls, rest)
  BY GainKeepsIdentity DEF WorkOK
<1>3. QED
  BY <1>1, <1>2 DEF WorkOK, Gains

(* ... and a write with its answer keeps the invariant.                     *)
LEMMA GainKeeps ==
  ASSUME NEW c \in DOMAIN asked, NEW is, NEW rows, is # "waiting", SqlInv, Answer(c, is, rows),
         NEW t, NEW new, Gains(db, db', t, new), Storable(db, asked, t, new),
         Unclaimed(asked, Open \ {c}, t, new), NumbersOK(db', asked, Open \ {c}),
         \A d \in DOMAIN asked \ {c} : Harmless(d, t, new)
  PROVE  SqlInv'
<1>1. /\ Moves(c, Over) /\ Open' = Open \ {c} /\ UNCHANGED <<asked, faults>> /\ Over.at = "done"
      /\ answer' = [d \in DOMAIN asked' |-> answer'[d]]
      /\ \A d \in DOMAIN asked' : d \in Open' <=> answer'[d].is = "waiting"
  BY AnswerIs DEF SqlInv, Over, Idle
<1>2. SqlTyped'
  BY <1>1, MoveIs DEF SqlInv, SqlTyped, Gains
<1>3. WorkOK(db', asked', Open')
  BY <1>1, GainKeepsWork DEF SqlInv
<1>4. LocksDiffer'
  BY <1>1, LocksStay DEF SqlInv
<1>5. ASSUME NEW d \in DOMAIN asked
      PROVE  TxOK(d)'
  <2>1. CASE d = c
    BY <2>1, <1>1, MoveIs DEF TxOK, Holding, SqlInv
  <2>2. CASE d # c
    BY <2>2, <1>1, MoveIs, OthersStay DEF SqlInv
  <2>3. QED
    BY <2>1, <2>2
<1>6. QED
  BY <1>1, <1>2, <1>3, <1>4, <1>5 DEF SqlInv

(* What the contract's note of call d is, of the place it is at.           *)
Sees(d, next) ==
  IF next.at # "found" THEN {}
  ELSE IF asked[d].op = "revoke" THEN {"live"}
  ELSE IF asked[d].op \in {"put", "enrol"} /\ next.seen = {} THEN {"absent"}
  ELSE UNION {{col \in DOMAIN b : Target(d, b)[col] = b[col]} : b \in next.seen}

(* A move changes the note of its own call, and no other's.                 *)
LEMMA NotedIs ==
  ASSUME NEW c \in DOMAIN asked, NEW next, SqlTyped, Moves(c, next)
  PROVE  /\ Noticed[c] = Sees(c, tx[c])
         /\ Noticed' = [Noticed EXCEPT ![c] = Sees(c, next)]
<1>1. asked' = asked /\ tx'[c] = next /\ \A d \in DOMAIN asked \ {c} : tx'[d] = tx[d]
  BY MoveIs DEF Moves
<1>2. \A d, b : Target(d, b)' = Target(d, b)
  BY <1>1 DEF Target, Assigned, Shape, Row
<1>3. Noticed = [d \in DOMAIN asked |-> Sees(d, tx[d])]
  BY DEF Noticed, Sees
<1>4. Noticed' = [d \in DOMAIN asked |-> Sees(d, tx'[d])]
  BY <1>1 DEF Noticed, Sees, Target, Assigned, Shape, Row
<1>5. QED
  BY <1>1, <1>3, <1>4

(* The contract reads the calls as the repository does.                     *)
LEMMA SameCall ==
  ASSUME NEW c
  PROVE  /\ Contract!Rows(c) = Rows(c) /\ Contract!Row(c) = Row(c)
         /\ Contract!Shape(c) = Contract!Catalogue[asked[c].table]
         /\ \A row : Contract!Write(c, row) <=> Write(c, row)
         /\ asked[c].op # "enrol" => Contract!Prior(c) = WithId(Rows(c), Row(c).id)
         /\ asked[c].op = "enrol" =>
              Contract!Prior(c) = {r \in Rows(c) : r.ws = Row(c).ws /\ r.principal = Row(c).principal}
  BY SameTables DEF Contract!Rows, Rows, Contract!Row, Row, Contract!Shape, Contract!Write, Write,
                    Contract!Prior, Contract!SameMember

(* An answer here is an answer there, if the call is under way.             *)
LEMMA ContractAnswers ==
  ASSUME NEW c \in DOMAIN asked, NEW is, NEW rows, is # "waiting", SqlTyped, c \in Open, Answer(c, is, rows)
  PROVE  Contract!Waiting(c) /\ Contract!Answer(c, is, rows)
<1>1. Moves(c, Over) /\ UNCHANGED <<asked, faults>> /\ Over.at = "done"
  BY AnswerIs DEF Over, Idle
<1>2. Noticed' = [Noticed EXCEPT ![c] = {}]
  BY <1>1, NotedIs DEF Sees
<1>3. QED
  BY <1>1, <1>2 DEF Answer, Contract!Answer, Contract!Reply, Contract!Waiting, SqlTyped

(* A refusal with a reason, a read that takes note, a move that does not.   *)
Denied(c) == Contract!Refusable(c) \/ Contract!SchemaRefuses(c)
LEMMA ContractRefuses ==
  ASSUME NEW c \in DOMAIN asked, SqlTyped, c \in Open, Refuse(c), Denied(c)
  PROVE  Contract!Next
<1>1. Contract!Waiting(c) /\ Contract!Answer(c, "refused", <<>>) /\ UNCHANGED db
  BY ContractAnswers DEF Refuse
<1>2. QED
  BY <1>1 DEF Denied, Contract!Refuse, Contract!Next

LEMMA ContractNotices ==
  ASSUME NEW c \in DOMAIN asked, NEW next, SqlTyped, c \in Open, Moves(c, next), UNCHANGED <<db, answer, faults>>,
         Sees(c, tx[c]) = {}, Sees(c, next) = Contract!Facts(c)
  PROVE  Contract!Next
<1>1. Noticed' = [Noticed EXCEPT ![c] = Noticed[c] \cup Contract!Facts(c)]
  BY NotedIs
<1>2. Contract!Waiting(c) /\ UNCHANGED asked
  BY DEF Contract!Waiting, SqlTyped, Moves
<1>3. QED
  BY <1>1, <1>2 DEF Contract!Notice, Contract!Next

LEMMA ContractStutters ==
  ASSUME NEW c \in DOMAIN asked, NEW next, SqlTyped, Moves(c, next), UNCHANGED <<db, answer, faults>>,
         Sees(c, tx[c]) = {}, Sees(c, next) = {}
  PROVE  UNCHANGED Contract!vars
<1>1. Noticed' = Noticed
  <2>1. Noticed' = [Noticed EXCEPT ![c] = Noticed[c]]
    BY NotedIs
  <2>2. DOMAIN Noticed = DOMAIN asked
    BY DEF Noticed
  <2>3. Noticed = [d \in DOMAIN asked |-> Noticed[d]]
    BY DEF Noticed
  <2>4. QED
    BY <2>1, <2>2, <2>3
<1>2. QED
  BY <1>1 DEF Contract!vars, Moves

(* What every step has to be: of the invariant, and of the contract.       *)
Good == SqlInv' /\ [Contract!Next]_(Contract!vars)

(* A transaction that has not ended is open.                                *)
LEMMA IsOpen ==
  ASSUME NEW c \in DOMAIN asked, tx[c].at # "done"
  PROVE  c \in Open
  BY DEF Open

(* Refusals, moves and reads are good, on the conditions above.             *)
LEMMA RefusalIsGood ==
  ASSUME NEW c \in DOMAIN asked, SqlInv, c \in Open, Refuse(c), Denied(c)
  PROVE  Good
<1>1. SqlInv'
  BY SettledKeeps DEF Refuse
<1>2. Contract!Next
  BY ContractRefuses DEF SqlInv
<1>3. QED
  BY <1>1, <1>2 DEF Good

LEMMA StutterIsGood ==
  ASSUME NEW c \in DOMAIN asked, NEW next, SqlInv, c \in Open, Moves(c, next), UNCHANGED <<db, answer, faults>>,
         Sees(c, tx[c]) = {}, Sees(c, next) = {}, next.at # "done", LocksDiffer', TxOK(c)'
  PROVE  Good
<1>1. SqlInv'
  BY MoveKeeps
<1>2. UNCHANGED Contract!vars
  BY ContractStutters DEF SqlInv
<1>3. QED
  BY <1>1, <1>2 DEF Good

LEMMA NoticeIsGood ==
  ASSUME NEW c \in DOMAIN asked, NEW next, SqlInv, c \in Open, Moves(c, next), UNCHANGED <<db, answer, faults>>,
         Sees(c, tx[c]) = {}, Sees(c, next) = Contract!Facts(c), ~Holding(c), next.at = "found", Found(c)'
  PROVE  Good
<1>1. LocksDiffer'
  BY LocksStay DEF SqlInv
<1>2. TxOK(c)'
  BY MoveIs DEF SqlInv, TxOK, Holding
<1>3. SqlInv'
  BY <1>1, <1>2, MoveKeeps
<1>4. Contract!Next
  BY ContractNotices DEF SqlInv
<1>5. QED
  BY <1>3, <1>4 DEF Good

(* A maintenance run that repeats an operation; a failing database.         *)
LEMMA RejectRepeatsIsGood ==
  ASSUME NEW c \in DOMAIN asked, SqlInv, RejectRepeats(c)
  PROVE  Good
<1>1. Denied(c)
  BY SameTables, SameCall DEF RejectRepeats, Is, Denied, Contract!Refusable
<1>2. QED
  BY <1>1, IsOpen, RefusalIsGood DEF RejectRepeats, Is

LEMMA AbortIsGood ==
  ASSUME NEW c \in DOMAIN asked, SqlInv, Abort(c)
  PROVE  Good
<1>1. /\ Moves(c, Over) /\ UNCHANGED <<asked, db>> /\ Over.at = "done"
      /\ c \in Open /\ answer' = [answer EXCEPT ![c] = [is |-> "refused", rows |-> <<>>]]
  <2>1. Over = [at |-> "done", seen |-> {}, no |-> 0, tries |-> 0]
    BY DEF Over, Idle
  <2>2. QED
    BY <2>1, IsOpen DEF Abort, Moves, Places
<1>2. Contract!Fail(c)
  <2>1. Noticed' = [Noticed EXCEPT ![c] = {}]
    BY <1>1, NotedIs DEF Sees, SqlInv
  <2>2. QED
    BY <1>1, <2>1 DEF Contract!Fail, Contract!Reply, Contract!Waiting, SqlInv, SqlTyped, Abort
<1>3. SqlInv'
  <2>1. Open' = Open \ {c}
    BY <1>1, MoveIs DEF SqlInv
  <2>2. SqlTyped'
    BY <1>1, <2>1, MoveIs DEF SqlInv, SqlTyped
  <2>3. WorkOK(db', asked', Open')
    BY <1>1, <2>1, FewerOpen DEF SqlInv
  <2>4. LocksDiffer'
    BY <1>1, LocksStay DEF SqlInv
  <2>5. ASSUME NEW d \in DOMAIN asked
        PROVE  TxOK(d)'
    <3>1. CASE d = c
      BY <3>1, <1>1, MoveIs DEF TxOK, Holding, SqlInv
    <3>2. CASE d # c
      BY <3>2, <1>1, <2>1, MoveIs, QuietStep DEF SqlInv
    <3>3. QED
      BY <3>1, <3>2
  <2>6. QED
    BY <1>1, <2>2, <2>3, <2>4, <2>5 DEF SqlInv
<1>4. QED
  BY <1>2, <1>3 DEF Good, Contract!Next

(* The reads.  What is read is a row as it is stored.                      *)
LEMMA ReadsAreRows ==
  ASSUME NEW c \in DOMAIN asked, SqlInv, NEW rows \in SUBSET Rows(c)
  PROVE  {Read(c, r) : r \in rows} = rows
<1>1. asked[c].table \in DOMAIN Schema
  BY CallTable DEF SqlInv, WorkOK
<1>2. \A r \in rows : Read(c, r) = r
  BY <1>1, RowIsItself DEF Read, Shape, Rows, SqlInv, WorkOK, TableOK
<1>3. QED
  BY <1>2

LEMMA SelectedReads ==
  ASSUME NEW c \in DOMAIN asked, SqlInv, NEW where
  PROVE  {Read(c, r) : r \in Selected(Rows(c), where)} = Selected(Rows(c), where)
<1> DEFINE rows == Selected(Rows(c), where)
<1>1. rows \in SUBSET Rows(c)
  BY DEF Selected
<1> HIDE DEF rows
<1>2. {Read(c, r) : r \in rows} = rows
  BY <1>1, ReadsAreRows
<1>3. QED
  BY <1>2 DEF rows

(* get_*.                                                                   *)
LEMMA GetIsGood ==
  ASSUME NEW c \in DOMAIN asked, SqlInv, Get(c)
  PROVE  Good
<1> DEFINE found == Selected(Rows(c), asked[c].where)
<1>1. c \in Open /\ asked[c].op = "get"
  BY IsOpen DEF Get, Is
<1>2. {Read(c, r) : r \in found} = found
  BY SelectedReads
<1>3. PICK is, rows :
        /\ Answer(c, is, rows) /\ UNCHANGED db /\ is # "waiting"
        /\ IF found = {} THEN is = "absent" /\ rows = <<>> ELSE is = "ok" /\ \E r \in found : rows = <<r>>
  BY <1>2 DEF Get
<1>4. Contract!Get(c)
  <2>1. Contract!Waiting(c) /\ Contract!Answer(c, is, rows)
    BY <1>1, <1>3, ContractAnswers DEF SqlInv
  <2>2. QED
    BY <1>1, <1>3, <2>1, SameCall, SameQueries DEF Contract!Get, Contract!Is
<1>5. SqlInv'
  BY <1>3, SettledKeeps
<1>6. QED
  BY <1>4, <1>5 DEF Good, Contract!Next

(* Two lists are ordered by other columns than in memory, and agree.        *)
LEMMA OrdersAgree ==
  ASSUME NEW c \in DOMAIN asked, SqlInv, asked[c].op = "list", NEW s,
         s \in Arranged(Selected(Rows(c), Filtered(asked[c].where, Shape(c).filters)), Shape(c).order)
  PROVE  s \in Arranged(Selected(Rows(c), Filtered(asked[c].where, Shape(c).filters)),
                        Contract!Catalogue[asked[c].table].order)
<1> DEFINE t == asked[c].table
           rows == Selected(Rows(c), Filtered(asked[c].where, Shape(c).filters))
<1>1. t \in DOMAIN Schema /\ CallOK(asked[c])
  BY CallTable DEF SqlInv, WorkOK
<1>2. CASE t \notin {"signals", "profile"}
  BY <1>1, <1>2, TablesMatch DEF Matches, Shape
<1>3. CASE t = "profile"
  <2>1. \A x, y : ~Before(<<>>, x, y)
    BY DEF Before
  <2>2. Contract!Catalogue[t].order = <<>>
    BY <1>3, SchemaIs DEF Contract!Profile, Contract!Listing, Contract!Plain
  <2>3. QED
    BY <2>1, <2>2 DEF Arranged
<1>4. CASE t = "signals"
  <2>1. Contract!Catalogue[t].order = <<"ws", "id">> /\ Shape(c).order = <<"id">> /\ Shape(c).filters = {"ws", "id"}
    BY <1>4, SchemaIs DEF Contract!Signals, Contract!Listing, Contract!Plain, Shape, Signals, Table
  <2>2. PICK ws \in Nat : "ws" \in DOMAIN asked[c].where /\ asked[c].where.ws = {ws}
    BY <1>1, <1>4 DEF CallOK
  <2>3. \A r \in rows : r.ws = ws
    BY <2>1, <2>2 DEF Selected, Filtered, Accepts
  <2>4. \A x, y \in rows : Before(<<"ws", "id">>, x, y) => x.ws < y.ws \/ x.id < y.id
    BY DEF Before
  <2>5. \A x, y \in rows : x.id < y.id => Before(<<"id">>, x, y)
    BY DEF Before
  <2>6. \A x, y \in rows : Before(<<"ws", "id">>, x, y) => Before(<<"id">>, x, y)
    BY <2>3, <2>4, <2>5
  <2>7. QED
    BY <2>1, <2>6 DEF Arranged
<1>5. QED
  BY <1>2, <1>3, <1>4

(* list_*, and list_candidate_memories.                                     *)
LEMMA ListIsGood ==
  ASSUME NEW c \in DOMAIN asked, SqlInv, List(c)
  PROVE  Good
<1> DEFINE where == Filtered(asked[c].where, Shape(c).filters)
           found == Arranged(Selected(Rows(c), where), Shape(c).order)
           K == Contract!Catalogue[asked[c].table]
<1>1. c \in Open /\ asked[c].op = "list" /\ asked[c].table \in DOMAIN Schema
  BY IsOpen, CallTable DEF List, Is, SqlInv, WorkOK
<1>2. Shape(c).paged = K.paged /\ Shape(c).filters = K.filters
  BY <1>1, TablesMatch DEF Shape, Matches
<1>3. {Read(c, r) : r \in Selected(Rows(c), where)} = Selected(Rows(c), where)
  BY SelectedReads
<1>4. found \subseteq Contract!Arranged(Contract!Selected(Contract!Rows(c), where), K.order)
  BY <1>1, OrdersAgree, SameQueries, SameCall
<1>5. CASE Shape(c).paged /\ ~PageOK(asked[c].offset, asked[c].limit, MaxPage)
  <2>1. Denied(c)
    BY <1>1, <1>2, <1>5, SameCall, SameQueries DEF Denied, Contract!Refusable, Contract!SchemaRefuses
  <2>2. Refuse(c)
    BY <1>5 DEF List
  <2>3. QED
    BY <1>1, <2>1, <2>2, RefusalIsGood
<1>6. CASE ~Shape(c).paged \/ PageOK(asked[c].offset, asked[c].limit, MaxPage)
  <2>1. PICK rows \in found :
          /\ UNCHANGED db
          /\ Answer(c, "ok", IF Shape(c).paged THEN Page(rows, asked[c].offset, asked[c].limit) ELSE rows)
    BY <1>3, <1>6 DEF List
  <2>2. SqlInv'
    BY <2>1, SettledKeeps
  <2>3. /\ Contract!Waiting(c)
        /\ Contract!Answer(c, "ok", IF Shape(c).paged THEN Page(rows, asked[c].offset, asked[c].limit) ELSE rows)
    BY <1>1, <2>1, ContractAnswers DEF SqlInv
  <2>4. Contract!List(c)
    <3> HIDE DEF found, where
    <3>1. Contract!Shape(c) = K
      BY SameCall
    <3>2. Contract!Filtered(asked[c].where, K.filters) = where
      BY <1>2, SameQueries DEF where
    <3>3. rows \in Contract!Arranged(Contract!Selected(Contract!Rows(c), where), K.order)
      BY <1>4, <2>1
    <3>4. Contract!Page(rows, asked[c].offset, asked[c].limit) = Page(rows, asked[c].offset, asked[c].limit)
      BY SameQueries
    <3>5. K.paged => Contract!PageOK(asked[c].offset, asked[c].limit, MaxPage)
      BY <1>2, <1>6, SameQueries
    <3>6. QED
      BY <1>1, <1>2, <2>1, <2>3, <3>1, <3>2, <3>3, <3>4, <3>5 DEF Contract!List, Contract!Is
  <2>5. QED
    BY <1>1, <2>2, <2>4 DEF Good, Contract!Next
<1>7. QED
  BY <1>5, <1>6

LEMMA CandidateMemoriesIsGood ==
  ASSUME NEW c \in DOMAIN asked, SqlInv, CandidateMemories(c)
  PROVE  Good
<1> DEFINE chosen == {m \in db.memories : m.ws \in asked[c].ws /\ (m.id \in asked[c].ids \/ m.type \in asked[c].types)}
           here == {m \in db.memories : m.ws \in asked[c].ws}
<1>1. c \in Open /\ asked[c].op = "candidates"
  BY IsOpen DEF CandidateMemories, Is
<1>2. asked[c].table = "memories"
  BY <1>1, CallTables DEF SqlInv, WorkOK
<1>3. {Read(c, m) : m \in chosen} = chosen
  <2>1. chosen \in SUBSET Rows(c)
    BY <1>2 DEF Rows
  <2>2. QED
    BY <2>1, ReadsAreRows
<1>4. PICK rows \in Arranged(chosen, <<"created">>) : Answer(c, "ok", rows) /\ UNCHANGED db
  BY <1>3 DEF CandidateMemories
<1>5. chosen = {m \in here : m.id \in asked[c].ids} \cup {m \in here : m.type \in asked[c].types}
  OBVIOUS
<1>6. Contract!Waiting(c) /\ Contract!Answer(c, "ok", rows)
  BY <1>1, <1>4, ContractAnswers DEF SqlInv
<1>7. Contract!Candidates(c)
  BY <1>1, <1>4, <1>5, <1>6, SameQueries DEF Contract!Candidates, Contract!Is
<1>8. SqlInv'
  BY <1>4, SettledKeeps
<1>9. QED
  BY <1>7, <1>8 DEF Good, Contract!Next

(* Rows are deleted from the limits and the memberships alone.             *)
LEMMA RemoveKeepsWork ==
  ASSUME NEW tables, NEW after, NEW calls, NEW open, NEW rest, rest \subseteq open, WorkOK(tables, calls, open),
         NEW t \in {"limits", "members"}, after = [u \in DOMAIN Schema |-> after[u]],
         after[t] \subseteq tables[t], \A u \in DOMAIN Schema \ {t} : after[u] = tables[u]
  PROVE  WorkOK(after, calls, rest)
<1>1. {"runs", "events", "versions", "members", "audits", "memories", "limits"} \subseteq DOMAIN Schema
  BY SchemaIs
<1>2. \A u \in DOMAIN Schema : after[u] \subseteq tables[u]
  OBVIOUS
<1>3. /\ after.runs = tables.runs /\ after.events = tables.events /\ after.versions = tables.versions
      /\ after.audits = tables.audits /\ after.memories = tables.memories
  BY <1>1
<1>4. ASSUME NEW u \in DOMAIN Schema
      PROVE  TableOK(after, u)
  <2>1. TableOK(tables, u)
    BY DEF WorkOK
  <2>2. \A r \in after[u] : Fits(after[u], Schema[u].unique, r)
    BY <1>2, <2>1 DEF TableOK, Fits
  <2>3. QED
    BY <1>2, <1>3, <2>1, <2>2 DEF TableOK
<1>5. NumbersOK(after, calls, rest)
  BY <1>3, FewerOpen DEF WorkOK, NumbersOK
<1>6. IdentityOK(after, calls, rest)
  <2>1. IdentityOK(tables, calls, rest)
    BY FewerOpen DEF WorkOK
  <2>2. \A u \in DOMAIN Schema : Alike(after[u] \cup PutRows(calls, u), u)
    <3>1. ASSUME NEW u \in DOMAIN Schema
          PROVE  Alike(after[u] \cup PutRows(calls, u), u)
      <4>1. Alike(tables[u] \cup PutRows(calls, u), u)
        BY <2>1 DEF IdentityOK
      <4>2. \A r \in after[u] \cup PutRows(calls, u) : r \in tables[u] \cup PutRows(calls, u)
        BY <1>2
      <4>3. QED
        BY <4>1, <4>2 DEF Alike
    <3>2. QED
      BY <3>1
  <2>3. QED
    BY <1>1, <1>2, <1>3, <2>1, <2>2 DEF IdentityOK
<1>7. QED
  BY <1>4, <1>5, <1>6 DEF WorkOK

(* delete_*.                                                                *)
LEMMA RemoveIsGood ==
  ASSUME NEW c \in DOMAIN asked, SqlInv, Remove(c)
  PROVE  Good
<1> DEFINE t == asked[c].table
<1>1. c \in Open /\ asked[c].op = "remove" /\ Answer(c, "ok", <<>>)
  BY IsOpen DEF Remove, Is
<1>2. t \in {"limits", "members"} /\ t \in DOMAIN Schema
  BY <1>1, CallTables, SchemaIs DEF SqlInv, WorkOK
<1>3. /\ db' = [u \in DOMAIN Schema |-> db'[u]]
      /\ db'[t] = {r \in db[t] : r.id # asked[c].id} /\ \A u \in (DOMAIN Schema) \ {t} : db'[u] = db[u]
  BY <1>2 DEF Remove, SqlInv, SqlTyped
<1>4. /\ Moves(c, Over) /\ Open' = Open \ {c} /\ UNCHANGED <<asked, faults>> /\ Over.at = "done"
      /\ answer' = [d \in DOMAIN asked' |-> answer'[d]]
      /\ \A d \in DOMAIN asked' : d \in Open' <=> answer'[d].is = "waiting"
  BY <1>1, AnswerIs DEF SqlInv, Over, Idle
<1>5. SqlTyped'
  BY <1>3, <1>4, MoveIs DEF SqlInv, SqlTyped
<1>6. WorkOK(db', asked', Open')
  <2>1. db'[t] \subseteq db[t]
    BY <1>3
  <2>2. QED
    BY <1>2, <1>3, <1>4, <2>1, RemoveKeepsWork DEF SqlInv
<1>7. LocksDiffer'
  BY <1>4, LocksStay DEF SqlInv
<1>8. ASSUME NEW d \in (DOMAIN asked) \ {c}
      PROVE  TxOK(d)'
  <2>1. TxOK(d) /\ tx'[d] = tx[d] /\ CallOK(asked[d])
    BY <1>4, MoveIs DEF SqlInv, WorkOK
  <2>2. Row(d)' = Row(d) /\ Stable(d)' = Stable(d) /\ Rows(d)' = db'[asked[d].table]
    BY <1>4 DEF Row, Rows, Stable, Shape
  <2>3. Removing'
    BY <1>1, <1>4 DEF Removing
  <2>4. \A b : Known(d, b) => Known(d, b)'
    BY <1>4, <2>1, <2>2 DEF Known, Row
  <2>5. ASSUME NEW b, There(d, b), asked[d].op \in {"put", "enrol", "update", "revoke", "amend"}
        PROVE  There(d, b)'
    <3>1. asked[d].op # "enrol" => Rows(d)' = Rows(d)
      BY <1>2, <1>3, <2>1, <2>2, <2>5, CallTables, CallTable DEF Rows
    <3>2. Rows(d)' \subseteq Rows(d)
      BY <1>2, <1>3, <2>1, <2>2, CallTable DEF Rows
    <3>3. QED
      BY <1>4, <2>2, <2>3, <2>5, <3>1, <3>2 DEF There, WithId
  <2>6. Lacking(d)' = Lacking(d)
    BY <1>2, <1>3, <2>1, <2>2, SchemaIs DEF Lacking
  <2>7. Found(d) => Found(d)'
    BY <1>4, <2>1, <2>2, <2>4, <2>5, <2>6 DEF Found
  <2>8. LockOK(d)' = LockOK(d)
    <3>1. db'.events = db.events /\ db'.versions = db.versions /\ db'.memories = db.memories
      BY <1>2, <1>3, SchemaIs
    <3>2. QED
      BY <1>4, <2>1, <2>2, <3>1 DEF LockOK, NumberOK, EventsOf, VersionsOf
  <2>9. QED
    BY <1>4, <2>1, <2>6, <2>7, <2>8 DEF TxOK, Holding
<1>9. TxOK(c)'
  BY <1>4, MoveIs DEF TxOK, Holding, SqlInv
<1>10. SqlInv'
  BY <1>4, <1>5, <1>6, <1>7, <1>8, <1>9 DEF SqlInv
<1>11. Contract!Remove(c)
  <2>1. Contract!Waiting(c) /\ Contract!Answer(c, "ok", <<>>)
    BY <1>1, ContractAnswers DEF SqlInv
  <2>2. \A rows : rows \ WithId(rows, asked[c].id) = {r \in rows : r.id # asked[c].id}
    BY DEF WithId
  <2>3. db' = [db EXCEPT ![t] = @ \ WithId(@, asked[c].id)]
    BY <2>2 DEF Remove
  <2>4. QED
    BY <1>1, <2>1, <2>3, SameTables DEF Contract!Remove, Contract!Is
<1>12. QED
  BY <1>10, <1>11 DEF Good, Contract!Next

(* Numbers.                                                                *)
LEMMA LastNumber ==
  ASSUME NEW rows, Numbers(rows)
  PROVE  /\ Cardinality(rows) \in Nat
         /\ Max({0} \cup {r.no : r \in rows}) = Cardinality(rows)
<1>1. Cardinality(rows) \in Nat
  BY FS_CardinalityType DEF Numbers
<1> DEFINE n == Cardinality(rows)
           S == {0} \cup {r.no : r \in rows}
<1>2. S = 0..n
  BY <1>1 DEF Numbers
<1>3. n \in S /\ \A y \in S : n >= y
  BY <1>1, <1>2
<1>4. \A x \in S : (\A y \in S : x >= y) => x = n
  BY <1>1, <1>2, <1>3
<1>5. QED
  BY <1>1, <1>3, <1>4 DEF Max

(* No rows: the next number is the first.                                   *)
LEMMA NumbersOfNone == Numbers({})
  BY FS_EmptySet DEF Numbers

(* The events of a run and the versions of a memory: numbered from one.     *)
LEMMA RunNumbers ==
  ASSUME NEW c \in DOMAIN asked, WorkOK(db, asked, Open), asked[c].op = "append", NEW run
  PROVE  Numbers(EventsOf(run)) /\ PutRows(asked, "events") = {}
<1>1. c \in Doing(asked, {"append"})
  BY DEF Doing
<1>2. PutRows(asked, "events") = {} /\ \A m \in {e.run : e \in db.events} : Numbers({e \in db.events : e.run = m})
  BY <1>1 DEF WorkOK, NumbersOK
<1>3. run \notin {e.run : e \in db.events} => EventsOf(run) = {}
  BY DEF EventsOf
<1>4. QED
  BY <1>2, <1>3, NumbersOfNone DEF EventsOf

LEMMA MemoryNumbers ==
  ASSUME NEW c \in DOMAIN asked, WorkOK(db, asked, Open), asked[c].op \in {"amend", "transition"}, NEW m
  PROVE  Numbers(VersionsOf(m)) /\ PutRows(asked, "versions") = {}
<1>1. c \in Doing(asked, {"amend", "transition"})
  BY DEF Doing
<1>2. /\ PutRows(asked, "versions") = {}
      /\ \A k \in {v.memory : v \in db.versions} : Numbers({v \in db.versions : v.memory = k})
  BY <1>1 DEF WorkOK, NumbersOK
<1>3. m \notin {v.memory : v \in db.versions} => VersionsOf(m) = {}
  BY DEF VersionsOf
<1>4. QED
  BY <1>2, <1>3, NumbersOfNone DEF VersionsOf

(* A transaction reaches a place.                                          *)
Entry(stage, seen, no, tries) == [at |-> stage, seen |-> seen, no |-> no, tries |-> tries]

(* A change of two fields of a transaction, as one entry.                   *)
LEMMA SeenPlaced ==
  ASSUME NEW c \in DOMAIN asked, SqlTyped, NEW stage, NEW seen
  PROVE  [tx EXCEPT ![c].at = stage, ![c].seen = seen] = [tx EXCEPT ![c] = Entry(stage, seen, tx[c].no, tx[c].tries)]
<1>1. PICK x, y, z, w : tx[c] = Entry(x, y, z, w)
  BY DEF SqlTyped, Entry
<1>2. tx[c].at = x /\ tx[c].seen = y /\ tx[c].no = z /\ tx[c].tries = w
  BY <1>1 DEF Entry
<1>3. [tx[c] EXCEPT !.at = stage, !.seen = seen] = Entry(stage, seen, z, w)
  <2>1. [tx[c] EXCEPT !.at = stage] = Entry(stage, y, z, w)
    BY <1>1 DEF Entry
  <2>2. [Entry(stage, y, z, w) EXCEPT !.seen = seen] = Entry(stage, seen, z, w)
    BY DEF Entry
  <2>3. [tx[c] EXCEPT !.at = stage, !.seen = seen] = [[tx[c] EXCEPT !.at = stage] EXCEPT !.seen = seen]
    BY <1>1 DEF Entry
  <2>4. QED
    BY <2>1, <2>2, <2>3
<1>4. [tx EXCEPT ![c].at = stage, ![c].seen = seen] = [tx EXCEPT ![c] = [tx[c] EXCEPT !.at = stage, !.seen = seen]]
  BY DEF SqlTyped
<1>5. QED
  BY <1>2, <1>3, <1>4

(* Reach moves one transaction.                                             *)
LEMMA ReachIs ==
  ASSUME NEW c \in DOMAIN asked, NEW stage \in Places, NEW seen, SqlTyped, Reach(c, stage, seen)
  PROVE  /\ Moves(c, Entry(stage, seen, tx[c].no, tx[c].tries)) /\ UNCHANGED <<db, answer, faults>>
<1>1. tx' = [tx EXCEPT ![c] = Entry(stage, seen, tx[c].no, tx[c].tries)]
  BY SeenPlaced DEF Reach
<1>2. QED
  BY <1>1 DEF Reach, Moves, Entry

(* append_event locks the numbering of its run.                             *)
LEMMA LockRunIsGood ==
  ASSUME NEW c \in DOMAIN asked, SqlInv, LockRun(c)
  PROVE  Good
<1> DEFINE next == Entry("locked", {}, tx[c].no, tx[c].tries)
<1>1. c \in Open /\ asked[c].op = "append" /\ tx[c].at = "start" /\ ~Numbering(Row(c).run)
  BY IsOpen DEF LockRun, Is
<1>2. Moves(c, next) /\ UNCHANGED <<db, answer, faults>> /\ next.at = "locked"
  BY ReachIs DEF LockRun, Places, SqlInv, Entry
<1> HIDE DEF next
<1>3. /\ asked' = asked /\ tx'[c] = next /\ \A d \in DOMAIN asked : Row(d)' = Row(d)
      /\ \A d \in (DOMAIN asked) \ {c} : tx'[d] = tx[d]
  BY <1>2, MoveIs DEF SqlInv, Moves, Row
<1>4. LocksDiffer'
  <2>1. \A d \in (DOMAIN asked) \ {c} : Holding(d)' <=> Holding(d)
    BY <1>3 DEF Holding
  <2>2. \A d \in (DOMAIN asked) \ {c} : Holding(d) /\ asked[d].op = "append" => Row(d).run # Row(c).run
    BY <1>1 DEF Numbering, Holding, SqlInv, SqlTyped
  <2>3. QED
    BY <1>1, <1>3, <2>1, <2>2 DEF LocksDiffer, SqlInv
<1>5. TxOK(c)'
  BY <1>1, <1>2, <1>3 DEF TxOK, LockOK, Holding
<1>6. Sees(c, tx[c]) = {} /\ Sees(c, next) = {}
  BY <1>1, <1>2 DEF Sees
<1>7. QED
  BY <1>1, <1>2, <1>4, <1>5, <1>6, StutterIsGood

(* A memory is locked, or found missing, or refused as stale.               *)
LEMMA LockRowIsGood ==
  ASSUME NEW c \in DOMAIN asked, SqlInv, LockRow(c)
  PROVE  Good
<1> DEFINE rows == WithId(db.memories, Row(c).id)
           stage == IF rows = {} THEN "absent" ELSE "locked"
           next == Entry(stage, rows, tx[c].no, tx[c].tries)
           stale == asked[c].op = "transition" /\ \A m \in rows : m.status # asked[c].from
<1>1. c \in Open /\ asked[c].op \in {"amend", "transition"} /\ tx[c].at = "start" /\ ~Locked(Row(c).id)
  BY IsOpen DEF LockRow, Is
<1>2. asked[c].table = "memories"
  BY <1>1, CallTables DEF SqlInv, WorkOK
<1>3. CASE stale
  <2>1. Denied(c)
    BY <1>1, <1>2, <1>3, SameCall DEF Denied, Contract!Refusable, Contract!SchemaRefuses, Rows
  <2>2. Refuse(c)
    BY <1>3 DEF LockRow
  <2>3. QED
    BY <1>1, <2>1, <2>2, RefusalIsGood
<1>4. CASE ~stale
  <2>1. Moves(c, next) /\ UNCHANGED <<db, answer, faults>> /\ next.at = stage /\ next.seen = rows
    <3>1. Reach(c, stage, rows) /\ stage \in Places
      BY <1>4 DEF LockRow, Places
    <3>2. QED
      BY <3>1, ReachIs DEF SqlInv, Entry
  <2>2. asked[c].op = "transition" => rows # {} /\ \A b \in rows : b.status = asked[c].from
    <3>1. \A r, s \in db.memories : r.id = s.id => r = s
      BY SchemaIs DEF SqlInv, WorkOK, TableOK
    <3>2. \A r, s \in rows : r = s
      BY <3>1 DEF WithId
    <3>3. QED
      BY <1>4, <3>2
  <2> HIDE DEF next
  <2>3. /\ asked' = asked /\ tx'[c] = next /\ \A d \in DOMAIN asked : Row(d)' = Row(d)
        /\ \A d \in (DOMAIN asked) \ {c} : tx'[d] = tx[d]
    BY <2>1, MoveIs DEF SqlInv, Moves, Row
  <2>4. LocksDiffer'
    <3>1. \A d \in (DOMAIN asked) \ {c} : Holding(d)' <=> Holding(d)
      BY <2>3 DEF Holding
    <3>2. \A d \in (DOMAIN asked) \ {c} : Holding(d) /\ asked[d].op # "append" => Row(d).id # Row(c).id
      <4>1. ASSUME NEW d \in (DOMAIN asked) \ {c}, Holding(d), asked[d].op # "append"
            PROVE  Row(d).id # Row(c).id
        <5>1. LockOK(d)
          BY <4>1 DEF SqlInv, TxOK
        <5>2. QED
          BY <1>1, <4>1, <5>1 DEF Locked, Holding, SqlInv, SqlTyped, LockOK
      <4>2. QED
        BY <4>1
    <3>3. QED
      BY <1>1, <2>3, <3>1, <3>2 DEF LocksDiffer, SqlInv
  <2>5. TxOK(c)'
    BY <1>1, <2>1, <2>2, <2>3 DEF TxOK, LockOK, Holding, Lacking
  <2>6. Sees(c, tx[c]) = {} /\ Sees(c, next) = {} /\ next.at # "done"
    BY <1>1, <2>1 DEF Sees
  <2>7. QED
    BY <1>1, <2>1, <2>4, <2>5, <2>6, StutterIsGood
<1>5. QED
  BY <1>3, <1>4

(* A number taken under a lock is the next one.                             *)
LEMMA NumberTaken ==
  ASSUME NEW c \in DOMAIN asked, NEW no, SqlInv, tx[c].at = "locked",
         tx' = [tx EXCEPT ![c].at = "numbered", ![c].no = no], UNCHANGED <<db, asked, answer, faults>>,
         no = 1 + Cardinality(IF asked[c].op = "append" THEN EventsOf(Row(c).run) ELSE VersionsOf(Row(c).id))
  PROVE  Good
<1> DEFINE next == Entry("numbered", tx[c].seen, no, tx[c].tries)
<1>1. c \in Open /\ Holding(c) /\ LockOK(c)
  BY IsOpen DEF Holding, SqlInv, TxOK
<1>2. Moves(c, next) /\ next.at = "numbered" /\ next.seen = tx[c].seen /\ next.no = no
  <2>1. tx' = [tx EXCEPT ![c] = next]
    <3>0. SqlTyped
      BY DEF SqlInv
    <3>1. PICK x, y, z, w : tx[c] = Entry(x, y, z, w)
      BY <3>0 DEF SqlTyped, Entry
    <3>2. tx[c].at = x /\ tx[c].seen = y /\ tx[c].no = z /\ tx[c].tries = w
      BY <3>1 DEF Entry
    <3>3. [tx[c] EXCEPT !.at = "numbered", !.no = no] = Entry("numbered", y, no, w)
      <4>1. [tx[c] EXCEPT !.at = "numbered"] = Entry("numbered", y, z, w)
        BY <3>1 DEF Entry
      <4>2. [Entry("numbered", y, z, w) EXCEPT !.no = no] = Entry("numbered", y, no, w)
        BY DEF Entry
      <4>3. [tx[c] EXCEPT !.at = "numbered", !.no = no] = [[tx[c] EXCEPT !.at = "numbered"] EXCEPT !.no = no]
        BY <3>1 DEF Entry
      <4>4. QED
        BY <4>1, <4>2, <4>3
    <3>4. tx' = [tx EXCEPT ![c] = [tx[c] EXCEPT !.at = "numbered", !.no = no]]
      BY <3>0 DEF SqlTyped
    <3>5. QED
      BY <3>2, <3>3, <3>4
  <2>2. QED
    BY <2>1 DEF Moves, Places, Entry
<1> HIDE DEF next
<1>3. asked' = asked /\ tx'[c] = next /\ Row(c)' = Row(c)
  BY <1>2, MoveIs DEF SqlInv, Row
<1>4. LocksDiffer'
  BY <1>1, <1>2, LocksStay DEF SqlInv
<1>5. TxOK(c)'
  <2>1. NumberOK(c)'
    BY <1>2, <1>3 DEF NumberOK, EventsOf, VersionsOf
  <2>2. LockOK(c)'
    BY <1>1, <1>2, <1>3, <2>1 DEF LockOK
  <2>3. QED
    BY <1>2, <1>3, <2>2 DEF TxOK
<1>6. Sees(c, tx[c]) = {} /\ Sees(c, next) = {}
  BY <1>2 DEF Sees
<1>7. QED
  BY <1>1, <1>2, <1>4, <1>5, <1>6, StutterIsGood

(* Reading the last number: of the events of a run, of the versions.        *)
LEMMA ReadMaxIsGood ==
  ASSUME NEW c \in DOMAIN asked, SqlInv, ReadMax(c)
  PROVE  Good
<1>1. asked[c].op = "append" /\ tx[c].at = "locked"
  BY DEF ReadMax, Is
<1>2. Numbers(EventsOf(Row(c).run))
  BY <1>1, RunNumbers DEF SqlInv
<1>3. /\ Cardinality(EventsOf(Row(c).run)) \in Nat
      /\ Max({0} \cup {e.no : e \in EventsOf(Row(c).run)}) = Cardinality(EventsOf(Row(c).run))
  BY <1>2, LastNumber
<1>4. /\ tx' = [tx EXCEPT ![c].at = "numbered", ![c].no = 1 + Cardinality(EventsOf(Row(c).run))]
      /\ UNCHANGED <<db, asked, answer, faults>>
  <2>1. Max({0} \cup {e.no : e \in {e \in db.events : e.run = Row(c).run}}) + 1 = 1 + Cardinality(EventsOf(Row(c).run))
    BY <1>3 DEF EventsOf
  <2>2. QED
    BY <2>1 DEF ReadMax
<1>5. QED
  BY <1>1, <1>4, NumberTaken

LEMMA NumberVersionIsGood ==
  ASSUME NEW c \in DOMAIN asked, SqlInv, NumberVersion(c)
  PROVE  Good
<1>1. asked[c].op \in {"amend", "transition"} /\ tx[c].at = "locked"
  BY DEF NumberVersion, Is
<1>2. Numbers(VersionsOf(Row(c).id))
  BY <1>1, MemoryNumbers DEF SqlInv
<1>3. /\ Cardinality(VersionsOf(Row(c).id)) \in Nat
      /\ Max({0} \cup {v.no : v \in VersionsOf(Row(c).id)}) = Cardinality(VersionsOf(Row(c).id))
  BY <1>2, LastNumber
<1>4. /\ tx' = [tx EXCEPT ![c].at = "numbered", ![c].no = 1 + Cardinality(VersionsOf(Row(c).id))]
      /\ UNCHANGED <<db, asked, answer, faults>>
  <2>1. Max({0} \cup {v.no : v \in {v \in db.versions : v.memory = Row(c).id}}) + 1 = 1 + Cardinality(VersionsOf(Row(c).id))
    BY <1>3 DEF VersionsOf
  <2>2. QED
    BY <2>1 DEF NumberVersion
<1>5. QED
  BY <1>1, <1>4, NumberTaken

(* A row with one column changed is a row.                                  *)
LEMMA RowExcept ==
  ASSUME NEW t, NEW row, NEW x \in Schema[t].columns, NEW v, IsRow(t, row)
  PROVE  /\ IsRow(t, [row EXCEPT ![x] = v]) /\ [row EXCEPT ![x] = v][x] = v
         /\ \A col \in Schema[t].columns \ {x} : [row EXCEPT ![x] = v][col] = row[col]
  BY DEF IsRow

(* A write to a table stores a row in it, and in no other.                  *)
LEMMA StoredTable ==
  ASSUME NEW t \in DOMAIN Schema, NEW new, SqlTyped, db' = [db EXCEPT ![t] = Stored(@, new)]
  PROVE  Gains(db, db', t, new)
  BY DEF Gains, SqlTyped

(* No number is given where rows are put.                                   *)
LEMMA SameNumbers ==
  ASSUME NEW tables, NEW after, NEW calls, NEW open, NEW rest, rest \subseteq open, NEW t, NEW new,
         Gains(tables, after, t, new), NumbersOK(tables, calls, open),
         t = "events" => Doing(calls, {"append"}) = {},
         t = "versions" => Doing(calls, {"amend", "transition"}) = {}
  PROVE  NumbersOK(after, calls, rest)
<1>1. {"events", "versions"} \subseteq DOMAIN Schema
  BY SchemaIs
<1>2. Doing(calls, {"append"}) # {} => after.events = tables.events
  BY <1>1 DEF Gains
<1>3. Doing(calls, {"amend", "transition"}) # {} => after.versions = tables.versions
  BY <1>1 DEF Gains
<1>4. QED
  BY <1>2, <1>3 DEF NumbersOK

(* A stored memory that nobody has locked is no waiting call's.            *)
LEMMA NobodyWaits ==
  ASSUME NEW id, SqlInv, ~Locked(id), WithId(db.memories, id) # {}, NEW d \in DOMAIN asked, Waits(d)
  PROVE  Row(d).id # id
<1>1. TxOK(d) /\ d \in DOMAIN tx
  BY DEF SqlInv, SqlTyped
<1>2. CASE tx[d].at \in {"locked", "numbered"}
  BY <1>1, <1>2 DEF Locked, Waits
<1>3. CASE tx[d].at \in {"found", "absent"}
  BY <1>1, <1>3 DEF TxOK, Found, Lacking, Waits
<1>4. QED
  BY <1>2, <1>3 DEF Waits

(* increment_access.                                                        *)
LEMMA BumpIsGood ==
  ASSUME NEW c \in DOMAIN asked, SqlInv, Bump(c)
  PROVE  Good
<1> DEFINE id == asked[c].id
           counted(m) == [m EXCEPT !.access = @ + 1]
<1>1. c \in Open /\ asked[c].op = "bump" /\ ~Locked(id) /\ Answer(c, "ok", <<>>)
  BY IsOpen DEF Bump, Is
<1>2. "memories" \in DOMAIN Schema /\ Schema["memories"] = Memories /\ TableOK(db, "memories") /\ WorkOK(db, asked, Open)
  BY SchemaIs DEF SqlInv, WorkOK
<1>3. "access" \in Memories.columns /\ "id" \in Memories.columns /\ Memories.unique = {} /\ Memories.compared = {}
      /\ ~Memories.refers
  BY DEF Memories, Table, MemoryColumns
<1>4. SqlInv'
  <2>1. CASE WithId(db.memories, id) = {}
    <3>1. \A m \in db.memories : (IF m.id = id THEN counted(m) ELSE m) = m
      BY <2>1 DEF WithId
    <3>2. {IF m.id = id THEN counted(m) ELSE m : m \in db.memories} = db.memories
      BY <3>1
    <3>3. db' = db
      BY <1>2, <3>2 DEF Bump, SqlInv, SqlTyped
    <3>4. QED
      BY <1>1, <3>3, SettledKeeps
  <2>2. CASE WithId(db.memories, id) # {}
    <3>1. PICK m \in db.memories : m.id = id
      BY <2>2 DEF WithId
    <3> DEFINE new == counted(m)
    <3>2. IsRow("memories", new) /\ new.id = id
      BY <1>2, <1>3, <3>1, RowExcept DEF TableOK
    <3>3. {IF r.id = id THEN counted(r) ELSE r : r \in db.memories} = Stored(db.memories, new)
      <4>1. \A r \in db.memories : r.id = id => r = m
        BY <1>2, <3>1 DEF TableOK
      <4>2. QED
        BY <3>1, <3>2, <4>1 DEF Stored
    <3> HIDE DEF new
    <3>4. Gains(db, db', "memories", new)
      <4>1. db' = [db EXCEPT !["memories"] = Stored(@, new)]
        BY <3>3 DEF Bump
      <4>2. QED
        BY <1>2, <4>1, StoredTable DEF SqlInv
    <3>5. Storable(db, asked, "memories", new)
      BY <1>2, <1>3, <3>1, <3>2 DEF Storable, Kin, Fits
    <3>6. \A d \in (DOMAIN asked) \ {c} : Harmless(d, "memories", new)
      BY <1>1, <2>2, <3>2, NobodyWaits DEF Harmless
    <3>7. Unclaimed(asked, Open \ {c}, "memories", new) /\ NumbersOK(db', asked, Open \ {c})
      BY <1>2, <3>4, SameNumbers DEF Unclaimed, WorkOK
    <3>8. QED
      BY <1>1, <3>4, <3>5, <3>6, <3>7, GainKeeps
  <2>3. QED
    BY <2>1, <2>2
<1>5. Contract!Bump(c)
  <2>1. Contract!Waiting(c) /\ Contract!Answer(c, "ok", <<>>)
    BY <1>1, ContractAnswers DEF SqlInv
  <2>2. QED
    BY <1>1, <2>1 DEF Bump, Contract!Bump, Contract!Is
<1>6. QED
  BY <1>4, <1>5 DEF Good, Contract!Next

(* mark_api_key_used.                                                       *)
LEMMA MarkUsedIsGood ==
  ASSUME NEW c \in DOMAIN asked, SqlInv, MarkUsed(c)
  PROVE  Good
<1> DEFINE id == asked[c].id
           marked(k) == [k EXCEPT !.used = asked[c].at]
<1>1. c \in Open /\ asked[c].op = "mark" /\ Answer(c, "ok", <<>>)
  BY IsOpen DEF MarkUsed, Is
<1>2. "keys" \in DOMAIN Schema /\ Schema["keys"] = Keys /\ TableOK(db, "keys") /\ WorkOK(db, asked, Open)
  BY SchemaIs DEF SqlInv, WorkOK
<1>3. "used" \in Keys.columns /\ "id" \in Keys.columns /\ "prefix" \in Keys.columns
      /\ Keys.unique = {"prefix"} /\ Keys.compared = {} /\ ~Keys.refers
  BY DEF Keys, Paged, Table, KeyColumns, KeyIndex
<1>4. SqlInv'
  <2>1. CASE WithId(db.keys, id) = {}
    <3>1. \A k \in db.keys : (IF k.id = id THEN marked(k) ELSE k) = k
      BY <2>1 DEF WithId
    <3>2. {IF k.id = id THEN marked(k) ELSE k : k \in db.keys} = db.keys
      BY <3>1
    <3>3. db' = db
      BY <1>2, <3>2 DEF MarkUsed, SqlInv, SqlTyped
    <3>4. QED
      BY <1>1, <3>3, SettledKeeps
  <2>2. CASE WithId(db.keys, id) # {}
    <3>1. PICK k \in db.keys : k.id = id
      BY <2>2 DEF WithId
    <3> DEFINE new == marked(k)
    <3>2. IsRow("keys", new) /\ new.id = id /\ new.prefix = k.prefix
      BY <1>2, <1>3, <3>1, RowExcept DEF TableOK
    <3>3. {IF r.id = id THEN marked(r) ELSE r : r \in db.keys} = Stored(db.keys, new)
      <4>1. \A r \in db.keys : r.id = id => r = k
        BY <1>2, <3>1 DEF TableOK
      <4>2. QED
        BY <3>1, <3>2, <4>1 DEF Stored
    <3> HIDE DEF new
    <3>4. Gains(db, db', "keys", new)
      <4>1. db' = [db EXCEPT !["keys"] = Stored(@, new)]
        BY <3>3 DEF MarkUsed
      <4>2. QED
        BY <1>2, <4>1, StoredTable DEF SqlInv
    <3>5. Storable(db, asked, "keys", new)
      <4>1. Fits(db.keys, {"prefix"}, k)
        BY <1>2, <1>3, <3>1 DEF TableOK
      <4>2. Fits(db.keys, {"prefix"}, new)
        BY <3>1, <3>2, <4>1 DEF Fits
      <4>3. Kin(db, asked, "keys", new)
        BY <1>2, <1>3, <3>1, <3>2 DEF Kin
      <4>4. QED
        BY <1>2, <1>3, <3>2, <4>2, <4>3 DEF Storable
    <3>6. \A d \in (DOMAIN asked) \ {c} : Harmless(d, "keys", new)
      BY DEF Harmless
    <3>7. Unclaimed(asked, Open \ {c}, "keys", new) /\ NumbersOK(db', asked, Open \ {c})
      BY <1>2, <3>4, SameNumbers DEF Unclaimed, WorkOK
    <3>8. QED
      BY <1>1, <3>4, <3>5, <3>6, <3>7, GainKeeps
  <2>3. QED
    BY <2>1, <2>2
<1>5. Contract!MarkUsed(c)
  <2>1. Contract!Waiting(c) /\ Contract!Answer(c, "ok", <<>>)
    BY <1>1, ContractAnswers DEF SqlInv
  <2>2. QED
    BY <1>1, <2>1 DEF MarkUsed, Contract!MarkUsed, Contract!Is
<1>6. QED
  BY <1>4, <1>5 DEF Good, Contract!Next

(* The next number continues the numbers.                                   *)
LEMMA NumbersGrow ==
  ASSUME NEW rows, NEW new, Numbers(rows), new \notin rows, new.no = 1 + Cardinality(rows)
  PROVE  Numbers(rows \cup {new})
<1>1. Cardinality(rows) \in Nat /\ IsFiniteSet(rows)
  BY FS_CardinalityType DEF Numbers
<1>2. IsFiniteSet(rows \cup {new}) /\ Cardinality(rows \cup {new}) = Cardinality(rows) + 1
  BY <1>1, FS_AddElement
<1>3. {r.no : r \in rows \cup {new}} = {r.no : r \in rows} \cup {new.no}
  OBVIOUS
<1>4. QED
  BY <1>1, <1>2, <1>3 DEF Numbers

(* The number an append has taken is free.                                 *)
LEMMA NumberIsFree ==
  ASSUME NEW c \in DOMAIN asked, SqlInv, Is(c, {"append"}, "numbered")
  PROVE  /\ IsRow("events", Numbered(c)) /\ Numbered(c).id = Row(c).id /\ Numbered(c).run = Row(c).run
         /\ Numbered(c) = [Row(c) EXCEPT !.no = Cardinality(EventsOf(Row(c).run)) + 1]
         /\ Numbered(c).no = 1 + Cardinality(EventsOf(Row(c).run))
         /\ Fits(db.events, EventIndex, Numbered(c))
<1>1. /\ asked[c].op = "append" /\ asked[c].table = "events" /\ IsRow("events", Row(c))
      /\ "events" \in DOMAIN Schema
  BY SchemaIs, CallTables DEF Is, SqlInv, WorkOK, CallOK, Row
<1>2. tx[c].no = 1 + Cardinality(EventsOf(Row(c).run))
  BY <1>1 DEF SqlInv, TxOK, LockOK, Holding, NumberOK, Is
<1>3. Restrict(Row(c), Shape(c).columns) = Row(c)
  BY <1>1, RowIsItself DEF Shape
<1>4. Numbers(EventsOf(Row(c).run)) /\ Cardinality(EventsOf(Row(c).run)) \in Nat
  BY <1>1, RunNumbers, LastNumber DEF SqlInv
<1>5. Numbered(c) = [Row(c) EXCEPT !.no = tx[c].no]
  BY <1>3 DEF Numbered
<1>6. Numbered(c) = [Row(c) EXCEPT !.no = Cardinality(EventsOf(Row(c).run)) + 1]
  BY <1>2, <1>4, <1>5
<1>7. {"id", "run", "no"} \subseteq Schema["events"].columns
  BY SchemaIs DEF Events, Table, EventColumns
<1>8. /\ IsRow("events", Numbered(c)) /\ Numbered(c).id = Row(c).id /\ Numbered(c).run = Row(c).run
      /\ Numbered(c).no = tx[c].no
  BY <1>1, <1>5, <1>7, RowExcept
<1>9. \A e \in db.events : e.run = Row(c).run => e.no # tx[c].no
  <2>1. ASSUME NEW e \in db.events, e.run = Row(c).run
        PROVE  e.no # tx[c].no
    <3>1. e.no \in 1..Cardinality(EventsOf(Row(c).run))
      BY <1>4, <2>1 DEF Numbers, EventsOf
    <3>2. QED
      BY <1>2, <1>4, <3>1
  <2>2. QED
    BY <2>1
<1>10. QED
  BY <1>2, <1>6, <1>8, <1>9 DEF Fits, EventIndex

(* The insert of append_event: the number the contract gives.               *)
LEMMA InsertEventIsGood ==
  ASSUME NEW c \in DOMAIN asked, SqlInv, InsertEvent(c)
  PROVE  Good
<1> DEFINE new == Numbered(c)
<1>1. /\ c \in Open /\ asked[c].op = "append" /\ Answer(c, "ok", <<new>>) /\ WithId(db.events, Row(c).id) = {}
      /\ Allowed(c, new) /\ Write(c, new) /\ Is(c, {"append"}, "numbered") /\ Holding(c)
  BY IsOpen DEF InsertEvent, Is, Insertable, Holding
<1>2. /\ IsRow("events", new) /\ new.id = Row(c).id /\ new.run = Row(c).run
      /\ new = [Row(c) EXCEPT !.no = Cardinality(EventsOf(Row(c).run)) + 1]
      /\ new.no = 1 + Cardinality(EventsOf(Row(c).run))
  BY <1>1, NumberIsFree
<1> HIDE DEF new
<1>3. asked[c].table = "events" /\ {"events", "versions"} \subseteq DOMAIN Schema
  BY <1>1, SchemaIs, CallTables DEF SqlInv, WorkOK
<1>4. Gains(db, db', "events", new)
  BY <1>1, <1>3, StoredTable DEF Write, SqlInv
<1>5. PutRows(asked, "events") = {} /\ Numbers(EventsOf(Row(c).run))
  BY <1>1, RunNumbers DEF SqlInv
<1>6. Storable(db, asked, "events", new)
  <2>1. Kin(db, asked, "events", new)
    BY <1>1, <1>2, <1>5 DEF Kin, WithId
  <2>2. QED
    BY <1>1, <1>2, <1>3, <2>1 DEF Storable, Allowed, Rows, Shape
<1>7. \A d \in (DOMAIN asked) \ {c} : Harmless(d, "events", new)
  BY <1>1, <1>2 DEF Harmless, SqlInv, LocksDiffer
<1>8. Unclaimed(asked, Open \ {c}, "events", new)
  BY DEF Unclaimed
<1>9. NumbersOK(db', asked, Open \ {c})
  <2>1. NumbersOK(db, asked, Open)
    BY DEF SqlInv, WorkOK
  <2>2. db'.events = db.events \cup {new} /\ db'.versions = db.versions
    BY <1>1, <1>2, <1>3, <1>4 DEF Gains, Stored, WithId
  <2>3. ASSUME NEW run
        PROVE  Numbers({e \in db'.events : e.run = run})
    <3>1. CASE run = Row(c).run
      <4>1. {e \in db'.events : e.run = run} = EventsOf(run) \cup {new}
        BY <1>2, <2>2, <3>1 DEF EventsOf
      <4>2. new \notin EventsOf(run)
        BY <1>1, <1>2 DEF EventsOf, WithId
      <4>3. Numbers(EventsOf(run)) /\ new.no = 1 + Cardinality(EventsOf(run))
        BY <1>2, <1>5, <3>1
      <4>4. Numbers(EventsOf(run) \cup {new})
        BY <4>2, <4>3, NumbersGrow
      <4>5. QED
        BY <4>1, <4>4
    <3>2. CASE run # Row(c).run
      <4>1. {e \in db'.events : e.run = run} = EventsOf(run)
        BY <1>2, <2>2, <3>2 DEF EventsOf
      <4>2. QED
        BY <1>1, <4>1, RunNumbers DEF SqlInv
    <3>3. QED
      BY <3>1, <3>2
  <2>4. QED
    BY <1>5, <2>1, <2>2, <2>3 DEF NumbersOK
<1>10. SqlInv'
  BY <1>1, <1>4, <1>6, <1>7, <1>8, <1>9, GainKeeps
<1>11. Contract!AppendEvent(c)
  <2>1. Contract!Waiting(c) /\ Contract!Answer(c, "ok", <<new>>)
    BY <1>1, ContractAnswers DEF SqlInv
  <2>2. {e \in db.events \cup {} : e.run = Contract!Row(c).run} = EventsOf(Row(c).run)
    BY SameCall DEF EventsOf
  <2>3. Contract!Cardinality(EventsOf(Row(c).run)) = Cardinality(EventsOf(Row(c).run))
    BY Zenon DEF Contract!Cardinality, Cardinality
  <2>4. Contract!Prior(c) = {} /\ Contract!Row(c) = Row(c) /\ Contract!Write(c, new)
    BY <1>1, <1>3, SameCall DEF Rows
  <2>5. Contract!Is(c, "append")
    BY <1>1, <2>1 DEF Contract!Is
  <2>6. Contract!Reply(c, "ok", <<new>>) /\ UNCHANGED faults
    BY <2>1 DEF Contract!Answer
  <2>7. QED
    BY <1>2, <2>2, <2>3, <2>4, <2>5, <2>6 DEF Contract!AppendEvent
<1>12. QED
  BY <1>10, <1>11 DEF Good, Contract!Next

(* A collision is of the identifier, or of a run that is not there.         *)
LEMMA CollideIsGood ==
  ASSUME NEW c \in DOMAIN asked, SqlInv, Collide(c)
  PROVE  Good
<1>1. c \in Open /\ asked[c].op = "append" /\ ~Insertable(c) /\ Is(c, {"append"}, "numbered")
  BY IsOpen DEF Collide, Is
<1>2. asked[c].table = "events" /\ Schema["events"].unique = EventIndex /\ Shape(c) = Schema["events"]
  BY <1>1, SchemaIs, CallTables DEF SqlInv, WorkOK, Events, Table, Shape
<1>3. CASE Refuse(c)
  <2>1. WithId(db.events, Row(c).id) # {} \/ WithId(db.runs, Row(c).run) = {}
    BY <1>1, <1>2, NumberIsFree DEF Insertable, Allowed, Rows
  <2>2. Denied(c)
    BY <1>1, <1>2, <2>1, SameCall, SameTables DEF Denied, Contract!Refusable, Contract!SchemaRefuses, Contract!Orphan, Rows
  <2>3. QED
    BY <1>1, <1>3, <2>2, RefusalIsGood
<1>4. CASE ~Refuse(c)
  <2> DEFINE next == [Idle EXCEPT !.tries = tx[c].tries + 1]
  <2>1. next = Entry("start", {}, 0, tx[c].tries + 1)
    BY DEF Idle, Entry
  <2>2. Moves(c, next) /\ UNCHANGED <<db, answer, faults>> /\ next.at = "start"
    BY <1>4, <2>1 DEF Collide, Moves, Places, Entry
  <2> HIDE DEF next
  <2>3. LocksDiffer'
    BY <2>2, LocksStay DEF SqlInv
  <2>4. TxOK(c)'
    BY <2>2, MoveIs DEF SqlInv, TxOK, Holding
  <2>5. Sees(c, tx[c]) = {} /\ Sees(c, next) = {}
    BY <1>1, <2>2 DEF Sees, Is
  <2>6. QED
    BY <1>1, <2>2, <2>3, <2>4, <2>5, StutterIsGood
<1>5. QED
  BY <1>3, <1>4

(* What update_memory and a transition make of a memory is a memory ...     *)
LEMMA TransitionedIsRow ==
  ASSUME NEW row, NEW other, IsRow("memories", row)
  PROVE  IsRow("memories", Transitioned(row, other)) /\ Transitioned(row, other).id = row.id
<1> DEFINE new == [row EXCEPT !.status = other.status, !.life = other.life, !.by = other.by]
<1>1. {"status", "life", "by", "id"} \subseteq Schema["memories"].columns
  BY SchemaIs DEF Memories, Table, MemoryColumns
<1>2. DOMAIN new = DOMAIN row /\ new = [col \in DOMAIN new |-> new[col]]
  BY <1>1 DEF IsRow
<1>3. new.id = row.id
  BY <1>1 DEF IsRow
<1>4. IsRow("memories", new)
  BY <1>2, RowIsItself DEF IsRow
<1>5. QED
  BY <1>3, <1>4 DEF Transitioned

LEMMA AfterIsRow ==
  ASSUME NEW c, NEW b, IsRow("memories", b), IsRow("memories", Row(c)), b.id = Row(c).id
  PROVE  /\ IsRow("memories", After(c, b)) /\ After(c, b).id = b.id
         /\ Updated(b, b, After(c, b)) = After(c, b)
<1>1. {"access", "id"} \subseteq Schema["memories"].columns
  BY SchemaIs DEF Memories, Table, MemoryColumns
<1>2. IsRow("memories", Amended(b, Row(c))) /\ Amended(b, Row(c)).id = Row(c).id
  <2> DEFINE counted == [Row(c) EXCEPT !.access = b.access]
  <2>1. IsRow("memories", counted) /\ counted.id = Row(c).id
    BY <1>1, RowExcept
  <2> HIDE DEF counted
  <2>2. IsRow("memories", Transitioned(counted, b)) /\ Transitioned(counted, b).id = counted.id
    BY <2>1, TransitionedIsRow
  <2>3. Amended(b, Row(c)) \in {counted, Transitioned(counted, b)}
    BY Zenon DEF Amended, Transitioned, counted
  <2>4. QED
    BY <2>1, <2>2, <2>3
<1>3. IsRow("memories", Transitioned(b, Row(c))) /\ Transitioned(b, Row(c)).id = b.id
  BY TransitionedIsRow
<1>4. IsRow("memories", After(c, b)) /\ After(c, b).id = b.id
  BY <1>2, <1>3 DEF After
<1>5. Updated(b, b, After(c, b)) = After(c, b)
  BY <1>4 DEF Updated, Changes, IsRow
<1>6. QED
  BY <1>4, <1>5

(* ... and storable, and so are the version and the audit that go with it.  *)
LEMMA MemoryStorable ==
  ASSUME NEW tables, NEW calls, NEW b \in tables["memories"], NEW new, IsRow("memories", new), new.id = b.id
  PROVE  Storable(tables, calls, "memories", new)
<1>1. /\ Schema["memories"].unique = {} /\ Schema["memories"].compared = {} /\ ~Schema["memories"].refers
  BY SchemaIs DEF Memories, Table
<1>2. QED
  BY <1>1 DEF Storable, Fits, Kin

LEMMA VersionStorable ==
  ASSUME NEW tables, NEW calls, NEW id, NEW after, NEW number, NEW all,
         all = {v \in tables["versions"] : v.memory = after.id}, Numbers(all), number = 1 + Cardinality(all),
         PutRows(calls, "versions") = {}, \A v \in tables["versions"] : v.id # id
  PROVE  Storable(tables, calls, "versions", Version(id, after, number))
<1> DEFINE new == Version(id, after, number)
<1>1. IsRow("versions", new) /\ new.id = id /\ new.memory = after.id /\ new.no = number
  BY SchemaIs DEF IsRow, Version, Versions, Table, VersionColumns
<1>2. Schema["versions"].unique = VersionIndex /\ ~Schema["versions"].refers
  BY SchemaIs DEF Versions, Table
<1>3. \A v \in tables["versions"] : v.memory = after.id => v.no # number
  <2>1. Cardinality(all) \in Nat
    BY LastNumber
  <2>2. \A v \in all : v.no \in 1..Cardinality(all)
    BY DEF Numbers
  <2>3. QED
    BY <2>1, <2>2
<1> HIDE DEF new
<1>4. Fits(tables["versions"], VersionIndex, new)
  BY <1>1, <1>3 DEF Fits, VersionIndex
<1>5. Kin(tables, calls, "versions", new)
  BY <1>1 DEF Kin
<1>6. QED
  BY <1>1, <1>2, <1>4, <1>5 DEF Storable, new

LEMMA AuditStorable ==
  ASSUME NEW tables, NEW calls, NEW new, IsRow("audits", new),
         \A r \in tables["audits"] \cup PutRows(calls, "audits") : r.id # new.id
  PROVE  Storable(tables, calls, "audits", new)
<1>1. Schema["audits"].unique = {} /\ ~Schema["audits"].refers
  BY SchemaIs DEF Audits, Paged, Table
<1>2. QED
  BY <1>1 DEF Storable, Fits, Kin

(* The three writes of a memory transaction, one after the other.          *)
LEMMA MemoryKeepsWork ==
  ASSUME NEW tables, NEW after, NEW calls, NEW open, NEW rest, rest \subseteq open, WorkOK(tables, calls, open),
         NEW b \in tables["memories"], NEW new, IsRow("memories", new), new.id = b.id,
         Gains(tables, after, "memories", new)
  PROVE  WorkOK(after, calls, rest)
<1>1. Storable(tables, calls, "memories", new) /\ Unclaimed(calls, rest, "memories", new)
  BY MemoryStorable DEF Unclaimed
<1>2. NumbersOK(after, calls, rest)
  BY SameNumbers DEF WorkOK
<1>3. QED
  BY <1>1, <1>2, GainKeepsWork

LEMMA VersionKeepsWork ==
  ASSUME NEW tables, NEW after, NEW calls, NEW rest, WorkOK(tables, calls, rest),
         NEW id, NEW memory, NEW number, NEW all, id \notin rest, Doing(calls, {"amend", "transition"}) # {},
         \A v \in tables["versions"] : v.id # id,
         all = {v \in tables["versions"] : v.memory = memory.id}, Numbers(all), number = 1 + Cardinality(all),
         Gains(tables, after, "versions", Version(id, memory, number))
  PROVE  WorkOK(after, calls, rest)
<1> DEFINE new == Version(id, memory, number)
<1>1. PutRows(calls, "versions") = {} /\ NumbersOK(tables, calls, rest)
  BY DEF WorkOK, NumbersOK
<1>2. Storable(tables, calls, "versions", new) /\ Unclaimed(calls, rest, "versions", new)
  BY <1>1, VersionStorable DEF Unclaimed
<1>3. new.id = id /\ new.memory = memory.id /\ new.no = number
  BY DEF Version
<1> HIDE DEF new
<1>4. NumbersOK(after, calls, rest)
  <2>1. {"events", "versions"} \subseteq DOMAIN Schema
    BY SchemaIs
  <2>2. after.events = tables.events /\ after.versions = tables.versions \cup {new}
    BY <2>1, <1>3 DEF Gains, Stored, new
  <2>3. ASSUME NEW m \in {v.memory : v \in after.versions}
        PROVE  Numbers({v \in after.versions : v.memory = m})
    <3>1. CASE m = memory.id
      <4>1. {v \in after.versions : v.memory = m} = all \cup {new}
        BY <1>3, <2>2, <3>1
      <4>2. new \notin all /\ new.no = 1 + Cardinality(all)
        BY <1>3
      <4>3. Numbers(all \cup {new})
        BY <4>2, NumbersGrow
      <4>4. QED
        BY <4>1, <4>3
    <3>2. CASE m # memory.id
      <4>1. {v \in after.versions : v.memory = m} = {v \in tables.versions : v.memory = m}
        BY <1>3, <2>2, <3>2
      <4>2. m \in {v.memory : v \in tables.versions}
        BY <1>3, <2>2, <3>2
      <4>3. QED
        BY <1>1, <4>1, <4>2 DEF NumbersOK
    <3>3. QED
      BY <3>1, <3>2
  <2>4. \A v \in after.versions : v.id \notin Doing(calls, {"amend", "transition"}) \cap rest
    BY <1>1, <1>3, <2>2 DEF NumbersOK
  <2>5. QED
    BY <1>1, <2>2, <2>3, <2>4 DEF NumbersOK
<1>5. QED
  BY <1>2, <1>4, GainKeepsWork DEF new

LEMMA AuditKeepsWork ==
  ASSUME NEW tables, NEW after, NEW calls, NEW rest, WorkOK(tables, calls, rest), NEW new, IsRow("audits", new),
         \A r \in tables["audits"] \cup PutRows(calls, "audits") : r.id # new.id,
         \A d \in Doing(calls, {"transition"}) \cap rest : new.id # calls[d].audit.id,
         Gains(tables, after, "audits", new)
  PROVE  WorkOK(after, calls, rest)
<1>1. Storable(tables, calls, "audits", new) /\ Unclaimed(calls, rest, "audits", new)
  BY AuditStorable DEF Unclaimed
<1>2. NumbersOK(after, calls, rest)
  BY SameNumbers DEF WorkOK
<1>3. QED
  BY <1>1, <1>2, GainKeepsWork

(* What a call writes that holds the lock of its memory.                   *)
Written(c, b, after) ==
  db' = [db EXCEPT !.memories = Stored(@, after), !.versions = WithVersion(@, c, b, after, tx[c].no),
                   !.audits = IF asked[c].op = "amend" THEN @ ELSE @ \cup {asked[c].audit}]

(* The three tables after a memory write.                                   *)
LEMMA WrittenIs ==
  ASSUME NEW c \in DOMAIN asked, NEW b, NEW after, SqlTyped, Written(c, b, after)
  PROVE  /\ db' = [t \in DOMAIN Schema |-> db'[t]]
         /\ db'.memories = Stored(db.memories, after)
         /\ db'.versions = WithVersion(db.versions, c, b, after, tx[c].no)
         /\ db'.audits = IF asked[c].op = "amend" THEN db.audits ELSE db.audits \cup {asked[c].audit}
         /\ \A t \in (DOMAIN Schema) \ {"memories", "versions", "audits"} : db'[t] = db[t]
  BY SchemaIs DEF SqlTyped, Written

(* The lock has kept the memory as it was read, and the next number.        *)
LEMMA WriterKnows ==
  ASSUME NEW c \in DOMAIN asked, SqlInv, Is(c, {"amend", "transition"}, "numbered")
  PROVE  /\ \E b \in db.memories : tx[c].seen = {b} /\ WithId(db.memories, Row(c).id) = {b} /\ b.id = Row(c).id
         /\ \A b \in tx[c].seen : /\ IsRow("memories", After(c, b)) /\ After(c, b).id = Row(c).id
                                  /\ Updated(b, b, After(c, b)) = After(c, b)
                                  /\ asked[c].op = "transition" => b.status = asked[c].from
         /\ Numbers(VersionsOf(Row(c).id)) /\ tx[c].no = 1 + Cardinality(VersionsOf(Row(c).id))
         /\ \A v \in db.versions : v.id # c
         /\ PutRows(asked, "versions") = {} /\ asked[c].table = "memories"
<1>1. /\ LockOK(c) /\ NumberOK(c) /\ asked[c].op \in {"amend", "transition"} /\ WorkOK(db, asked, Open)
      /\ c \in Open /\ asked[c].op # "append"
  BY IsOpen DEF SqlInv, TxOK, LockOK, Holding, Is
<1>2. PICK b \in db.memories : b \in tx[c].seen /\ b.id = Row(c).id
  BY <1>1 DEF LockOK, WithId
<1>3. TableOK(db, "memories")
  BY <1>1, SchemaIs DEF WorkOK
<1>4. tx[c].seen = {b} /\ WithId(db.memories, Row(c).id) = {b}
  <2>1. WithId(db.memories, b.id) = {b}
    BY <1>3, OneById DEF TableOK
  <2>2. QED
    BY <1>1, <1>2, <2>1 DEF LockOK
<1>5. IsRow("memories", b) /\ IsRow("memories", Row(c)) /\ asked[c].table = "memories"
  BY <1>1, <1>2, <1>3, CallTables DEF WorkOK, CallOK, Row, TableOK
<1>6. /\ IsRow("memories", After(c, b)) /\ After(c, b).id = Row(c).id
      /\ Updated(b, b, After(c, b)) = After(c, b)
  BY <1>2, <1>5, AfterIsRow
<1>7. \A v \in db.versions : v.id # c
  BY <1>1 DEF WorkOK, NumbersOK, Doing
<1>8. tx[c].no = 1 + Cardinality(VersionsOf(Row(c).id))
  BY <1>1 DEF NumberOK
<1>9. asked[c].op = "transition" => b.status = asked[c].from
  BY <1>1, <1>2 DEF LockOK
<1>10. QED
  BY <1>1, <1>2, <1>4, <1>5, <1>6, <1>7, <1>8, <1>9, MemoryNumbers

(* A memory write keeps every table in order ...                            *)
LEMMA WriterKeepsWork ==
  ASSUME NEW c \in DOMAIN asked, SqlInv, Is(c, {"amend", "transition"}, "numbered"),
         NEW b \in tx[c].seen, Written(c, b, After(c, b))
  PROVE  WorkOK(db', asked, Open \ {c})
<1> DEFINE after == After(c, b)
           rest == Open \ {c}
           version == Version(c, after, tx[c].no)
           T1 == [db EXCEPT !["memories"] = Stored(@, after)]
           T2 == [T1 EXCEPT !["versions"] = WithVersion(@, c, b, after, tx[c].no)]
<1>1. c \in Open /\ asked[c].op \in {"amend", "transition"} /\ WorkOK(db, asked, Open) /\ SqlTyped
  BY IsOpen DEF Is, SqlInv
<1>2. {"memories", "versions", "audits"} \subseteq DOMAIN Schema
  BY SchemaIs
<1>3. /\ b \in db.memories /\ b.id = Row(c).id /\ IsRow("memories", after) /\ after.id = b.id
      /\ Numbers(VersionsOf(after.id)) /\ tx[c].no = 1 + Cardinality(VersionsOf(after.id))
      /\ \A v \in db.versions : v.id # c
  BY WriterKnows DEF WithId
<1> HIDE DEF after
<1>4. Gains(db, T1, "memories", after)
  BY <1>1, <1>2 DEF Gains, SqlTyped
<1>5. WorkOK(T1, asked, rest)
  BY <1>1, <1>3, <1>4, MemoryKeepsWork
<1>6. T1["versions"] = db.versions /\ T1["audits"] = db.audits /\ T1 = [u \in DOMAIN Schema |-> T1[u]]
  BY <1>2, <1>4 DEF Gains
<1> HIDE DEF T1
<1>7. WorkOK(T2, asked, rest)
  <2>1. CASE SameVersion(b, after)
    <3>1. T2 = T1
      BY <1>6, <2>1 DEF WithVersion
    <3>2. QED
      BY <1>5, <3>1
  <2>2. CASE ~SameVersion(b, after)
    <3>1. version.id = c
      BY DEF Version
    <3>2. WithVersion(T1["versions"], c, b, after, tx[c].no) = Stored(T1["versions"], version)
      BY <1>3, <1>6, <2>2, <3>1 DEF WithVersion, Stored
    <3>3. Gains(T1, T2, "versions", version)
      BY <1>2, <1>6, <3>2 DEF Gains
    <3>4. VersionsOf(after.id) = {v \in T1["versions"] : v.memory = after.id}
      BY <1>6 DEF VersionsOf
    <3>5. Doing(asked, {"amend", "transition"}) # {} /\ c \notin rest
      BY <1>1 DEF Doing
    <3> HIDE DEF T2
    <3>6. QED
      BY <1>3, <1>5, <1>6, <3>3, <3>4, <3>5, VersionKeepsWork
  <2>3. QED
    BY <2>1, <2>2
<1>8. T2["audits"] = db.audits /\ T2 = [u \in DOMAIN Schema |-> T2[u]]
  BY <1>2, <1>6
<1>9. db' = [T2 EXCEPT !["audits"] = IF asked[c].op = "amend" THEN @ ELSE @ \cup {asked[c].audit}]
  BY <1>1, <1>2 DEF Written, T1, after, SqlTyped
<1> HIDE DEF T2
<1>10. CASE asked[c].op = "amend"
  <2>1. db' = T2
    BY <1>8, <1>9, <1>10
  <2>2. QED
    BY <1>7, <2>1
<1>11. CASE asked[c].op = "transition"
  <2> DEFINE audit == asked[c].audit
  <2>1. IsRow("audits", audit)
    BY <1>1, <1>11 DEF WorkOK, CallOK
  <2>2. c \in Doing(asked, {"transition"}) \cap Open
    BY <1>1, <1>11 DEF Doing
  <2>3. \A r \in db.audits \cup PutRows(asked, "audits") : r.id # audit.id
    BY <1>1, <2>2 DEF WorkOK, IdentityOK
  <2>4. \A d \in Doing(asked, {"transition"}) \cap rest : audit.id # asked[d].audit.id
    BY <1>1, <2>2 DEF WorkOK, IdentityOK
  <2>5. Stored(T2["audits"], audit) = T2["audits"] \cup {audit}
    BY <1>8, <2>3 DEF Stored
  <2>6. Gains(T2, db', "audits", audit)
    BY <1>2, <1>8, <1>9, <1>11, <2>5 DEF Gains
  <2>7. QED
    BY <1>7, <1>8, <2>1, <2>3, <2>4, <2>6, AuditKeepsWork
<1>12. QED
  BY <1>1, <1>10, <1>11

(* ... and no other transaction notices.                                    *)
LEMMA WriterDisturbsNobody ==
  ASSUME NEW c \in DOMAIN asked, SqlInv, Is(c, {"amend", "transition"}, "numbered"),
         NEW b \in tx[c].seen, Written(c, b, After(c, b)),
         NEW d \in (DOMAIN asked) \ {c}, asked' = asked, tx'[d] = tx[d], Open' \subseteq Open
  PROVE  TxOK(d)'
<1> DEFINE after == After(c, b)
<1>1. /\ after.id = Row(c).id /\ WithId(db.memories, Row(c).id) # {} /\ Holding(c) /\ TxOK(d)
      /\ CallOK(asked[d]) /\ asked[c].op # "append" /\ c \in Open
      /\ \A v \in db.versions : v.id # c
  BY WriterKnows, IsOpen DEF SqlInv, WorkOK, Holding, Is
<1> HIDE DEF after
<1>2. /\ db'.memories = Stored(db.memories, after)
      /\ db'.versions = db.versions \/ db'.versions = db.versions \cup {Version(c, after, tx[c].no)}
      /\ db.audits \subseteq db'.audits
      /\ \A t \in (DOMAIN Schema) \ {"memories", "versions", "audits"} : db'[t] = db[t]
  BY WrittenIs DEF WithVersion, after, SqlInv
<1>3. Row(d)' = Row(d) /\ Stable(d)' = Stable(d) /\ Rows(d)' = db'[asked[d].table]
  BY DEF Row, Rows, Stable, Shape
<1>4. \A t \in DOMAIN Schema : \A id : WithId(db[t], id) # {} => WithId(db'[t], id) # {}
  <2>1. ASSUME NEW id, WithId(db.memories, id) # {}
        PROVE  WithId(db'.memories, id) # {}
    BY <1>2, <2>1, StoredIds
  <2>2. QED
    BY <1>2, <2>1 DEF WithId
<1>5. Waits(d) => Row(d).id # Row(c).id
  <2>1. CASE tx[d].at \in {"locked", "numbered"}
    BY <1>1, <2>1 DEF SqlInv, LocksDiffer, Holding, TxOK, LockOK, Waits
  <2>2. CASE tx[d].at \in {"found", "absent"}
    BY <1>1, <2>2 DEF TxOK, Found, Lacking, Waits
  <2>3. QED
    BY <2>1, <2>2 DEF Waits
<1>6. Waits(d) => WithId(db'.memories, Row(d).id) = WithId(db.memories, Row(d).id)
  BY <1>1, <1>2, <1>5, StoredIds
<1>7. Removing => Removing'
  BY DEF Removing
<1>8. \A k : Known(d, k) => Known(d, k)'
  BY <1>3 DEF Known, Row
<1>9. ASSUME NEW k, There(d, k), asked[d].op \in {"put", "enrol", "update", "revoke", "amend"}
      PROVE  There(d, k)'
  <2>1. asked[d].table \in DOMAIN Schema
    BY <1>1, CallTable
  <2>2. WithId(Rows(d), k.id) # {} => WithId(Rows(d)', k.id) # {}
    BY <1>3, <1>4, <2>1 DEF Rows
  <2>3. CASE asked[d].op \in {"enrol", "update"}
    <3>1. Rows(d)' = Rows(d)
      BY <1>1, <1>2, <1>3, <2>1, <2>3, CallTables DEF Rows
    <3>2. QED
      BY <1>3, <1>7, <1>9, <2>2, <3>1 DEF There
  <2>4. CASE asked[d].op \notin {"enrol", "update"}
    BY <1>3, <1>9, <2>2, <2>4 DEF There, Stable
  <2>5. QED
    BY <2>3, <2>4
<1>10. Waits(d) /\ Lacking(d) => Lacking(d)'
  BY <1>3, <1>6 DEF Lacking
<1>11. ASSUME tx[d].at = "found"
       PROVE  Found(d)'
  <2>1. Found(d)
    BY <1>1, <1>11 DEF TxOK
  <2>2. asked[d].op = "amend" => Lacking(d)'
    BY <1>10, <1>11, <2>1 DEF Found, Waits
  <2>3. QED
    BY <1>3, <1>8, <1>9, <2>1, <2>2 DEF Found
<1>12. ASSUME tx[d].at = "absent"
       PROVE  asked[d].op = "amend" /\ Lacking(d)'
  BY <1>1, <1>10, <1>12 DEF TxOK, Waits
<1>13. ASSUME Holding(d)
       PROVE  LockOK(d)'
  <2>1. LockOK(d)
    BY <1>1, <1>13 DEF TxOK
  <2>2. {e \in db'.events : e.run = Row(d).run} = {e \in db.events : e.run = Row(d).run}
    BY <1>2, SchemaIs
  <2>3. Waits(d) => {v \in db'.versions : v.memory = Row(d).id} = {v \in db.versions : v.memory = Row(d).id}
    BY <1>1, <1>2, <1>5 DEF Version
  <2>4. asked[d].op # "append" => Waits(d)
    BY <1>13, <2>1 DEF LockOK, Waits, Holding
  <2>5. tx[d].at = "numbered" => NumberOK(d)'
    BY <1>3, <2>1, <2>2, <2>3, <2>4 DEF LockOK, NumberOK, EventsOf, VersionsOf
  <2>6. QED
    BY <1>3, <1>6, <2>1, <2>4, <2>5 DEF LockOK
<1>14. QED
  BY <1>11, <1>12, <1>13 DEF TxOK, Holding

(* update_memory and transition_memory_with_audit, at their commit.         *)
LEMMA WriteMemoryIsGood ==
  ASSUME NEW c \in DOMAIN asked, SqlInv, WriteMemory(c)
  PROVE  Good
<1>1. /\ Is(c, {"amend", "transition"}, "numbered") /\ c \in Open /\ asked[c].op \in {"amend", "transition"}
      /\ WorkOK(db, asked, Open) /\ SqlTyped
  BY IsOpen DEF WriteMemory, Is, SqlInv
<1>2. PICK b \in db.memories : tx[c].seen = {b} /\ WithId(db.memories, Row(c).id) = {b} /\ b.id = Row(c).id
  BY <1>1, WriterKnows
<1> DEFINE after == After(c, b)
           versions == WithVersion(db.versions, c, b, after, tx[c].no)
           all == VersionsOf(Row(c).id)
<1>3. /\ IsRow("memories", after) /\ after.id = Row(c).id /\ Updated(b, b, after) = after
      /\ Numbers(all) /\ tx[c].no = 1 + Cardinality(all) /\ \A v \in db.versions : v.id # c
      /\ PutRows(asked, "versions") = {} /\ asked[c].table = "memories"
      /\ asked[c].op = "transition" => b.status = asked[c].from
  BY <1>1, <1>2, WriterKnows
<1> HIDE DEF after
<1>4. \A v \in versions : Fits(db.versions, VersionIndex, v)
  <2>1. Schema["versions"].unique = VersionIndex /\ TableOK(db, "versions")
    BY <1>1, SchemaIs DEF WorkOK, Versions, Table
  <2>2. \A v \in db.versions : Fits(db.versions, VersionIndex, v)
    BY <2>1 DEF TableOK
  <2>3. Storable(db, asked, "versions", Version(c, after, tx[c].no))
    <3>1. all = {v \in db["versions"] : v.memory = after.id}
      BY <1>3 DEF VersionsOf
    <3> HIDE DEF all
    <3>2. QED
      BY <1>3, <3>1, VersionStorable
  <2>4. QED
    BY <2>1, <2>2, <2>3 DEF WithVersion, Storable
<1>5. Written(c, b, after) /\ Answer(c, "ok", <<>>)
  BY <1>2, <1>3, <1>4 DEF WriteMemory, Written, after
<1>6. SqlInv'
  <2>1. /\ Moves(c, Over) /\ Open' = Open \ {c} /\ UNCHANGED <<asked, faults>> /\ Over.at = "done"
        /\ answer' = [d \in DOMAIN asked' |-> answer'[d]]
        /\ \A d \in DOMAIN asked' : d \in Open' <=> answer'[d].is = "waiting"
    BY <1>1, <1>5, AnswerIs DEF Over, Idle
  <2>2. SqlTyped'
    BY <1>1, <1>5, <2>1, MoveIs, WrittenIs DEF SqlTyped
  <2>3. WorkOK(db', asked', Open')
    BY <1>1, <1>2, <1>5, <2>1, WriterKeepsWork DEF after
  <2>4. LocksDiffer'
    BY <2>1, LocksStay DEF SqlInv
  <2>5. ASSUME NEW d \in DOMAIN asked
        PROVE  TxOK(d)'
    <3>1. CASE d = c
      BY <3>1, <2>1, MoveIs DEF TxOK, Holding, SqlInv
    <3>2. CASE d # c
      BY <1>1, <1>2, <1>5, <2>1, <3>2, MoveIs, WriterDisturbsNobody DEF after
    <3>3. QED
      BY <3>1, <3>2
  <2>6. QED
    BY <2>1, <2>2, <2>3, <2>4, <2>5 DEF SqlInv
<1>7. Contract!Amend(c) \/ Contract!Transition(c)
  <2>1. Contract!Waiting(c) /\ Contract!Answer(c, "ok", <<>>)
    BY <1>1, <1>5, ContractAnswers
  <2>2. Contract!Prior(c) = {b}
    BY <1>1, <1>2, <1>3, SameCall DEF Rows
  <2>3. Contract!NextNumber(after.id) = tx[c].no
    <3>1. Contract!NextNumber(after.id) = Cardinality({v \in db.versions : v.memory = after.id}) + 1
      BY SameMemories
    <3>2. Cardinality(all) \in Nat
      BY <1>3, LastNumber
    <3>3. QED
      BY <1>3, <3>1, <3>2 DEF VersionsOf
  <2>4. db' = [db EXCEPT !.memories = Contract!Stored(@, after),
                         !.audits = @ \cup (IF asked[c].op = "amend" THEN {} ELSE {asked[c].audit}),
                         !.versions = Contract!WithVersion(@, c, b, after, Contract!NextNumber(after.id))]
    BY <1>1, <1>5, <2>3, SameTables, SameMemories DEF Written, SqlTyped
  <2>5. after = IF asked[c].op = "amend" THEN Contract!Amended(b, Contract!Row(c))
                ELSE Contract!Transitioned(b, Contract!Row(c))
    BY SameMemories, SameCall DEF After, after
  <2>6. CASE asked[c].op = "amend"
    <3>1. Contract!Keep(c, b, after, {})
      BY <2>4, <2>6 DEF Contract!Keep
    <3>2. QED
      BY <2>1, <2>2, <2>5, <2>6, <3>1 DEF Contract!Amend, Contract!Is
  <2>7. CASE asked[c].op = "transition"
    <3>1. Contract!Keep(c, b, after, {asked[c].audit})
      BY <2>4, <2>7 DEF Contract!Keep
    <3>2. QED
      BY <1>3, <2>1, <2>2, <2>5, <2>7, <3>1 DEF Contract!Transition, Contract!Is
  <2>8. QED
    BY <1>1, <2>6, <2>7
<1>8. QED
  BY <1>6, <1>7 DEF Good, Contract!Next

(* A column is either assigned, or kept as the contract allows.            *)
Covers(c, b) ==
  \A col \in DOMAIN b :
    IF col \in Assigned(c) THEN col \notin Contract!Kept(c)
    ELSE col \in Contract!Kept(c) \/ Row(c)[col] = b[col]

(* A write by key assigns what the contract does not keep.                  *)
LEMMA WritesCover ==
  ASSUME NEW c \in DOMAIN asked, CallOK(asked[c]), asked[c].op \in {"put", "enrol", "update"},
         NEW b, IsRow(asked[c].table, b), asked[c].op = "update" => b.id = Row(c).id,
         \A col \in Stable(c) : b[col] = Row(c)[col]
  PROVE  Covers(c, b)
<1> DEFINE t == asked[c].table
<1>1. t \in DOMAIN Schema /\ DOMAIN b = Schema[t].columns /\ Shape(c) = Schema[t]
  BY CallTable, RowIsItself DEF Shape
<1>2. CASE asked[c].op = "put"
  BY <1>1, <1>2 DEF Covers, Assigned, Contract!Kept
<1>3. CASE asked[c].op = "enrol"
  BY <1>1, <1>3 DEF Covers, Assigned, Contract!Kept
<1>4. CASE asked[c].op = "update"
  <2> DEFINE s == Schema[t]
             k == Contract!Catalogue[t]
  <2>1. t \in {"conflicts", "maintenances", "attempts"}
    BY <1>4, CallTables
  <2>2. /\ s.compared = k.fixed /\ s.columns \ s.assigned \subseteq k.kept \cup k.fixed \cup {"id"}
        /\ k.kept \cap s.assigned = {}
    BY <1>1, <2>1, TablesMatch DEF Matches
  <2>3. Assigned(c) = s.assigned /\ Stable(c) = s.compared /\ Contract!Kept(c) = k.kept
    BY <1>1, <1>4, SameCall DEF Assigned, Stable, Contract!Kept
  <2> HIDE DEF s, k
  <2>4. \A col \in DOMAIN b : col \in s.columns
    BY <1>1 DEF s
  <2>5. QED
    BY <1>4, <2>2, <2>3, <2>4 DEF Covers
<1>5. QED
  BY <1>2, <1>3, <1>4

(* What a read notes is what the contract may take note of.                 *)
LEMMA SameNotes ==
  ASSUME NEW c, NEW b, Covers(c, b), asked[c].op # "revoke"
  PROVE  {col \in DOMAIN b : Target(c, b)[col] = b[col]} =
           {col \in DOMAIN b : Contract!Made(c, b, Contract!Kept(c))[col] = b[col]}
  BY SameCall DEF Covers, Target, Contract!Made

LEMMA FactsNoted ==
  ASSUME NEW c, NEW next, next.at = "found", asked[c].op \in {"put", "enrol", "update"},
         next.seen = Contract!Prior(c), \A b \in next.seen : Covers(c, b),
         asked[c].op = "update" => next.seen # {}
  PROVE  Sees(c, next) = Contract!Facts(c)
<1>1. CASE asked[c].op \in {"put", "enrol"} /\ next.seen = {}
  BY <1>1 DEF Sees, Contract!Facts
<1>2. CASE next.seen # {}
  <2>1. {{col \in DOMAIN b : Target(c, b)[col] = b[col]} : b \in next.seen} =
          {{col \in DOMAIN b : Contract!Made(c, b, Contract!Kept(c))[col] = b[col]} : b \in next.seen}
    BY SameNotes
  <2>2. QED
    BY <1>2, <2>1 DEF Sees, Contract!Facts
<1>3. QED
  BY <1>1, <1>2

(* The reads at the start of a write by key.                               *)
LEMMA FirstReadIsGood ==
  ASSUME NEW c \in DOMAIN asked, SqlInv, asked[c].op \in {"put", "enrol", "update"}, tx[c].at = "start",
         NEW rows, rows = Contract!Prior(c), rows \subseteq Rows(c), \A r, s \in rows : r = s,
         asked[c].op = "put" => ~Repeats(Row(c)), asked[c].op = "update" => rows # {},
         \A r \in rows : \A col \in Stable(c) : r[col] = Row(c)[col],
         Reach(c, "found", rows)
  PROVE  Good
<1> DEFINE next == Entry("found", rows, tx[c].no, tx[c].tries)
           t == asked[c].table
<1>1. c \in Open /\ CallOK(asked[c]) /\ TableOK(db, t) /\ SqlTyped /\ WorkOK(db, asked, Open) /\ t \in DOMAIN Schema
  BY IsOpen, CallTable DEF SqlInv, WorkOK
<1>2. Moves(c, next) /\ UNCHANGED <<db, answer, faults>> /\ next.at = "found" /\ next.seen = rows
  BY <1>1, ReachIs DEF Places, Entry
<1> HIDE DEF next
<1>3. asked[c].op # "enrol" => \A b \in rows : b.id = Row(c).id
  BY SameCall DEF WithId
<1>4. \A b \in rows : IsRow(t, b) /\ Covers(c, b)
  BY <1>1, <1>3, WritesCover DEF TableOK, Rows
<1>5. Sees(c, tx[c]) = {} /\ Sees(c, next) = Contract!Facts(c)
  BY <1>2, <1>4, FactsNoted DEF Sees
<1>6. Found(c)'
  <2>1. asked' = asked /\ tx'[c].seen = rows /\ Open' = Open /\ Row(c)' = Row(c) /\ Rows(c)' = Rows(c)
    <3>1. asked' = asked /\ tx'[c].seen = rows /\ Row(c)' = Row(c) /\ Rows(c)' = Rows(c)
      BY <1>1, <1>2, MoveIs DEF Moves, Row, Rows
    <3>2. Open' = Open \cup {c}
      BY <1>1, <1>2, MoveIs
    <3>3. QED
      BY <1>1, <3>1, <3>2
  <2>2. Stable(c)' = Stable(c)
    BY <2>1 DEF Stable, Shape
  <2>3. ASSUME NEW b \in rows
        PROVE  Known(c, b)' /\ There(c, b)'
    <3>1. rows = {b} /\ b \in Rows(c)
      BY <2>3
    <3>2. asked[c].op = "enrol" =>
            \A d \in Doing(asked, {"enrol"}) \cap Open : b.id # Row(d).id /\ b.updated # Row(d).updated
      BY <1>1, <3>1, CallTables DEF WorkOK, IdentityOK, Row, Rows
    <3>3. Known(c, b)'
      BY <1>3, <1>4, <2>1, <2>2, <3>1, <3>2 DEF Known, Row
    <3>4. WithId(Rows(c), b.id) = {b}
      BY <1>1, <3>1, OneById DEF TableOK, Rows
    <3>5. There(c, b)'
      BY <2>1, <2>2, <3>1, <3>4 DEF There
    <3>6. QED
      BY <3>3, <3>5
  <2>4. QED
    BY <2>1, <2>3 DEF Found
<1>7. ~Holding(c)
  BY DEF Holding
<1>8. QED
  BY <1>1, <1>2, <1>5, <1>6, <1>7, NoticeIsGood

(* session.merge, the upsert of a membership, guarded updates, revocation.  *)
LEMMA MergeIsGood ==
  ASSUME NEW c \in DOMAIN asked, SqlInv, Merge(c)
  PROVE  Good
<1> DEFINE t == asked[c].table
           rows == WithId(Rows(c), Row(c).id)
<1>1. /\ CallOK(asked[c]) /\ TableOK(db, t) /\ SqlTyped /\ WorkOK(db, asked, Open) /\ t \in DOMAIN Schema
  BY CallTable DEF SqlInv, WorkOK
<1>2. Reach(c, "found", rows)
  BY DEF Merge
<1>3. \A r, s \in rows : r = s
  BY <1>1 DEF TableOK, Rows, WithId
<1>4. CASE Is(c, {"put"}, "start") /\ ~Repeats(Row(c))
  <2>1. rows = Contract!Prior(c) /\ rows \subseteq Rows(c)
    BY <1>4, SameCall DEF Is, WithId
  <2>2. Stable(c) = {}
    BY <1>4 DEF Is, Stable
  <2> HIDE DEF rows
  <2>3. QED
    BY <1>2, <1>3, <1>4, <2>1, <2>2, FirstReadIsGood DEF Is
<1>5. CASE Is(c, {"amend"}, "absent")
  <2>1. t = "memories" /\ Lacking(c) /\ c \in Open
    BY <1>1, <1>5, CallTables, IsOpen DEF Is, SqlInv, TxOK
  <2>2. rows = {}
    BY <2>1 DEF Lacking, Rows
  <2> DEFINE next == Entry("found", rows, tx[c].no, tx[c].tries)
  <2>3. Moves(c, next) /\ UNCHANGED <<db, answer, faults>> /\ next.at = "found" /\ next.seen = {}
    BY <1>1, <1>2, <2>2, ReachIs DEF Places, Entry
  <2> HIDE DEF next
  <2>4. LocksDiffer'
    BY <2>3, LocksStay DEF SqlInv
  <2>5. TxOK(c)'
    BY <1>1, <1>5, <2>1, <2>3, MoveIs DEF TxOK, Found, Lacking, Row, Holding, Is, Moves
  <2>6. Sees(c, tx[c]) = {} /\ Sees(c, next) = {}
    BY <1>5, <2>3 DEF Sees, Is
  <2>7. QED
    BY <2>1, <2>3, <2>4, <2>5, <2>6, StutterIsGood
<1>6. QED
  BY <1>4, <1>5 DEF Merge

LEMMA FindMemberIsGood ==
  ASSUME NEW c \in DOMAIN asked, SqlInv, FindMember(c)
  PROVE  Good
<1> DEFINE rows == {r \in db.members : r.ws = Row(c).ws /\ r.principal = Row(c).principal}
<1>1. asked[c].op = "enrol" /\ tx[c].at = "start" /\ Reach(c, "found", rows)
  BY DEF FindMember, Is
<1>2. asked[c].table = "members" /\ TableOK(db, "members")
  BY <1>1, CallTables, SchemaIs DEF SqlInv, WorkOK
<1>3. rows = Contract!Prior(c) /\ rows \subseteq Rows(c)
  BY <1>1, <1>2, SameCall DEF Rows
<1>4. \A r, s \in rows : r = s
  <2>1. Schema["members"].unique = {"ws", "principal"}
    BY SchemaIs DEF Members, Paged, Table, MemberIndex
  <2>2. QED
    BY <1>2, <2>1 DEF TableOK, Fits
<1>5. Stable(c) = {"ws", "principal"}
  BY <1>1 DEF Stable
<1>6. \A r \in rows : \A col \in Stable(c) : r[col] = Row(c)[col]
  BY <1>5
<1> HIDE DEF rows
<1>7. QED
  BY <1>1, <1>3, <1>4, <1>6, FirstReadIsGood

LEMMA GuardedIsGood ==
  ASSUME NEW c \in DOMAIN asked, SqlInv, Guarded(c)
  PROVE  Good
<1> DEFINE rows == WithId(Rows(c), Row(c).id)
           same == rows # {} /\ \A r \in rows, col \in Shape(c).compared : r[col] = Row(c)[col]
           t == asked[c].table
<1>1. /\ asked[c].op = "update" /\ tx[c].at = "start" /\ c \in Open
      /\ IF same THEN Reach(c, "found", rows) ELSE Refuse(c)
  BY IsOpen DEF Guarded, Is
<1>2. t \in {"conflicts", "maintenances", "attempts"} /\ t \in DOMAIN Schema /\ TableOK(db, t)
  BY <1>1, CallTables, CallTable DEF SqlInv, WorkOK
<1>3. \A r, s \in rows : r = s
  BY <1>2 DEF TableOK, WithId, Rows
<1>4. rows = Contract!Prior(c) /\ rows \subseteq Rows(c) /\ Contract!Shape(c).fixed = Shape(c).compared
      /\ Contract!Row(c) = Row(c)
  BY <1>1, <1>2, SameCall, TablesMatch DEF WithId, Matches, Shape
<1>5. CASE same
  <2>1. Stable(c) = Shape(c).compared
    BY <1>1 DEF Stable
  <2>2. rows # {} /\ \A r \in rows : \A col \in Stable(c) : r[col] = Row(c)[col]
    BY <1>5, <2>1
  <2>3. Reach(c, "found", rows)
    BY <1>1, <1>5
  <2> HIDE DEF rows, same
  <2>4. QED
    BY <1>1, <1>3, <1>4, <2>2, <2>3, FirstReadIsGood
<1>6. CASE ~same
  <2>1. \A b \in rows : \E col \in Shape(c).compared : b[col] # Row(c)[col]
    BY <1>3, <1>6
  <2>2. Denied(c)
    BY <1>1, <1>4, <2>1 DEF Denied, Contract!Refusable, Contract!SchemaRefuses, Contract!Differs
  <2>3. QED
    BY <1>1, <1>6, <2>2, RefusalIsGood
<1>7. QED
  BY <1>5, <1>6

LEMMA FindKeyIsGood ==
  ASSUME NEW c \in DOMAIN asked, SqlInv, FindKey(c)
  PROVE  Good
<1> DEFINE keys == WithId(db.keys, asked[c].id)
<1>1. asked[c].op = "revoke" /\ tx[c].at = "start" /\ c \in Open
  BY IsOpen DEF FindKey, Is
<1>2. asked[c].table = "keys" /\ TableOK(db, "keys") /\ CallOK(asked[c]) /\ SqlTyped
  BY <1>1, CallTables, SchemaIs DEF SqlInv, WorkOK
<1>3. \A r, s \in keys : r = s
  BY <1>2 DEF TableOK, WithId
<1>4. CASE keys = {}
  <2>1. Answer(c, "absent", <<>>) /\ UNCHANGED db
    BY <1>4 DEF FindKey
  <2>2. Contract!Waiting(c) /\ Contract!Answer(c, "absent", <<>>)
    BY <1>1, <1>2, <2>1, ContractAnswers
  <2>3. Contract!Revoke(c)
    BY <1>1, <1>4, <2>1, <2>2, SameTables DEF Contract!Revoke, Contract!Is
  <2>4. QED
    BY <2>1, <2>3, SettledKeeps DEF Good, Contract!Next
<1>5. CASE keys # {} /\ \E k \in keys : k.revoked # 0
  <2>1. Answer(c, "ok", <<>>) /\ UNCHANGED db
    BY <1>5 DEF FindKey
  <2>2. Contract!Waiting(c) /\ Contract!Answer(c, "ok", <<>>)
    BY <1>1, <1>2, <2>1, ContractAnswers
  <2>3. Contract!Revoke(c)
    BY <1>1, <1>5, <2>1, <2>2, SameTables DEF Contract!Revoke, Contract!Is
  <2>4. QED
    BY <2>1, <2>3, SettledKeeps DEF Good, Contract!Next
<1>6. CASE keys # {} /\ \A k \in keys : k.revoked = 0
  <2> DEFINE next == Entry("found", keys, tx[c].no, tx[c].tries)
  <2>1. Reach(c, "found", keys)
    BY <1>6 DEF FindKey
  <2>2. Moves(c, next) /\ UNCHANGED <<db, answer, faults>> /\ next.at = "found" /\ next.seen = keys
    BY <1>2, <2>1, ReachIs DEF Places, Entry
  <2> HIDE DEF next
  <2>3. Sees(c, tx[c]) = {} /\ Sees(c, next) = {"live"}
    BY <1>1, <2>2 DEF Sees
  <2>4. Contract!Facts(c) = {"live"}
    BY <1>1, <1>2, <1>6, SameCall, SameTables DEF Contract!Facts, Rows
  <2>5. Found(c)'
    <3>1. asked' = asked /\ tx'[c].seen = keys /\ Row(c)' = Row(c) /\ Rows(c)' = db.keys
      BY <1>2, <2>2, MoveIs DEF Moves, Row, Rows
    <3>2. Stable(c)' = {}
      BY <1>1, <3>1 DEF Stable
    <3>3. ASSUME NEW b \in keys
          PROVE  Known(c, b)' /\ There(c, b)'
      <4>1. keys = {b} /\ b \in db.keys /\ b.id = asked[c].id /\ b.revoked = 0
        BY <1>3, <1>6, <3>3 DEF WithId
      <4>2. IsRow("keys", b)
        BY <1>2, <4>1 DEF TableOK
      <4>3. Known(c, b)'
        BY <1>1, <1>2, <3>1, <3>2, <4>1, <4>2 DEF Known
      <4>4. There(c, b)'
        BY <1>1, <3>1, <3>2, <4>1 DEF There, WithId
      <4>5. QED
        BY <4>3, <4>4
    <3>4. QED
      BY <1>1, <1>6, <3>1, <3>3 DEF Found
  <2>6. ~Holding(c)
    BY <1>1 DEF Holding
  <2>7. QED
    BY <1>1, <2>2, <2>3, <2>4, <2>5, <2>6, NoticeIsGood
<1>7. QED
  BY <1>4, <1>5, <1>6

(* A call that puts rows keeps numbers from being given in their table.    *)
LEMMA PutTable ==
  ASSUME NEW c \in DOMAIN asked, WorkOK(db, asked, Open), asked[c].op = "put"
  PROVE  /\ Row(c) \in PutRows(asked, asked[c].table)
         /\ asked[c].table = "events" => Doing(asked, {"append"}) = {}
         /\ asked[c].table = "versions" => Doing(asked, {"amend", "transition"}) = {}
<1>1. Row(c) \in PutRows(asked, asked[c].table)
  BY DEF PutRows, Doing, Row
<1>2. QED
  BY <1>1 DEF WorkOK, NumbersOK

(* Memberships are written by enrolments alone.                             *)
LEMMA NoPutMembers ==
  ASSUME WorkOK(db, asked, Open)
  PROVE  PutRows(asked, "members") = {}
  BY CallTables DEF WorkOK, PutRows, Doing

(* No row of a log is written but by adding it.                            *)
LEMMA NoPutLogs ==
  ASSUME WorkOK(db, asked, Open)
  PROVE  PutRows(asked, "gate_logs") = {} /\ PutRows(asked, "profile") = {}
  BY CallTables DEF WorkOK, PutRows, Doing

(* Who writes the tables that others count on.                              *)
LEMMA GainTables ==
  ASSUME NEW c \in DOMAIN asked, WorkOK(db, asked, Open), asked[c].op \in {"put", "log", "enrol", "amend", "update", "revoke"}
  PROVE  /\ asked[c].table = "events" => Doing(asked, {"append"}) = {}
         /\ asked[c].table = "versions" => Doing(asked, {"amend", "transition"}) = {}
         /\ asked[c].table = "members" => asked[c].op = "enrol"
         /\ asked[c].table = "audits" => asked[c].op = "put"
         /\ asked[c].table = "memories" => asked[c].op \in {"put", "amend"}
  BY PutTable, CallTables DEF WorkOK

(* An insert is storable, its identifier unclaimed ...                      *)
LEMMA InsertStorable ==
  ASSUME NEW c \in DOMAIN asked, SqlInv, c \in Open, asked[c].op \in {"put", "log", "enrol", "amend"},
         WithId(Rows(c), Row(c).id) = {}, Allowed(c, Row(c))
  PROVE  /\ Storable(db, asked, asked[c].table, Row(c))
         /\ Unclaimed(asked, Open \ {c}, asked[c].table, Row(c))
<1> DEFINE t == asked[c].table
           row == Row(c)
           known == db[t] \cup PutRows(asked, t)
<1>1. t \in DOMAIN Schema /\ IsRow(t, row) /\ WorkOK(db, asked, Open) /\ Shape(c) = Schema[t]
  BY CallTable DEF SqlInv, WorkOK, CallOK, Row, Shape
<1>2. \A r \in db[t] : r.id # row.id
  BY DEF WithId, Rows
<1>3. Kin(db, asked, t, row)
  <2>1. CASE asked[c].op = "put"
    <3>1. row \in known
      BY <1>1, <2>1, PutTable
    <3>2. QED
      BY <3>1 DEF Kin
  <2>2. CASE asked[c].op = "enrol"
    <3>1. t = "members"
      BY <1>1, <2>2, CallTables DEF WorkOK
    <3>2. QED
      BY <1>1, <1>2, <3>1, NoPutMembers DEF Kin
  <2>3. CASE asked[c].op = "amend"
    <3>1. t = "memories"
      BY <1>1, <2>3, CallTables DEF WorkOK
    <3>2. Schema["memories"].unique = {} /\ Schema["memories"].compared = {}
      BY SchemaIs DEF Memories, Table
    <3>3. QED
      BY <3>1, <3>2 DEF Kin
  <2>4. CASE asked[c].op = "log"
    <3>1. t \in {"gate_logs", "profile"}
      BY <1>1, <2>4, CallTables DEF WorkOK
    <3>2. PutRows(asked, t) = {}
      BY <1>1, <3>1, NoPutLogs
    <3>3. QED
      BY <1>2, <3>1, <3>2 DEF Kin
  <2>5. QED
    BY <2>1, <2>2, <2>3, <2>4
<1>4. Storable(db, asked, t, row)
  BY <1>1, <1>3 DEF Storable, Allowed, Rows
<1>5. ASSUME t = "members", NEW d \in Doing(asked, {"enrol"}) \cap (Open \ {c})
      PROVE  row.id # asked[d].row.id /\ row.updated # asked[d].row.updated
  <2>1. row \in {asked[e].row : e \in Doing(asked, {"enrol"}) \ {d}}
    BY <1>1, <1>5, GainTables DEF Row, Doing
  <2>2. QED
    BY <1>1, <1>5, <2>1 DEF WorkOK, IdentityOK
<1>6. ASSUME t = "audits", NEW d \in Doing(asked, {"transition"}) \cap (Open \ {c})
      PROVE  row.id # asked[d].audit.id
  <2>1. row \in PutRows(asked, "audits")
    BY <1>1, <1>6, GainTables, PutTable
  <2>2. QED
    BY <1>1, <1>6, <2>1 DEF WorkOK, IdentityOK
<1>7. QED
  BY <1>4, <1>5, <1>6 DEF Unclaimed

(* ... and no transaction under way counts on the place it takes.           *)
LEMMA InsertHarmless ==
  ASSUME NEW c \in DOMAIN asked, SqlInv, c \in Open, asked[c].op \in {"put", "log", "enrol", "amend"},
         WithId(Rows(c), Row(c).id) = {}, NEW d \in (DOMAIN asked) \ {c}
  PROVE  Harmless(d, asked[c].table, Row(c))
<1> DEFINE t == asked[c].table
<1>1. WorkOK(db, asked, Open) /\ TxOK(d) /\ CallOK(asked[d]) /\ d \in DOMAIN asked
  BY DEF SqlInv, WorkOK
<1>2. ASSUME t = "memories", Waits(d)
      PROVE  Row(c).id # Row(d).id
  <2>1. CASE tx[d].at \in {"locked", "numbered"}
    BY <1>1, <1>2, <2>1 DEF TxOK, LockOK, Holding, Waits, Rows
  <2>2. CASE tx[d].at \in {"found", "absent"}
    <3>1. Lacking(d) /\ asked[d].op = "amend" /\ d \in Open
      BY <1>1, <1>2, <2>2, IsOpen DEF TxOK, Found, Waits
    <3>2. d \in Doing(asked, {"amend"}) \cap Open /\ c \in Doing(asked, {"put", "amend"}) \ {d}
      BY <1>1, <1>2, <3>1, GainTables DEF Doing
    <3>3. QED
      BY <1>1, <1>2, <3>1, <3>2 DEF WorkOK, IdentityOK, Lacking, Row
  <2>3. QED
    BY <1>2, <2>1, <2>2 DEF Waits
<1>3. t = "events" => asked[d].op # "append"
  BY <1>1, GainTables DEF Doing
<1>4. t = "versions" => ~Waits(d)
  BY <1>1, GainTables DEF Doing, Waits
<1>5. ASSUME t = "members", asked[d].op = "enrol", tx[d].at = "found", NEW b \in tx[d].seen
      PROVE  Row(c).id # b.id
  <2>1. Known(d, b)
    BY <1>1, <1>5 DEF TxOK, Found
  <2>2. c \in Doing(asked, {"enrol"}) \cap Open
    BY <1>1, <1>5, GainTables DEF Doing
  <2>3. QED
    BY <1>5, <2>1, <2>2 DEF Known
<1>6. QED
  BY <1>1, <1>2, <1>3, <1>4, <1>5, NoPutMembers DEF Harmless

(* What the two uniqueness rules of memberships and events come to.        *)
LEMMA MemberFits ==
  ASSUME NEW c \in DOMAIN asked, asked[c].op = "enrol", asked[c].table = "members",
         \A r \in db.members : r.id # Row(c).id
  PROVE  Fits(Rows(c), Shape(c).unique, Row(c)) <=> Contract!Prior(c) = {}
<1>1. Shape(c).unique = {"ws", "principal"}
  BY SchemaIs DEF Shape, Members, Paged, Table, MemberIndex
<1>2. Contract!Prior(c) = {r \in db.members : r.ws = Row(c).ws /\ r.principal = Row(c).principal}
  BY SameCall DEF Rows
<1>3. QED
  BY <1>1, <1>2 DEF Fits, Rows

LEMMA EventsFit ==
  ASSUME NEW c \in DOMAIN asked, WorkOK(db, asked, Open), asked[c].op = "put", asked[c].table = "events"
  PROVE  Fits(Rows(c), Shape(c).unique, Row(c))
<1>1. Shape(c).unique = EventIndex
  BY SchemaIs DEF Shape, Events, Table
<1>2. Fits(db.events \cup PutRows(asked, "events"), EventIndex, Row(c))
  BY PutTable DEF WorkOK, IdentityOK
<1>3. QED
  BY <1>1, <1>2 DEF Fits, Rows

(* The unique columns of the contract are among those of the schema.        *)
LEMMA ContractFits ==
  ASSUME NEW c, asked[c].table \in DOMAIN Schema, NEW row, Fits(Rows(c), Shape(c).unique, row)
  PROVE  Contract!Fits(Contract!Rows(c), Contract!Shape(c).unique, row)
<1>1. Contract!Shape(c).unique = Shape(c).unique \/ Contract!Shape(c).unique = {}
  BY SameCall, TablesMatch DEF Matches, Shape
<1>2. QED
  BY <1>1, SameTables, SameCall DEF Fits

(* The insert after a read that found nothing.                              *)
LEMMA FlushInsertIsGood ==
  ASSUME NEW c \in DOMAIN asked, SqlInv, FlushInsert(c)
  PROVE  Good
<1> DEFINE t == asked[c].table
           row == Row(c)
           goes == WithId(Rows(c), row.id) = {} /\ Allowed(c, row)
<1>1. tx[c].at = "found" /\ tx[c].seen = {} /\ Found(c) /\ c \in Open /\ WorkOK(db, asked, Open) /\ SqlTyped
  BY IsOpen DEF FlushInsert, SqlInv, TxOK
<1>2. asked[c].op \in {"put", "enrol", "amend"} /\ (asked[c].op = "put" => ~Repeats(row))
  BY <1>1 DEF Found
<1>3. t \in DOMAIN Schema /\ IsRow(t, row) /\ Shape(c) = Schema[t] /\ Restrict(row, Shape(c).columns) = row
  BY <1>1, <1>2, CallTable, RowIsItself DEF WorkOK, CallOK, Row, Shape
<1>4. IF goes THEN Write(c, row) /\ Answer(c, "ok", <<>>) ELSE Refuse(c)
  BY <1>3 DEF FlushInsert
<1>5. asked[c].op = "enrol" => t = "members" /\ \A r \in db.members : r.id # row.id
  <2>1. ASSUME asked[c].op = "enrol"
        PROVE  c \in Doing(asked, {"enrol"}) \cap Open
    BY <1>1, <2>1 DEF Doing
  <2>2. QED
    BY <1>1, <2>1, CallTables DEF WorkOK, IdentityOK, Row
<1>6. asked[c].op # "enrol" => Contract!Prior(c) = WithId(Rows(c), row.id)
  BY SameCall
<1>7. "absent" \in Noticed[c] \/ asked[c].op = "amend"
  BY <1>1, <1>2 DEF Noticed
<1>8. CASE goes
  <2>1. Gains(db, db', t, row)
    BY <1>1, <1>3, <1>4, <1>8, StoredTable DEF Write
  <2>2. Storable(db, asked, t, row) /\ Unclaimed(asked, Open \ {c}, t, row)
    BY <1>1, <1>2, <1>8, InsertStorable
  <2>3. \A d \in (DOMAIN asked) \ {c} : Harmless(d, t, row)
    BY <1>1, <1>2, <1>8, InsertHarmless
  <2>4. NumbersOK(db', asked, Open \ {c})
    <3>1. t = "events" => Doing(asked, {"append"}) = {}
      BY <1>1, <1>2, GainTables
    <3>2. t = "versions" => Doing(asked, {"amend", "transition"}) = {}
      BY <1>1, <1>2, GainTables
    <3> HIDE DEF t, row
    <3>3. QED
      BY <1>1, <2>1, <3>1, <3>2, SameNumbers DEF WorkOK
  <2>5. SqlInv'
    BY <1>4, <1>8, <2>1, <2>2, <2>3, <2>4, GainKeeps
  <2>6. Contract!Waiting(c) /\ Contract!Answer(c, "ok", <<>>)
    BY <1>1, <1>4, <1>8, ContractAnswers
  <2>7. Contract!Prior(c) = {}
    BY <1>2, <1>5, <1>6, <1>8, MemberFits DEF Allowed
  <2>8. Contract!Write(c, Contract!Row(c))
    BY <1>4, <1>8, SameCall
  <2>9. Contract!Insert(c)
    <3>1. Contract!Fits(Contract!Rows(c), Contract!Shape(c).unique, Contract!Row(c))
      BY <1>3, <1>8, ContractFits, SameCall DEF Allowed
    <3>2. QED
      BY <2>6, <2>7, <2>8, <3>1 DEF Contract!Insert
  <2>10. Contract!Put(c) \/ Contract!Enrol(c) \/ Contract!Amend(c)
    <3>1. asked[c].op = "put" => Contract!Put(c)
      BY <1>2, <2>6, <2>9, SameTables, SameCall DEF Contract!Put, Contract!Is
    <3>2. asked[c].op = "enrol" => Contract!Enrol(c)
      BY <2>6, <2>9 DEF Contract!Enrol, Contract!Is
    <3>3. asked[c].op = "amend" => Contract!Amend(c)
      BY <2>6, <2>7, <2>8 DEF Contract!Amend, Contract!Is
    <3>4. QED
      BY <1>2, <3>1, <3>2, <3>3
  <2>11. QED
    BY <2>5, <2>10 DEF Good, Contract!Next
<1>9. CASE ~goes
  <2>1. Denied(c)
    <3>1. CASE asked[c].op = "put"
      <4>1. CASE WithId(Rows(c), row.id) # {}
        BY <1>6, <1>7, <3>1, <4>1 DEF Denied, Contract!Refusable, Contract!SchemaRefuses, Contract!Overtaken
      <4>2. CASE ~Fits(Rows(c), Shape(c).unique, row)
        <5>1. t \notin {"events", "members"}
          BY <1>1, <3>1, <4>2, EventsFit, CallTables DEF WorkOK
        <5>2. Contract!Shape(c).unique = Shape(c).unique
          BY <1>3, <5>1, SameCall, TablesMatch DEF Matches
        <5>3. QED
          BY <3>1, <4>2, <5>2, SameCall, SameTables DEF Denied, Contract!Refusable, Contract!SchemaRefuses
      <4>3. CASE Shape(c).refers /\ WithId(db.runs, row.run) = {}
        <5>1. t \in {"steps", "events", "nodes"}
          BY <1>3, <4>3, TablesMatch DEF Matches
        <5>2. QED
          BY <3>1, <4>3, <5>1, SameCall, SameTables DEF Denied, Contract!Refusable, Contract!SchemaRefuses, Contract!Orphan
      <4>4. QED
        BY <1>9, <4>1, <4>2, <4>3 DEF Allowed
    <3>2. CASE asked[c].op = "enrol"
      <4>1. ~Schema["members"].refers
        BY SchemaIs DEF Members, Paged, Table
      <4>2. WithId(Rows(c), row.id) = {}
        BY <1>5, <3>2 DEF Rows, WithId
      <4>3. Contract!Prior(c) # {}
        BY <1>3, <1>5, <1>9, <3>2, <4>1, <4>2, MemberFits DEF Allowed
      <4>4. QED
        BY <1>7, <3>2, <4>3 DEF Denied, Contract!Refusable, Contract!SchemaRefuses, Contract!Overtaken
    <3>3. CASE asked[c].op = "amend"
      <4>1. t = "memories" /\ WithId(Rows(c), row.id) = {}
        BY <1>1, <3>3, CallTables DEF WorkOK, Found, Lacking, Rows
      <4>2. Schema["memories"].unique = {} /\ ~Schema["memories"].refers
        BY SchemaIs DEF Memories, Table
      <4>3. QED
        BY <1>3, <1>9, <4>1, <4>2 DEF Allowed, Fits
    <3>4. QED
      BY <1>2, <3>1, <3>2, <3>3
  <2>2. QED
    BY <1>1, <1>4, <1>9, <2>1, RefusalIsGood
<1>10. QED
  BY <1>8, <1>9

(* An entry is added to a log, or its identifier is taken.                 *)
LEMMA LogRowIsGood ==
  ASSUME NEW c \in DOMAIN asked, SqlInv, LogRow(c)
  PROVE  Good
<1> DEFINE t == asked[c].table
           row == Row(c)
           goes == WithId(Rows(c), row.id) = {} /\ Allowed(c, row)
<1>1. tx[c].at = "start" /\ asked[c].op = "log" /\ c \in Open /\ WorkOK(db, asked, Open) /\ SqlTyped
  BY IsOpen DEF LogRow, Is, SqlInv
<1>2. t \in {"gate_logs", "profile"} /\ IsRow(t, row) /\ Shape(c) = Schema[t]
  BY <1>1, CallTables DEF WorkOK, CallOK, Row, Shape
<1>3. /\ t \in DOMAIN Schema /\ Restrict(row, Shape(c).columns) = row
      /\ Schema[t].unique = {} /\ ~Schema[t].refers
  BY <1>2, SchemaIs, RowIsItself DEF GateLogs, Profile, Table
<1>4. IF goes THEN Write(c, row) /\ Answer(c, "ok", <<>>) ELSE Refuse(c)
  BY <1>3 DEF LogRow
<1>5. Contract!Prior(c) = WithId(Rows(c), row.id)
  BY <1>1, SameCall
<1>6. CASE goes
  <2>1. Gains(db, db', t, row)
    BY <1>1, <1>3, <1>4, <1>6, StoredTable DEF Write
  <2>2. Storable(db, asked, t, row) /\ Unclaimed(asked, Open \ {c}, t, row)
    BY <1>1, <1>6, InsertStorable
  <2>3. \A d \in (DOMAIN asked) \ {c} : Harmless(d, t, row)
    BY <1>1, <1>6, InsertHarmless
  <2>4. NumbersOK(db', asked, Open \ {c})
    <3> HIDE DEF row
    <3>1. t # "events" /\ t # "versions"
      BY <1>2
    <3> HIDE DEF t
    <3>2. QED
      BY <1>1, <2>1, <3>1, SameNumbers DEF WorkOK
  <2>5. SqlInv'
    BY <1>4, <1>6, <2>1, <2>2, <2>3, <2>4, GainKeeps
  <2>6. Contract!Waiting(c) /\ Contract!Answer(c, "ok", <<>>)
    BY <1>1, <1>4, <1>6, ContractAnswers
  <2>7. Stored(db[t], row) = db[t] \cup {row}
    BY <1>6 DEF Stored, WithId, Rows
  <2>8. db' = [db EXCEPT ![t] = @ \cup {Contract!Row(c)}]
    BY <1>4, <1>6, <2>7, SameCall DEF Write
  <2>9. Contract!Log(c)
    BY <1>1, <2>6, <2>8 DEF Contract!Log, Contract!Is
  <2>10. QED
    BY <2>5, <2>9 DEF Good, Contract!Next
<1>7. CASE ~goes
  <2>1. WithId(Rows(c), row.id) # {}
    BY <1>2, <1>3, <1>7 DEF Allowed, Fits
  <2>2. Denied(c)
    BY <1>1, <1>5, <2>1 DEF Denied, Contract!SchemaRefuses
  <2>3. QED
    BY <1>1, <1>4, <1>7, <2>2, RefusalIsGood
<1>8. QED
  BY <1>6, <1>7

(* A row that an update made of the stored row r, by what it read in b.    *)
New(c, b, r) == Updated(r, b, Target(c, b))
Writing(c, b, r) ==
  /\ SqlInv /\ tx[c].at = "found" /\ b \in tx[c].seen /\ r \in WithId(Rows(c), b.id)

(* What is known of the two rows.                                           *)
LEMMA WritingIs ==
  ASSUME NEW c \in DOMAIN asked, NEW b, NEW r, Writing(c, b, r)
  PROVE  /\ c \in Open /\ WorkOK(db, asked, Open) /\ SqlTyped /\ CallOK(asked[c])
         /\ asked[c].op \in {"put", "enrol", "update", "revoke"} /\ Found(c) /\ Known(c, b) /\ There(c, b)
         /\ asked[c].table \in DOMAIN Schema /\ TableOK(db, asked[c].table)
         /\ IsRow(asked[c].table, b) /\ IsRow(asked[c].table, r) /\ r \in Rows(c) /\ r.id = b.id
         /\ DOMAIN b = Schema[asked[c].table].columns /\ DOMAIN r = Schema[asked[c].table].columns
         /\ Shape(c) = Schema[asked[c].table]
<1>1. c \in Open /\ WorkOK(db, asked, Open) /\ SqlTyped /\ CallOK(asked[c]) /\ Found(c)
  BY IsOpen DEF Writing, SqlInv, TxOK, WorkOK
<1>2. asked[c].table \in DOMAIN Schema /\ TableOK(db, asked[c].table)
  BY <1>1, CallTable DEF WorkOK
<1>3. Known(c, b) /\ There(c, b) /\ r \in Rows(c) /\ r.id = b.id
  BY <1>1 DEF Found, Writing, WithId
<1>4. asked[c].op \in {"put", "enrol", "update", "revoke"}
  BY <1>1 DEF Found, Lacking, Writing
<1>5. IsRow(asked[c].table, b) /\ IsRow(asked[c].table, r)
  BY <1>2, <1>3 DEF Known, TableOK, Rows
<1>6. QED
  BY <1>1, <1>2, <1>3, <1>4, <1>5, RowIsItself DEF Shape

(* The new row takes the columns that differ, and keeps the identifier.     *)
LEMMA NewIs ==
  ASSUME NEW c \in DOMAIN asked, NEW b, NEW r, Writing(c, b, r), asked[c].op # "revoke"
  PROVE  /\ IsRow(asked[c].table, New(c, b, r))
         /\ \A col \in Schema[asked[c].table].columns :
              New(c, b, r)[col] = IF col \in Assigned(c) /\ b[col] # Row(c)[col] THEN Row(c)[col] ELSE r[col]
         /\ New(c, b, r).id = r.id
<1> DEFINE t == asked[c].table
           after == Target(c, b)
           cols == Schema[t].columns
<1>1. DOMAIN b = cols /\ DOMAIN r = cols /\ Shape(c) = Schema[t]
  BY WritingIs
<1>2. after = [col \in cols |-> IF col \in Assigned(c) THEN Row(c)[col] ELSE b[col]]
  BY <1>1 DEF Target
<1>3. New(c, b, r) = [col \in cols |-> IF col \in Assigned(c) /\ b[col] # Row(c)[col] THEN Row(c)[col] ELSE r[col]]
  BY <1>1, <1>2 DEF New, Updated, Changes
<1>4. "id" \in cols
  BY WritingIs, TablesMatch DEF Matches
<1>5. "id" \in Assigned(c) => b.id = Row(c).id
  <2>1. asked[c].op \in {"put", "update"} => b.id = Row(c).id
    BY WritingIs DEF Known
  <2>2. asked[c].op = "enrol" => "id" \notin Assigned(c)
    BY DEF Assigned
  <2>3. QED
    BY <2>1, <2>2, WritingIs
<1> HIDE DEF cols, after
<1>6. New(c, b, r).id = r.id
  BY <1>3, <1>4, <1>5
<1>7. IsRow(t, New(c, b, r))
  BY <1>3 DEF IsRow, cols
<1>8. QED
  BY <1>3, <1>6, <1>7 DEF cols

(* A revocation writes its time, and nothing else.                          *)
LEMMA RevokedIs ==
  ASSUME NEW c \in DOMAIN asked, NEW b, NEW r, Writing(c, b, r), asked[c].op = "revoke"
  PROVE  /\ asked[c].table = "keys" /\ "revoked" \in Changes(b, Target(c, b))
         /\ New(c, b, r) = [r EXCEPT !.revoked = asked[c].at]
         /\ IsRow("keys", New(c, b, r)) /\ New(c, b, r).id = r.id
         /\ \A col \in Schema["keys"].columns \ {"revoked"} : New(c, b, r)[col] = r[col]
<1>1. asked[c].table = "keys" /\ asked[c].at # 0 /\ b.revoked = 0
  BY WritingIs, CallTables DEF Known
<1>2. IsRow("keys", b) /\ IsRow("keys", r) /\ DOMAIN b = Schema["keys"].columns /\ DOMAIN r = Schema["keys"].columns
  BY <1>1, WritingIs
<1>3. {"id", "revoked"} \subseteq Schema["keys"].columns
  BY SchemaIs DEF Keys, Paged, Table, KeyColumns
<1>4. Target(c, b) = [b EXCEPT !.revoked = asked[c].at]
  BY DEF Target
<1>5. Changes(b, Target(c, b)) = {"revoked"}
  BY <1>1, <1>2, <1>3, <1>4 DEF Changes
<1>6. New(c, b, r) = [r EXCEPT !.revoked = asked[c].at]
  <2>1. Target(c, b)["revoked"] = asked[c].at
    BY <1>2, <1>3, <1>4
  <2>2. New(c, b, r) = [col \in Schema["keys"].columns |-> IF col = "revoked" THEN asked[c].at ELSE r[col]]
    BY <1>2, <1>5, <2>1 DEF New, Updated
  <2>3. r = [col \in Schema["keys"].columns |-> r[col]]
    BY <1>2 DEF IsRow
  <2>4. QED
    BY <2>2, <2>3
<1>7. QED
  BY <1>1, <1>2, <1>3, <1>5, <1>6, RowExcept

(* The unique columns hold those of the stored row, or those wanted.       *)
LEMMA NewIdentity ==
  ASSUME NEW c \in DOMAIN asked, NEW b, NEW r, Writing(c, b, r)
  PROVE  \/ \A col \in Shape(c).unique \cup Shape(c).compared : New(c, b, r)[col] = r[col]
         \/ asked[c].op = "put" /\ \A col \in Shape(c).unique \cup Shape(c).compared : New(c, b, r)[col] = Row(c)[col]
<1> DEFINE t == asked[c].table
           keys == Schema[t].unique \cup Schema[t].compared
<1>1. t \in DOMAIN Schema /\ Shape(c) = Schema[t] /\ keys \subseteq Schema[t].columns \ {"id"} /\ CallOK(asked[c])
  BY WritingIs, TablesMatch DEF Matches
<1>2. CASE asked[c].op = "put"
  <2>1. Alike(db[t] \cup PutRows(asked, t), t) /\ r \in db[t] /\ Row(c) \in PutRows(asked, t) /\ r.id = Row(c).id
    <3>1. WorkOK(db, asked, Open) /\ Known(c, b) /\ r \in db[t] /\ r.id = b.id
      BY WritingIs DEF Rows
    <3>2. Row(c) \in PutRows(asked, t) /\ r.id = Row(c).id
      BY <1>2, <3>1, PutTable DEF Known
    <3>3. Alike(db[t] \cup PutRows(asked, t), t)
      BY <1>1, <3>1 DEF WorkOK, IdentityOK
    <3>4. QED
      BY <3>1, <3>2, <3>3
  <2>2. PICK x \in Schema[t].columns : \A col \in Schema[t].unique \ {x} : r[col] = Row(c)[col]
    BY <2>1 DEF Alike
  <2>3. \A col \in Schema[t].compared : r[col] = Row(c)[col]
    BY <2>1 DEF Alike
  <2>4. \A col \in keys : New(c, b, r)[col] \in {r[col], Row(c)[col]}
    BY <1>1, <1>2, NewIs
  <2>5. QED
    BY <1>1, <1>2, <2>2, <2>3, <2>4
<1>3. CASE asked[c].op = "enrol"
  <2>1. t = "members" /\ \A col \in {"ws", "principal"} : r[col] = Row(c)[col]
    BY <1>1, <1>3, WritingIs, CallTables DEF There, Stable, Writing
  <2>2. Schema["members"].unique = {"ws", "principal"} /\ Schema["members"].compared = {}
    BY SchemaIs DEF Members, Paged, Table, MemberIndex
  <2>3. keys = {"ws", "principal"}
    BY <2>1, <2>2
  <2>4. \A col \in keys : New(c, b, r)[col] \in {r[col], Row(c)[col]}
    BY <1>1, <1>3, NewIs
  <2> HIDE DEF keys
  <2>5. \A col \in keys : New(c, b, r)[col] = r[col]
    BY <2>1, <2>3, <2>4
  <2>6. QED
    BY <1>1, <2>5 DEF keys
<1>4. CASE asked[c].op = "update"
  <2>1. t \in {"conflicts", "maintenances", "attempts"} /\ Assigned(c) = Schema[t].assigned
    BY <1>1, <1>4, CallTables DEF Assigned
  <2>2. keys \cap Assigned(c) = {}
    BY <1>1, <2>1, TablesMatch DEF Matches
  <2>3. \A col \in keys : New(c, b, r)[col] = r[col]
    BY <1>1, <1>4, <2>2, NewIs
  <2>4. QED
    BY <1>1, <2>3
<1>5. CASE asked[c].op = "revoke"
  <2>1. t = "keys" /\ \A col \in Schema["keys"].columns \ {"revoked"} : New(c, b, r)[col] = r[col]
    BY <1>5, RevokedIs
  <2>2. Schema["keys"].unique = {"prefix"} /\ Schema["keys"].compared = {} /\ "prefix" \in Schema["keys"].columns
    BY SchemaIs DEF Keys, Paged, Table, KeyIndex, KeyColumns
  <2>3. New(c, b, r)["prefix"] = r["prefix"]
    BY <2>1, <2>2
  <2>4. Shape(c).unique \cup Shape(c).compared = {"prefix"}
    BY <1>1, <2>1, <2>2
  <2>5. QED
    BY <2>3, <2>4
<1>6. QED
  BY <1>2, <1>3, <1>4, <1>5, WritingIs

(* The new row is a row of its table, and kin to it.                        *)
LEMMA NewRow ==
  ASSUME NEW c \in DOMAIN asked, NEW b, NEW r, Writing(c, b, r)
  PROVE  /\ IsRow(asked[c].table, New(c, b, r)) /\ New(c, b, r).id = r.id
         /\ Kin(db, asked, asked[c].table, New(c, b, r))
<1> DEFINE t == asked[c].table
<1>1. IsRow(t, New(c, b, r)) /\ New(c, b, r).id = r.id
  BY NewIs, RevokedIs
<1>2. r \in db[t] /\ Shape(c) = Schema[t] /\ WorkOK(db, asked, Open) /\ r.id = b.id
  BY WritingIs DEF Rows
<1>3. asked[c].op = "put" => Row(c) \in PutRows(asked, t) /\ Row(c).id = r.id
  BY <1>2, PutTable, WritingIs DEF Known
<1>4. QED
  BY <1>1, <1>2, <1>3, NewIdentity DEF Kin

(* Whether a row fits depends on its identifier and unique columns alone.   *)
LEMMA FitsLike ==
  ASSUME NEW rows, NEW unique, NEW r, NEW s, r.id = s.id, \A col \in unique : r[col] = s[col]
  PROVE  Fits(rows, unique, r) <=> Fits(rows, unique, s)
  BY DEF Fits

(* Storing what an update made keeps the invariant ...                     *)
LEMMA NewHarmless ==
  ASSUME NEW c \in DOMAIN asked, NEW b, NEW r, Writing(c, b, r), Free(c, b.id), NEW d \in (DOMAIN asked) \ {c}
  PROVE  Harmless(d, asked[c].table, New(c, b, r))
<1> DEFINE t == asked[c].table
<1>1. /\ WorkOK(db, asked, Open) /\ r \in db[t] /\ r.id = b.id /\ New(c, b, r).id = r.id /\ d \in DOMAIN asked
      /\ asked[c].op \in {"put", "enrol", "update", "revoke"}
  BY WritingIs, NewRow DEF Rows
<1>2. ASSUME t = "memories", Waits(d)
      PROVE  New(c, b, r).id # Row(d).id
  <2>1. ~Locked(b.id) /\ WithId(db.memories, b.id) # {} /\ SqlInv
    BY <1>1, <1>2 DEF Free, WithId, Writing
  <2>2. QED
    BY <1>1, <1>2, <2>1, NobodyWaits
<1>3. t = "events" => asked[d].op # "append"
  BY <1>1, GainTables DEF Doing
<1>4. t = "versions" => ~Waits(d)
  BY <1>1, GainTables DEF Doing, Waits
<1>5. t = "members" => WithId(db.members, New(c, b, r).id) # {}
  BY <1>1 DEF WithId
<1>6. QED
  BY <1>1, <1>2, <1>3, <1>4, <1>5, NoPutMembers DEF Harmless

LEMMA NewUnclaimed ==
  ASSUME NEW c \in DOMAIN asked, NEW b, NEW r, Writing(c, b, r)
  PROVE  Unclaimed(asked, Open \ {c}, asked[c].table, New(c, b, r))
<1> DEFINE t == asked[c].table
<1>1. /\ WorkOK(db, asked, Open) /\ r \in db[t] /\ New(c, b, r).id = r.id
      /\ asked[c].op \in {"put", "enrol", "update", "revoke"}
  BY WritingIs, NewRow DEF Rows
<1>2. ASSUME t = "members", NEW d \in Doing(asked, {"enrol"}) \cap (Open \ {c})
      PROVE  New(c, b, r).id # asked[d].row.id /\ New(c, b, r).updated # asked[d].row.updated
  <2>1. asked[c].op = "enrol"
    BY <1>1, <1>2, GainTables
  <2>2. "updated" \in Schema[t].columns
    BY <1>2, SchemaIs DEF Members, Paged, Table, MemberColumns
  <2>3. New(c, b, r).updated \in {r.updated, Row(c).updated}
    BY <2>1, <2>2, NewIs
  <2>4. Row(c) \in {asked[e].row : e \in Doing(asked, {"enrol"}) \ {d}}
    BY <1>2, <2>1 DEF Row, Doing
  <2>5. \A q \in db.members \cup {asked[e].row : e \in Doing(asked, {"enrol"}) \ {d}} :
          q.id # asked[d].row.id /\ q.updated # asked[d].row.updated
    BY <1>1, <1>2 DEF WorkOK, IdentityOK
  <2>6. QED
    BY <1>1, <1>2, <2>3, <2>4, <2>5
<1>3. ASSUME t = "audits", NEW d \in Doing(asked, {"transition"}) \cap (Open \ {c})
      PROVE  New(c, b, r).id # asked[d].audit.id
  BY <1>1, <1>3 DEF WorkOK, IdentityOK
<1>4. QED
  BY <1>2, <1>3 DEF Unclaimed

LEMMA NewKeeps ==
  ASSUME NEW c \in DOMAIN asked, NEW b, NEW r, Writing(c, b, r), Free(c, b.id), Allowed(c, New(c, b, r)),
         Write(c, New(c, b, r)), Answer(c, "ok", <<>>)
  PROVE  SqlInv'
<1> DEFINE t == asked[c].table
           new == New(c, b, r)
<1>1. /\ WorkOK(db, asked, Open) /\ t \in DOMAIN Schema /\ SqlTyped /\ Shape(c) = Schema[t]
      /\ asked[c].op \in {"put", "enrol", "update", "revoke"} /\ SqlInv
  BY WritingIs DEF Writing
<1>2. Gains(db, db', t, new)
  BY <1>1, StoredTable DEF Write
<1>3. Storable(db, asked, t, new)
  BY <1>1, NewRow DEF Storable, Allowed, Rows
<1>4. Unclaimed(asked, Open \ {c}, t, new)
  BY NewUnclaimed
<1>5. \A d \in (DOMAIN asked) \ {c} : Harmless(d, t, new)
  BY NewHarmless
<1>6. NumbersOK(db', asked, Open \ {c})
  <2>1. t = "events" => Doing(asked, {"append"}) = {}
    BY <1>1, GainTables
  <2>2. t = "versions" => Doing(asked, {"amend", "transition"}) = {}
    BY <1>1, GainTables
  <2> HIDE DEF t, new
  <2>3. QED
    BY <1>1, <1>2, <2>1, <2>2, SameNumbers DEF WorkOK
<1> HIDE DEF t, new
<1>7. QED
  BY <1>1, <1>2, <1>3, <1>4, <1>5, <1>6, GainKeeps

(* ... and is what the contract does with the columns it took note of.     *)
LEMMA OverwriteIs ==
  ASSUME NEW c \in DOMAIN asked, NEW b, NEW r, Writing(c, b, r), asked[c].op # "revoke",
         Fits(Rows(c), Shape(c).unique, New(c, b, r)), Write(c, New(c, b, r)), Answer(c, "ok", <<>>)
  PROVE  Contract!Next
<1> DEFINE t == asked[c].table
           cols == {col \in DOMAIN b : Target(c, b)[col] = b[col]}
<1>1. /\ c \in Open /\ SqlTyped /\ CallOK(asked[c]) /\ asked[c].op \in {"put", "enrol", "update"}
      /\ Found(c) /\ Known(c, b) /\ There(c, b) /\ t \in DOMAIN Schema /\ r \in Rows(c) /\ r.id = b.id
      /\ DOMAIN b = Schema[t].columns /\ DOMAIN r = Schema[t].columns /\ Shape(c) = Schema[t]
      /\ IsRow(t, b)
  BY WritingIs
<1>2. Contract!Waiting(c) /\ Contract!Answer(c, "ok", <<>>) /\ Contract!Write(c, New(c, b, r))
  BY <1>1, ContractAnswers, SameCall
<1>3. Contract!Fits(Contract!Rows(c), Contract!Shape(c).unique, New(c, b, r))
  BY <1>1, ContractFits
<1>4. Noticed[c] = cols
  BY <1>1 DEF Noticed, Writing, Known
<1>5. Covers(c, b)
  BY <1>1, WritesCover DEF Known
<1>6. New(c, b, r) = Contract!Made(c, r, Contract!Kept(c) \cup cols)
  <2>1. New(c, b, r) = [col \in DOMAIN r |-> New(c, b, r)[col]]
    BY <1>1, NewIs DEF IsRow
  <2>2. ASSUME NEW col \in DOMAIN r
        PROVE  New(c, b, r)[col] = IF col \in Contract!Kept(c) \cup cols THEN r[col] ELSE Row(c)[col]
    <3>1. Target(c, b)[col] = IF col \in Assigned(c) THEN Row(c)[col] ELSE b[col]
      BY <1>1, <2>2 DEF Target
    <3>2. New(c, b, r)[col] = IF col \in Assigned(c) /\ b[col] # Row(c)[col] THEN Row(c)[col] ELSE r[col]
      BY <1>1, <2>2, NewIs
    <3>3. col \in Assigned(c) => col \notin Contract!Kept(c)
      BY <1>1, <1>5, <2>2 DEF Covers
    <3>4. QED
      BY <1>1, <2>2, <3>1, <3>2, <3>3
  <2> HIDE DEF cols
  <2>3. Contract!Made(c, r, Contract!Kept(c) \cup cols) =
          [col \in DOMAIN r |-> IF col \in Contract!Kept(c) \cup cols THEN r[col] ELSE Row(c)[col]]
    BY SameCall DEF Contract!Made
  <2>4. QED
    BY <2>1, <2>2, <2>3
<1>7. r \in Contract!Prior(c)
  <2>1. CASE asked[c].op = "enrol"
    <3>1. r.ws = Row(c).ws /\ r.principal = Row(c).principal
      BY <1>1, <2>1 DEF There, Stable, Writing
    <3>2. QED
      BY <1>1, <2>1, <3>1, SameCall
  <2>2. CASE asked[c].op \in {"put", "update"}
    BY <1>1, <2>2, SameCall DEF Known, WithId
  <2>3. QED
    BY <1>1, <2>1, <2>2
<1> HIDE DEF cols
<1>8. Contract!Overwrite(c)
  BY <1>2, <1>3, <1>4, <1>6, <1>7 DEF Contract!Overwrite
<1>9. asked[c].op = "put" => Contract!Put(c)
  BY <1>1, <1>2, <1>8, SameTables, SameCall DEF Contract!Put, Contract!Is, Found
<1>10. asked[c].op = "enrol" => Contract!Enrol(c)
  BY <1>2, <1>8 DEF Contract!Enrol, Contract!Is
<1>11. asked[c].op = "update" => Contract!Update(c)
  <2>1. ASSUME asked[c].op = "update"
        PROVE  \A q \in Contract!Prior(c) : ~Contract!Differs(c, q)
    <3>1. t \in {"conflicts", "maintenances", "attempts"}
      BY <1>1, <2>1, CallTables
    <3>2. Contract!Shape(c).fixed = Stable(c)
      BY <1>1, <2>1, <3>1, SameCall, TablesMatch DEF Matches, Stable
    <3>3. Contract!Prior(c) = WithId(Rows(c), b.id)
      BY <1>1, <2>1, SameCall DEF Known
    <3>4. QED
      BY <1>1, <3>2, <3>3, SameCall DEF There, Contract!Differs
  <2>2. QED
    BY <1>2, <1>8, <2>1 DEF Contract!Update, Contract!Is
<1>12. QED
  BY <1>1, <1>9, <1>10, <1>11 DEF Contract!Next

(* A second revocation counts if both found the key live.                   *)
LEMMA RevokeIs ==
  ASSUME NEW c \in DOMAIN asked, NEW b, NEW r, Writing(c, b, r), asked[c].op = "revoke",
         Write(c, New(c, b, r)), Answer(c, "ok", <<>>)
  PROVE  Contract!Next
<1>1. /\ c \in Open /\ SqlTyped /\ Known(c, b) /\ asked[c].table = "keys" /\ r \in Rows(c) /\ r.id = b.id
      /\ New(c, b, r) = [r EXCEPT !.revoked = asked[c].at]
  BY WritingIs, RevokedIs
<1>2. Contract!Waiting(c) /\ Contract!Answer(c, "ok", <<>>) /\ Contract!Write(c, New(c, b, r))
  BY <1>1, ContractAnswers, SameCall
<1>3. "live" \in Noticed[c]
  BY DEF Noticed, Writing
<1>4. r \in Contract!WithId(db.keys, asked[c].id)
  BY <1>1, SameTables DEF Known, Rows, WithId
<1>5. Contract!Revoke(c)
  BY <1>1, <1>2, <1>3, <1>4 DEF Contract!Revoke, Contract!Is
<1>6. QED
  BY <1>5 DEF Contract!Next

(* A row that agrees with a stored one on the unique columns fits.         *)
LEMMA NewFits ==
  ASSUME NEW c \in DOMAIN asked, NEW b, NEW r, Writing(c, b, r)
  PROVE  \/ Fits(Rows(c), Shape(c).unique, New(c, b, r))
         \/ asked[c].op = "put" /\ ~Fits(Rows(c), Shape(c).unique, Row(c))
<1>1. Fits(Rows(c), Shape(c).unique, r)
  BY WritingIs DEF TableOK, Rows
<1>2. asked[c].op = "put" => Row(c).id = r.id
  BY WritingIs DEF Known
<1>3. QED
  BY <1>1, <1>2, NewRow, NewIdentity, FitsLike

(* A new row that refers to no run is that of a put, an orphan.             *)
LEMMA NewRefers ==
  ASSUME NEW c \in DOMAIN asked, NEW b, NEW r, Writing(c, b, r), Shape(c).refers
  PROVE  WithId(db.runs, New(c, b, r).run) # {} \/ (asked[c].op = "put" /\ Contract!Orphan(c))
<1> DEFINE t == asked[c].table
<1>1. t \in DOMAIN Schema /\ Shape(c) = Schema[t] /\ CallOK(asked[c]) /\ asked[c].op \in {"put", "enrol", "update", "revoke"}
  BY WritingIs
<1>2. t \in {"steps", "events", "nodes"} /\ "run" \in Schema[t].columns
  BY <1>1, TablesMatch DEF Matches
<1>3. asked[c].op = "put"
  BY <1>1, <1>2, CallTables
<1>4. New(c, b, r).run \in {r.run, Row(c).run}
  BY <1>2, <1>3, NewIs
<1>5. WithId(db.runs, r.run) # {}
  BY <1>1, WritingIs DEF TableOK, Rows
<1>6. QED
  BY <1>2, <1>3, <1>4, <1>5, SameCall, SameTables DEF Contract!Orphan

(* Nothing to write: the row stands as it is.                              *)
LEMMA SettledIsGood ==
  ASSUME NEW c \in DOMAIN asked, NEW b, SqlInv, tx[c].at = "found", b \in tx[c].seen,
         Changes(b, Target(c, b)) = {}, Answer(c, "ok", <<>>), UNCHANGED db
  PROVE  Good
<1>1. c \in Open /\ WorkOK(db, asked, Open) /\ CallOK(asked[c]) /\ Found(c) /\ SqlTyped
  BY IsOpen DEF SqlInv, TxOK, WorkOK
<1>2. Known(c, b) /\ There(c, b)
  BY <1>1 DEF Found
<1>3. asked[c].table \in DOMAIN Schema
  BY <1>1, CallTable
<1>4. asked[c].op # "enrol"
  <2>1. SUFFICES ASSUME asked[c].op = "enrol"
                 PROVE  "updated" \in Changes(b, Target(c, b))
    BY DEF Changes
  <2>2. c \in Doing(asked, {"enrol"}) \cap Open
    BY <1>1, <2>1 DEF Doing
  <2>3. b.updated # Row(c).updated
    BY <1>2, <2>1, <2>2 DEF Known
  <2>4. asked[c].table = "members"
    BY <1>1, <2>1, CallTables
  <2>5. Schema["members"].columns = MemberColumns
    BY SchemaIs DEF Members, Paged, Table
  <2>6. "updated" \in DOMAIN b /\ "updated" \in Assigned(c)
    BY <1>2, <2>1, <2>4, <2>5, RowIsItself DEF Known, Assigned, Shape, MemberColumns
  <2>7. Target(c, b)["updated"] = Row(c).updated
    BY <2>1, <2>6 DEF Target
  <2>8. QED
    BY <2>3, <2>6, <2>7 DEF Changes
<1>5. PICK r \in WithId(Rows(c), b.id) : TRUE
  BY <1>2, <1>4 DEF There
<1>6. Writing(c, b, r)
  BY DEF Writing
<1>7. asked[c].op # "revoke"
  BY <1>6, RevokedIs
<1>8. New(c, b, r) = r
  <2>1. New(c, b, r) = [col \in DOMAIN r |-> r[col]]
    BY DEF New, Updated
  <2>2. r = [col \in DOMAIN r |-> r[col]]
    BY <1>6, WritingIs DEF IsRow
  <2>3. QED
    BY <2>1, <2>2
<1>9. Fits(Rows(c), Shape(c).unique, r) /\ Stored(Rows(c), r) = Rows(c)
  BY <1>6, WritingIs, OneById DEF TableOK, Rows
<1>10. Write(c, r)
  BY <1>1, <1>3, <1>9 DEF Write, Rows, SqlTyped
<1>11. Contract!Next
  BY <1>6, <1>7, <1>8, <1>9, <1>10, OverwriteIs
<1>12. QED
  BY <1>11, SettledKeeps DEF Good

(* The update goes through ...                                              *)
LEMMA WriteIsGood ==
  ASSUME NEW c \in DOMAIN asked, NEW b, NEW r, Writing(c, b, r), Free(c, b.id), Allowed(c, New(c, b, r)),
         Write(c, New(c, b, r)), Answer(c, "ok", <<>>)
  PROVE  Good
<1>1. SqlInv'
  BY NewKeeps
<1>2. Contract!Next
  BY OverwriteIs, RevokeIs DEF Allowed
<1>3. QED
  BY <1>1, <1>2 DEF Good

(* ... or is refused: the row is gone, is an orphan, or does not fit.       *)
LEMMA RefusedWriteIsGood ==
  ASSUME NEW c \in DOMAIN asked, NEW b, SqlInv, tx[c].at = "found", b \in tx[c].seen, Refuse(c),
         \A r \in WithId(Rows(c), b.id) : ~Allowed(c, New(c, b, r))
  PROVE  Good
<1>1. c \in Open /\ WorkOK(db, asked, Open) /\ CallOK(asked[c]) /\ Found(c) /\ SqlTyped
  BY IsOpen DEF SqlInv, TxOK, WorkOK
<1>2. Known(c, b) /\ There(c, b)
  BY <1>1 DEF Found
<1>3. CASE WithId(Rows(c), b.id) = {}
  <2>1. asked[c].op = "enrol" /\ Removing
    BY <1>2, <1>3 DEF There
  <2>2. "id" \in Noticed[c]
    <3>1. "id" \in DOMAIN b
      BY <1>1, <1>2, CallTable, RowIsItself, TablesMatch DEF Known, Matches
    <3>2. Target(c, b)["id"] = b["id"]
      BY <2>1, <3>1 DEF Target, Assigned
    <3>3. Noticed[c] = {col \in DOMAIN b : Target(c, b)[col] = b[col]}
      BY <1>2, <2>1 DEF Noticed, Known
    <3>4. QED
      BY <3>1, <3>2, <3>3
  <2>3. Contract!Deleted(c)
    BY <1>1, <2>1, <2>2 DEF Contract!Deleted, Contract!Waiting, Removing, SqlTyped
  <2>4. Denied(c)
    BY <2>1, <2>3 DEF Denied, Contract!Refusable, Contract!SchemaRefuses
  <2>5. QED
    BY <1>1, <2>4, RefusalIsGood
<1>4. CASE WithId(Rows(c), b.id) # {}
  <2>1. PICK r \in WithId(Rows(c), b.id) : TRUE
    BY <1>4
  <2>2. Writing(c, b, r)
    BY DEF Writing
  <2>3. asked[c].op = "put" /\ (~Fits(Rows(c), Shape(c).unique, Row(c)) \/ Contract!Orphan(c))
    BY <2>1, <2>2, NewFits, NewRefers DEF Allowed
  <2>4. Denied(c)
    <3>1. CASE Contract!Orphan(c)
      BY <2>3, <3>1 DEF Denied, Contract!Refusable, Contract!SchemaRefuses
    <3>2. CASE ~Fits(Rows(c), Shape(c).unique, Row(c))
      <4>1. asked[c].table \notin {"events", "members"} /\ asked[c].table \in DOMAIN Schema
        BY <1>1, <2>3, <3>2, EventsFit, CallTables, CallTable
      <4>2. Contract!Shape(c).unique = Shape(c).unique
        BY <4>1, SameCall, TablesMatch DEF Matches, Shape
      <4>3. QED
        BY <2>3, <3>2, <4>2, SameCall, SameTables DEF Denied, Contract!Refusable, Contract!SchemaRefuses
    <3>3. QED
      BY <2>3, <3>1, <3>2
  <2>5. QED
    BY <1>1, <2>4, RefusalIsGood
<1>5. QED
  BY <1>3, <1>4

(* The update after a read that found the row.                              *)
LEMMA FlushUpdateIsGood ==
  ASSUME NEW c \in DOMAIN asked, SqlInv, FlushUpdate(c)
  PROVE  Good
<1>1. PICK b \in tx[c].seen :
        LET now == WithId(Rows(c), b.id)
            after == Target(c, b)
        IN  IF Changes(b, after) = {} THEN Answer(c, "ok", <<>>) /\ UNCHANGED db
            ELSE /\ Free(c, b.id)
                 /\ IF \E r \in now : Allowed(c, Updated(r, b, after))
                    THEN \E r \in now : Write(c, Updated(r, b, after)) /\ Answer(c, "ok", <<>>)
                    ELSE Refuse(c)
  BY DEF FlushUpdate
<1>2. tx[c].at = "found"
  BY DEF FlushUpdate
<1>3. CASE Changes(b, Target(c, b)) = {}
  BY <1>1, <1>2, <1>3, SettledIsGood
<1>4. CASE Changes(b, Target(c, b)) # {} /\ \E r \in WithId(Rows(c), b.id) : Allowed(c, New(c, b, r))
  <2>1. PICK r \in WithId(Rows(c), b.id) : Write(c, New(c, b, r)) /\ Answer(c, "ok", <<>>)
    BY <1>1, <1>4 DEF New
  <2>2. Writing(c, b, r)
    BY <1>2 DEF Writing
  <2>3. Allowed(c, New(c, b, r))
    <3>1. PICK s \in WithId(Rows(c), b.id) : Allowed(c, New(c, b, s))
      BY <1>4
    <3>2. s = r
      BY <2>2, WritingIs DEF WithId, TableOK, Rows
    <3>3. QED
      BY <3>1, <3>2
  <2>4. Free(c, b.id)
    BY <1>1, <1>4
  <2>5. QED
    BY <2>1, <2>2, <2>3, <2>4, WriteIsGood
<1>5. CASE Changes(b, Target(c, b)) # {} /\ \A r \in WithId(Rows(c), b.id) : ~Allowed(c, New(c, b, r))
  BY <1>1, <1>2, <1>5, RefusedWriteIsGood DEF New
<1>6. QED
  BY <1>3, <1>4, <1>5

(* The invariant and the contract hold at the start.                        *)
LEMMA InitIsGood ==
  ASSUME SqlInit
  PROVE  SqlInv /\ Contract!Init
<1>1. PICK w \in Workloads :
        /\ db = w.tables /\ asked = w.calls
        /\ answer = [c \in DOMAIN w.calls |-> [is |-> "waiting", rows |-> <<>>]]
        /\ tx = [c \in DOMAIN w.calls |-> Idle]
        /\ faults = 0
  BY DEF SqlInit
<1>2. WorkOK(db, asked, DOMAIN asked)
  BY <1>1, SqlConstants
<1>3. Idle = [at |-> "start", seen |-> {}, no |-> 0, tries |-> 0]
  BY DEF Idle
<1>4. Open = DOMAIN asked
  BY <1>1, <1>3 DEF Open
<1>5. SqlTyped
  <2>1. db = [t \in DOMAIN Schema |-> db[t]]
    BY <1>2 DEF WorkOK
  <2>2. QED
    BY <1>1, <1>3, <1>4, <2>1 DEF SqlTyped, Places
<1>6. \A c \in DOMAIN asked : tx[c].at = "start"
  BY <1>1, <1>3
<1>7. SqlInv
  BY <1>2, <1>4, <1>5, <1>6 DEF SqlInv, LocksDiffer, TxOK, Holding
<1>8. Noticed = [c \in DOMAIN w.calls |-> {}]
  BY <1>1, <1>6 DEF Noticed
<1>9. Contract!Init
  BY <1>1, <1>8 DEF Contract!Init
<1>10. QED
  BY <1>7, <1>9

(* Every step is good ...                                                   *)
LEMMA NextIsGood ==
  ASSUME SqlInv, SqlNext
  PROVE  Good
<1>1. PICK c \in DOMAIN asked : Step(c) \/ Abort(c)
  BY DEF SqlNext
<1>2. CASE Merge(c) \/ RejectRepeats(c) \/ FindMember(c) \/ Guarded(c) \/ FindKey(c)
  BY <1>2, MergeIsGood, RejectRepeatsIsGood, FindMemberIsGood, GuardedIsGood, FindKeyIsGood
<1>3. CASE FlushInsert(c) \/ FlushUpdate(c) \/ LogRow(c)
  BY <1>3, FlushInsertIsGood, FlushUpdateIsGood, LogRowIsGood
<1>4. CASE LockRun(c) \/ ReadMax(c) \/ InsertEvent(c) \/ Collide(c)
  BY <1>4, LockRunIsGood, ReadMaxIsGood, InsertEventIsGood, CollideIsGood
<1>5. CASE LockRow(c) \/ NumberVersion(c) \/ WriteMemory(c)
  BY <1>5, LockRowIsGood, NumberVersionIsGood, WriteMemoryIsGood
<1>6. CASE Bump(c) \/ MarkUsed(c) \/ Remove(c) \/ Get(c) \/ List(c) \/ CandidateMemories(c)
  BY <1>6, BumpIsGood, MarkUsedIsGood, RemoveIsGood, GetIsGood, ListIsGood, CandidateMemoriesIsGood
<1>7. CASE Abort(c)
  BY <1>7, AbortIsGood
<1>8. QED
  BY <1>1, <1>2, <1>3, <1>4, <1>5, <1>6, <1>7 DEF Step

(* ... and so is none at all.                                               *)
LEMMA StandingIsGood ==
  ASSUME SqlInv, UNCHANGED sqlVars
  PROVE  Good
<1>1. UNCHANGED <<db, asked, answer, tx, faults>>
  BY DEF sqlVars
<1>2. SqlInv'
  <2>1. Open' = Open /\ \A c \in DOMAIN asked : Holding(c)' = Holding(c) /\ Row(c)' = Row(c)
    BY <1>1 DEF Open, Holding, Row
  <2>2. SqlTyped'
    BY <1>1, <2>1 DEF SqlInv, SqlTyped
  <2>3. WorkOK(db, asked, Open)'
    BY <1>1, <2>1 DEF SqlInv
  <2>4. LocksDiffer'
    BY <1>1, <2>1 DEF SqlInv, LocksDiffer
  <2>5. \A c \in DOMAIN asked : TxOK(c)'
    BY <1>1, <2>1, QuietStep DEF SqlInv
  <2>6. QED
    BY <1>1, <2>2, <2>3, <2>4, <2>5 DEF SqlInv
<1>3. Noticed' = Noticed
  BY <1>1 DEF Noticed, Target, Assigned, Row, Shape
<1>4. QED
  BY <1>1, <1>2, <1>3 DEF Good, Contract!vars

(* However the transactions interleave and fail: rows differ in their       *)
(* unique columns, refer to runs that are there and keep what identifies   *)
(* them; the events of a run and the versions of a memory are numbered     *)
(* from one without a gap; no lock has two holders, and what was read      *)
(* under a lock is still so when it is written.                            *)
THEOREM SqlInvariant == SqlSpec => []SqlInv
<1>1. SqlInit => SqlInv
  BY InitIsGood
<1>2. SqlInv /\ [SqlNext]_sqlVars => SqlInv'
  BY NextIsGood, StandingIsGood DEF Good
<1>3. QED
  BY <1>1, <1>2, PTL DEF SqlSpec

(* Every call acts as one call of the repository in memory does, at one    *)
(* moment of its transaction, or is refused and leaves no trace, in every  *)
(* interleaving of any workload; refused for a reason of that repository,  *)
(* or for one that only a schema has: the identifier of an event or of a   *)
(* log entry is taken, the run of a row is missing, or another call got in *)
(* between the read of a row and its write.                                *)
THEOREM ActsAsInMemory == SqlSpec => ActsAsReference
<1>1. SqlInit => SqlInv /\ Contract!Init
  BY InitIsGood
<1>2. SqlInv /\ [SqlNext]_sqlVars => SqlInv' /\ [Contract!Next]_(Contract!vars)
  BY NextIsGood, StandingIsGood DEF Good
<1>3. QED
  BY <1>1, <1>2, PTL DEF SqlSpec, ActsAsReference, Contract!Spec
=============================================================================
