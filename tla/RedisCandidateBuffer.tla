------------------------- MODULE RedisCandidateBuffer -------------------------
(***************************************************************************)
(* The Redis buffer of candidate events                                    *)
(* (apps/api/app/memory/redis_candidate_buffer.py) for one session, with   *)
(* the process-local fallback buffer the runtime keeps beside it           *)
(* (memory_runtime.py, _append_to_deferred_buffer, _drain_buffer_pair).    *)
(*                                                                         *)
(* One action per Redis command, a Lua script being one command.  A        *)
(* command may raise without having had an effect, or have its effect and  *)
(* lose the reply; Faults says which.  Lists are sets: the runtime sorts   *)
(* what it drained by sequence_no, and an event is pushed once.            *)
(***************************************************************************)
EXTENDS FiniteSets

CONSTANTS
  Candidates,  \* events to append, each by the request that wrote it
  Workspaces,
  Processes,   \* API processes, each with a fallback buffer of its own
  Drainers,    \* drain calls of the session
  WorkspaceOf, \* WorkspaceOf[e]: the workspace of an event
  ProcessOf,   \* ProcessOf[x]: the process serving a write or a drain
  ScopeOf,     \* ScopeOf[d]: the workspaces drain d was asked for
  Everything,  \* the ScopeOf of a drain that names no workspace
  Faults       \* which commands may fail, and how

FaultKinds == {"append", "append_reply", "index", "detach", "detach_reply",
               "pop", "pop_reply", "restore", "crash"}

ASSUME BufferConstants ==
  /\ WorkspaceOf \in [Candidates -> Workspaces]
  /\ ProcessOf \in [Candidates \cup Drainers -> Processes]
  /\ ScopeOf \in [Drainers -> Workspaces \cup {Everything}]
  /\ Everything \notin Workspaces
  /\ Faults \subseteq FaultKinds

VARIABLES
  queue,      \* queue[w]: the list of workspace w and this session
  index,      \* the session's index: workspaces said to have a queue
  members,    \* workspaces whose own index lists the session
  listed,     \* whether the index of all sessions lists the session
  fallback,   \* fallback[p]: local buffer of process p
  append,     \* append[e]: where the append of e stands
  pc,         \* pc[d]: where drain d stands
  todo,       \* todo[d]: workspaces it has still to drain
  at,         \* at[d]: the workspace it is draining
  draining,   \* draining[d]: the list it detached, under a key of its own
  popped,     \* popped[d]: values popped from that list
  events,     \* events[d]: what it has gathered for its caller
  handed      \* history: candidates some drain returned

redis == <<queue, index, members, listed>>
locals == <<todo, at, popped, events>>
vars == <<redis, fallback, append, pc, locals, draining, handed>>

Init ==
  /\ queue = [w \in Workspaces |-> {}]
  /\ index = {} /\ members = {} /\ listed = FALSE
  /\ fallback = [p \in Processes |-> {}]
  /\ append = [e \in Candidates |-> "idle"]
  /\ pc = [d \in Drainers |-> "idle"]
  /\ todo = [d \in Drainers |-> {}]
  /\ at = [d \in Drainers |-> Everything]
  /\ draining = [d \in Drainers |-> {}]
  /\ popped = [d \in Drainers |-> {}]
  /\ events = [d \in Drainers |-> {}]
  /\ handed = {}

(***************************************************************************)
(* append: one script pushes the value and fills the three indexes.  The   *)
(* runtime turns any exception into an append to the local fallback.       *)
(***************************************************************************)
Push(e) ==
  LET w == WorkspaceOf[e] IN
  /\ queue' = [queue EXCEPT ![w] = @ \cup {e}]
  /\ index' = index \cup {w}
  /\ members' = members \cup {w}
  /\ listed' = TRUE

AppendToRedis(e) ==
  /\ append[e] = "idle"
  /\ \/ /\ Push(e)
        /\ append' = [append EXCEPT ![e] = "done"]
     \/ /\ "append" \in Faults
        /\ UNCHANGED redis
        /\ append' = [append EXCEPT ![e] = "raised"]
     \/ /\ "append_reply" \in Faults
        /\ Push(e)
        /\ append' = [append EXCEPT ![e] = "raised"]
  /\ UNCHANGED <<fallback, pc, locals, draining, handed>>

AppendLocally(e) ==
  /\ append[e] = "raised"
  /\ append' = [append EXCEPT ![e] = "done"]
  /\ fallback' = [fallback EXCEPT ![ProcessOf[e]] = @ \cup {e}]
  /\ UNCHANGED <<redis, pc, locals, draining, handed>>

(***************************************************************************)
(* drain                                                                   *)
(***************************************************************************)
\* An exception leaves drain; its caller goes on with nothing from Redis.
Raise(d) ==
  /\ pc' = [pc EXCEPT ![d] = "local"]
  /\ events' = [events EXCEPT ![d] = {}]
  /\ popped' = [popped EXCEPT ![d] = {}]

WorkspacesForSession(d) ==
  IF ScopeOf[d] = Everything THEN index ELSE {ScopeOf[d]}

BeginDrain(d) ==
  /\ pc[d] = "idle"
  /\ \/ /\ pc' = [pc EXCEPT ![d] = "detach"]
        /\ todo' = [todo EXCEPT ![d] = WorkspacesForSession(d)]
        /\ UNCHANGED <<events, popped>>
     \/ /\ "index" \in Faults /\ ScopeOf[d] = Everything
        /\ Raise(d) /\ UNCHANGED todo
  /\ UNCHANGED <<redis, fallback, append, at, draining, handed>>

\* Mutant of Rename: the script always unlists the session.
RenameUnlisting(d, w) ==
  /\ queue' = [queue EXCEPT ![w] = {}]
  /\ draining' = [draining EXCEPT ![d] = queue[w]]
  /\ index' = index \ {w}
  /\ members' = members \ {w}
  /\ listed' = FALSE

\* Mutant of Rename: the list is read where it is.
ReadInPlace(d, w) ==
  /\ draining' = [draining EXCEPT ![d] = queue[w]]
  /\ UNCHANGED redis

\* The script of _detach_workspace_queue.
Rename(d, w) ==
  /\ queue' = [queue EXCEPT ![w] = {}]
  /\ draining' = [draining EXCEPT ![d] = queue[w]]
  /\ index' = index \ {w}
  /\ members' = members \ {w}
  /\ listed' = (listed /\ index \ {w} # {})

Detach(d) ==
  /\ pc[d] = "detach"
  /\ \E w \in todo[d] :
       /\ Rename(d, w)
       /\ at' = [at EXCEPT ![d] = w]
       /\ todo' = [todo EXCEPT ![d] = @ \ {w}]
       /\ \/ /\ pc' = [pc EXCEPT ![d] = IF queue[w] = {} THEN "detach" ELSE "pop"]
             /\ UNCHANGED <<popped, events>>
          \/ "detach_reply" \in Faults /\ Raise(d)
  /\ UNCHANGED <<fallback, append, handed>>

DetachRaises(d) ==
  /\ "detach" \in Faults
  /\ pc[d] = "detach" /\ todo[d] # {}
  /\ Raise(d)
  /\ UNCHANGED <<redis, fallback, append, todo, at, draining, handed>>

Pop(d) ==
  /\ pc[d] = "pop"
  /\ \E e \in draining[d] :
       /\ draining' = [draining EXCEPT ![d] = @ \ {e}]
       /\ \/ /\ popped' = [popped EXCEPT ![d] = @ \cup {e}]
             /\ events' = [events EXCEPT ![d] = @ \cup {e}]
             /\ UNCHANGED pc
          \/ /\ "pop_reply" \in Faults
             /\ pc' = [pc EXCEPT ![d] = "restore"]
             /\ UNCHANGED <<popped, events>>
  /\ UNCHANGED <<redis, fallback, append, todo, at, handed>>

\* LPOP, or DELETE after the last value, raises.
PopRaises(d) ==
  /\ "pop" \in Faults
  /\ pc[d] = "pop"
  /\ pc' = [pc EXCEPT ![d] = "restore"]
  /\ UNCHANGED <<redis, fallback, append, locals, draining, handed>>

\* The list is empty: LPOP answers nothing and the key is deleted.
Delete(d) ==
  /\ pc[d] = "pop" /\ draining[d] = {}
  /\ pc' = [pc EXCEPT ![d] = "detach"]
  /\ popped' = [popped EXCEPT ![d] = {}]
  /\ UNCHANGED <<redis, fallback, append, todo, at, draining, events, handed>>

\* Mutant of Unpop: what was popped already is not pushed back.
UnpopListOnly(d) == draining[d]

\* What _restore_workspace_queue pushes back: the popped values in front of
\* what is left in the detached list.
Unpop(d) == draining[d] \cup popped[d]

Restore(d) ==
  /\ pc[d] = "restore"
  /\ queue' = [queue EXCEPT ![at[d]] = @ \cup Unpop(d)]
  /\ index' = index \cup {at[d]}
  /\ members' = members \cup {at[d]}
  /\ listed' = TRUE
  /\ draining' = [draining EXCEPT ![d] = {}]
  /\ Raise(d)
  /\ UNCHANGED <<fallback, append, todo, at, handed>>

RestoreRaises(d) ==
  /\ "restore" \in Faults
  /\ pc[d] = "restore"
  /\ Raise(d)
  /\ UNCHANGED <<redis, fallback, append, todo, at, draining, handed>>

EndDrain(d) ==
  /\ pc[d] = "detach" /\ todo[d] = {}
  /\ pc' = [pc EXCEPT ![d] = "local"]
  /\ UNCHANGED <<redis, fallback, append, locals, draining, handed>>

\* The local buffer is drained last, in the same process.
InScope(d, e) == ScopeOf[d] \in {Everything, WorkspaceOf[e]}
LocalShare(d) == {e \in fallback[ProcessOf[d]] : InScope(d, e)}

DrainLocally(d) ==
  /\ pc[d] = "local"
  /\ pc' = [pc EXCEPT ![d] = "done"]
  /\ fallback' = [fallback EXCEPT ![ProcessOf[d]] = @ \ LocalShare(d)]
  /\ handed' = handed \cup events[d] \cup LocalShare(d)
  /\ events' = [events EXCEPT ![d] = {}]
  /\ UNCHANGED <<redis, append, todo, at, popped, draining>>

\* A process dies with its fallback buffer and everything it was serving;
\* lists it had detached stay in Redis under keys nobody looks for.
Crash(p) ==
  /\ "crash" \in Faults
  /\ fallback' = [fallback EXCEPT ![p] = {}]
  /\ append' = [e \in Candidates |->
       IF ProcessOf[e] = p /\ append[e] = "raised" THEN "dead" ELSE append[e]]
  /\ LET dead == {d \in Drainers : ProcessOf[d] = p /\ pc[d] \notin {"idle", "done"}} IN
     /\ pc' = [d \in Drainers |-> IF d \in dead THEN "done" ELSE pc[d]]
     /\ events' = [d \in Drainers |-> IF d \in dead THEN {} ELSE events[d]]
     /\ popped' = [d \in Drainers |-> IF d \in dead THEN {} ELSE popped[d]]
  /\ UNCHANGED <<redis, todo, at, draining, handed>>

Drain(d) ==
  \/ BeginDrain(d) \/ Detach(d) \/ DetachRaises(d) \/ Pop(d) \/ PopRaises(d)
  \/ Delete(d) \/ Restore(d) \/ RestoreRaises(d) \/ EndDrain(d) \/ DrainLocally(d)

Next ==
  \/ \E e \in Candidates : AppendToRedis(e) \/ AppendLocally(e)
  \/ \E d \in Drainers : Drain(d)
  \/ \E p \in Processes : Crash(p)

Spec == Init /\ [][Next]_vars

-----------------------------------------------------------------------------
TypeOK ==
  /\ queue \in [Workspaces -> SUBSET Candidates]
  /\ index \subseteq Workspaces /\ members \subseteq Workspaces /\ listed \in BOOLEAN
  /\ fallback \in [Processes -> SUBSET Candidates]
  /\ append \in [Candidates -> {"idle", "raised", "done", "dead"}]
  /\ pc \in [Drainers -> {"idle", "detach", "pop", "restore", "local", "done"}]
  /\ todo \in [Drainers -> SUBSET Workspaces]
  /\ at \in [Drainers -> Workspaces \cup {Everything}]
  /\ draining \in [Drainers -> SUBSET Candidates]
  /\ popped \in [Drainers -> SUBSET Candidates]
  /\ events \in [Drainers -> SUBSET Candidates]
  /\ handed \subseteq Candidates

\* Whatever command fails and whoever crashes, a queue with something in it
\* is found from every index: by a drain that names no workspace, by the
\* sessions of its workspace, and by the list of all sessions.
Discoverable ==
  \A w \in Workspaces : queue[w] # {} => w \in index \cap members /\ listed

\* Two drains never hold the same Redis value, and a held one is in no
\* queue: an event reaches two extractions only through the local fallback.
Exclusive ==
  /\ \A d, c \in Drainers : d # c => draining[d] \cap draining[c] = {}
  /\ \A d \in Drainers, w \in Workspaces :
       (draining[d] \cup popped[d]) \cap queue[w] = {}

Waiting ==
  (UNION {queue[w] : w \in Workspaces}) \cup (UNION {fallback[p] : p \in Processes})
Held == [d \in Drainers |-> draining[d] \cup events[d]]
Offered == {e \in Candidates : append[e] = "done"}

\* The promise of the buffer.  It is kept while commands fail cleanly and
\* every drain names its workspace.
Q == INSTANCE CandidateQueue
       WITH Takers <- Drainers, offered <- Offered, waiting <- Waiting, held <- Held
QueueSpec == Q!Spec

\* "Drain failure after detach must restore indexes and popped values so
\* candidates remain discoverable for a retry": an accepted candidate waits,
\* was handed over, or is with a drain that is still at it.
Retryable ==
  \A e \in Offered :
    \/ e \in Waiting \cup handed
    \/ \E d \in Drainers : pc[d] # "done" /\ e \in Held[d]
===============================================================================
