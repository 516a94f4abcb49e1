---------------------------- MODULE CandidateQueue ----------------------------
(***************************************************************************)
(* What the deferred-extraction buffer of one session promises: an event   *)
(* that was accepted waits until some drain takes it, belongs to one drain *)
(* at a time, and goes back to waiting or is handed over for extraction.   *)
(* (apps/api/app/memory/candidate_buffer.py is the contract;               *)
(* RedisCandidateBuffer shows which faults the Redis implementation        *)
(* survives.)                                                              *)
(***************************************************************************)
CONSTANTS
  Candidates,  \* events that may be buffered
  Takers       \* drain calls

VARIABLES
  offered,     \* candidates the buffer has accepted
  waiting,     \* candidates a drain would find
  held,        \* held[t]: candidates drain t has taken and not returned
  handed       \* candidates some drain has returned to its caller

vars == <<offered, waiting, held, handed>>

Init ==
  /\ offered = {} /\ waiting = {} /\ handed = {}
  /\ held = [t \in Takers |-> {}]

Put(e) ==
  /\ e \notin offered
  /\ offered' = offered \cup {e}
  /\ waiting' = waiting \cup {e}
  /\ UNCHANGED <<held, handed>>

Take(t) ==
  /\ \E taken \in SUBSET waiting :
       /\ waiting' = waiting \ taken
       /\ held' = [held EXCEPT ![t] = @ \cup taken]
  /\ UNCHANGED <<offered, handed>>

PutBack(t) ==
  /\ waiting' = waiting \cup held[t]
  /\ held' = [held EXCEPT ![t] = {}]
  /\ UNCHANGED <<offered, handed>>

\* The drain returns, with what it finds waiting at that moment as well.
HandOver(t) ==
  /\ \E taken \in SUBSET waiting :
       /\ waiting' = waiting \ taken
       /\ handed' = handed \cup held[t] \cup taken
  /\ held' = [held EXCEPT ![t] = {}]
  /\ UNCHANGED offered

Next ==
  \/ \E e \in Candidates : Put(e)
  \/ \E t \in Takers : Take(t) \/ PutBack(t) \/ HandOver(t)

Spec == Init /\ [][Next]_vars

\* No accepted candidate disappears.
NothingLost ==
  offered = waiting \cup handed \cup (UNION {held[t] : t \in Takers})

\* A candidate is in one place only, so no two drains hand it over.
OnePlace ==
  /\ waiting \cap handed = {}
  /\ \A t \in Takers :
       /\ held[t] \cap (waiting \cup handed) = {}
       /\ \A u \in Takers : t # u => held[t] \cap held[u] = {}
===============================================================================
