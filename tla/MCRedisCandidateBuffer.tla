------------------------ MODULE MCRedisCandidateBuffer ------------------------
(***************************************************************************)
(* Instances of RedisCandidateBuffer: events e1, e2 of workspace w1 and e3 *)
(* of w2 sharing a session id; e1 and drain d1 are served by process p1,   *)
(* everything else by p2.                                                  *)
(***************************************************************************)
EXTENDS RedisCandidateBuffer, TLC

CONSTANTS e1, e2, e3, d1, d2, d3, w1, w2, p1, p2

MCWorkspaceOf == (e1 :> w1) @@ (e2 :> w1) @@ (e3 :> w2)
MCProcessOf == [x \in Candidates \cup Drainers |-> IF x \in {e1, d1} THEN p1 ELSE p2]

\* Two window boundaries of w1 and one of w2.
ByWorkspace == [d \in Drainers |-> IF d = d3 THEN w2 ELSE w1]
\* d2 is an explicit flush that names no workspace.
Mixed == [d \in Drainers |-> IF d = d2 THEN Everything ELSE ByWorkspace[d]]
==============================================================================
