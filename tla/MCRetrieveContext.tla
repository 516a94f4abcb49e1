-------------------------- MODULE MCRetrieveContext --------------------------
(* RetrieveContext for TLC: a safe project memory, a match and a risky     *)
(* memory its cues lead to, of one failed node.                            *)
EXTENDS RetrieveContext, TLC

CONSTANT r1

Safe == [home |-> Here, node |-> "n1", secret |-> FALSE, flags |-> {}, leaks |-> FALSE,
         weak |-> FALSE]
MCTraits == (1 :> [Safe EXCEPT !.node = "n0"])
         @@ (2 :> [Safe EXCEPT !.weak = TRUE])
         @@ (3 :> [Safe EXCEPT !.flags = {"destructive_command"}])
MCNoticeOf == [m \in Memories |-> m + 3]
MCTokens == (0 :> 6) @@ [n \in 1..6 |-> 1]
MCLeads == (1 :> {}) @@ (2 :> {3}) @@ (3 :> {})
MCStrategiesOf == (r1 :> Strategies)
=============================================================================
