---------------------------- MODULE ContextPacker ----------------------------
(***************************************************************************)
(* pack_context (retrieval/packer.py): the blocks of a context are fitted  *)
(* into a token budget.  Protected blocks are shortened and never dropped, *)
(* ordinary ones are kept whole or dropped, and a part of the budget is    *)
(* reserved to tell what was dropped: a block with the retained facts and  *)
(* a notice.                                                               *)
(*                                                                         *)
(* A block is a number, its place among the blocks of its sort; what       *)
(* counts of its text is how many tokens it has.  A text that              *)
(* _truncate_text cuts to n tokens has at most n: how many depends on      *)
(* where its words end.                                                    *)
(***************************************************************************)
EXTENDS Integers, FiniteSets, FiniteSetsExt

CONSTANTS
  Blocks,         \* the blocks there can be, numbers
  Protected,      \* those _is_protected holds of
  Facts,          \* ordinary blocks whose memory has a fact to retain
  Tokens,         \* Tokens[b]: the tokens of block b
  ReserveTokens,  \* compaction_notice_reserve_tokens
  NoticeTokens    \* the most a notice may take (6 in the code)

ASSUME PackerConstants ==
  /\ Blocks \subseteq Nat /\ IsFiniteSet(Blocks)
  /\ Protected \subseteq Blocks /\ Facts \subseteq Blocks \ Protected
  /\ Tokens \in [Blocks -> Nat]
  /\ ReserveTokens \in Nat /\ NoticeTokens \in Nat \ {0}

Phases == {"idle", "protected", "ordinary", "reserve", "shrink", "append", "done"}

VARIABLES
  phase,    \* where pack_context is
  budget,   \* token_budget
  given,    \* the blocks to pack
  todo,     \* those not placed yet
  kept,     \* packed
  size,     \* size[b]: the tokens of a packed block, as shortened
  used,     \* used: the tokens packed, those of the reserved blocks included
  told,     \* the blocks whose facts are retained
  spare     \* tokens of the fact block and of the notice, packed or to pack

packer == <<phase, budget, given, todo, kept, size, used, told, spare>>

Low(i, j) == IF i < j THEN i ELSE j
High(i, j) == IF i > j THEN i ELSE j

(* _reserve_for_compaction *)
Reserve(b) ==
  IF b = 0 THEN 0
  ELSE IF b < 32 THEN Low(ReserveTokens, High(1, b - 2))
  ELSE Low(ReserveTokens, High(16, b \div 8))

TokensOf(S) == MapThenSumSet(LAMBDA b : Tokens[b], S)

(* effective_budget: the reserve is taken from the ordinary blocks only.   *)
Effective == High(High(0, budget - Reserve(budget)),
                  Low(budget, TokensOf(given \cap Protected)))

(* fit_block *)
Fitted(t, room) == IF t <= room THEN {t} ELSE 0..room

NoticeRoom == Low(NoticeTokens, Reserve(budget))
FactRoom == Reserve(budget) - NoticeRoom

(* The block of S that comes first, or last, in a set of its own.          *)
First(S) == {b \in S : \A c \in S : b <= c}
Last(S) == {b \in S : \A c \in S : c <= b}

Dropped == given \ (todo \cup kept)

FactSizes(S) == IF S = {} THEN {0} ELSE 0..FactRoom

PackInit ==
  /\ phase = "idle" /\ budget = 0 /\ given = {} /\ todo = {} /\ kept = {}
  /\ size = Tokens /\ used = 0 /\ told = {}
  /\ spare = [fact |-> 0, notice |-> 0]

(* What fits as it is stays as it is.                                      *)
StartPacking(S, b) ==
  /\ phase = "idle"
  /\ budget' = b /\ given' = S /\ size' = Tokens
  /\ told' = {} /\ spare' = [fact |-> 0, notice |-> 0]
  /\ IF TokensOf(S) <= b
     THEN phase' = "done" /\ todo' = {} /\ kept' = S /\ used' = TokensOf(S)
     ELSE phase' = "protected" /\ todo' = S /\ kept' = {} /\ used' = 0

\* Mutant of PlaceProtected: what does not fit is packed all the same.
PlaceUnfitted ==
  /\ phase = "protected"
  /\ \E b \in First(todo \cap Protected) :
       /\ todo' = todo \ {b} /\ kept' = kept \cup {b}
       /\ used' = used + Tokens[b]
  /\ UNCHANGED <<phase, budget, given, size, told, spare>>

PlaceProtected ==
  /\ phase = "protected"
  /\ \E b \in First(todo \cap Protected) :
       \E t \in Fitted(Tokens[b], High(0, Effective - used)) :
         /\ todo' = todo \ {b} /\ kept' = kept \cup {b}
         /\ size' = [size EXCEPT ![b] = t]
         /\ used' = used + t
  /\ UNCHANGED <<phase, budget, given, told, spare>>

PlaceOrdinary ==
  /\ phase = "ordinary"
  /\ \E b \in First(todo) :
       LET fits == used + Tokens[b] <= Effective
       IN  /\ todo' = todo \ {b}
           /\ kept' = IF fits THEN kept \cup {b} ELSE kept
           /\ used' = IF fits THEN used + Tokens[b] ELSE used
  /\ UNCHANGED <<phase, budget, given, size, told, spare>>

NextPhase ==
  /\ \/ phase = "protected" /\ todo \cap Protected = {} /\ phase' = "ordinary"
     \/ phase = "ordinary" /\ todo = {} /\ phase' = "reserve"
  /\ UNCHANGED <<budget, given, todo, kept, size, used, told, spare>>

(* extract_retained_facts, build_compacted_constraints_block and           *)
(* build_compaction_notice                                                 *)
PlanReserve ==
  /\ phase = "reserve"
  /\ IF Dropped = {} \/ Reserve(budget) = 0
     THEN phase' = "done" /\ UNCHANGED <<told, spare>>
     ELSE /\ phase' = "shrink" /\ told' = Dropped \cap Facts
          /\ \E f \in FactSizes(told'), n \in 1..NoticeRoom :
               spare' = [fact |-> f, notice |-> n]
  /\ UNCHANGED <<budget, given, todo, kept, size, used>>

(* The last packed block that still has tokens makes room: an ordinary one *)
(* is dropped, a protected one shortened by what overflows.                *)
Overflow == used + spare.fact + spare.notice - budget
Shrinkable == {b \in kept : size[b] > 0}

\* Mutant of DropLast: the tokens of the block still count as used.
DropUncounted ==
  /\ phase = "shrink" /\ Overflow > 0
  /\ \E b \in Last(Shrinkable \ Protected) :
       /\ kept' = kept \ {b} /\ told' = told \cup ({b} \cap Facts)
       /\ \E f \in FactSizes(told') : spare' = [spare EXCEPT !.fact = f]
  /\ UNCHANGED <<phase, budget, given, todo, size, used>>

\* Mutant of DropLast: the facts of the first blocks dropped are all there are.
DropUntold ==
  /\ phase = "shrink" /\ Overflow > 0
  /\ \E b \in Last(Shrinkable \ Protected) :
       kept' = kept \ {b} /\ used' = used - size[b]
  /\ UNCHANGED <<phase, budget, given, todo, size, told, spare>>

DropLast ==
  /\ phase = "shrink" /\ Overflow > 0
  /\ \E b \in Last(Shrinkable \ Protected) :
       /\ kept' = kept \ {b} /\ used' = used - size[b]
       /\ told' = told \cup ({b} \cap Facts)
       /\ \E f \in FactSizes(told') : spare' = [spare EXCEPT !.fact = f]
  /\ UNCHANGED <<phase, budget, given, todo, size>>

ShortenLast ==
  /\ phase = "shrink" /\ Overflow > 0 /\ Shrinkable \subseteq Protected
  /\ \E b \in Last(Shrinkable) :
       \E t \in Fitted(size[b], High(0, size[b] - Overflow)) :
         /\ size' = [size EXCEPT ![b] = t]
         /\ used' = used + t - size[b]
  /\ UNCHANGED <<phase, budget, given, todo, kept, told, spare>>

(* The reserved blocks are added, cut to what is left of the budget.       *)
AddReserved ==
  /\ phase = "shrink" /\ (Overflow <= 0 \/ Shrinkable = {})
  /\ \E f \in Fitted(spare.fact, High(0, budget - used)) :
       \E n \in Fitted(spare.notice, High(0, budget - used - f)) :
         /\ spare' = [fact |-> f, notice |-> n]
         /\ used' = used + f + n
  /\ phase' = "done"
  /\ UNCHANGED <<budget, given, todo, kept, size, told>>

PackStep ==
  \/ PlaceProtected \/ PlaceOrdinary \/ NextPhase \/ PlanReserve
  \/ DropLast \/ ShortenLast \/ AddReserved

-----------------------------------------------------------------------------
PackTypeOK ==
  /\ phase \in Phases /\ budget \in Nat
  /\ given \subseteq Blocks /\ todo \subseteq given /\ kept \subseteq given
  /\ size \in [Blocks -> Nat] /\ used \in Int
  /\ told \subseteq given \cap Facts
  /\ spare \in [fact : Nat, notice : Nat]

(* The context never takes more tokens than the budget.                    *)
WithinBudget == used <= budget

(* used counts what is packed, neither more nor less.                      *)
UsedIsPacked ==
  phase = "done" =>
    used = MapThenSumSet(LAMBDA b : size[b], kept) + spare.fact + spare.notice

(* Every protected block is packed, if only a part of it; every ordinary   *)
(* one is packed whole or its fact is retained, and whoever loses a block  *)
(* is told so.                                                             *)
NothingForgotten ==
  phase = "done" =>
    /\ todo = {} /\ given \cap Protected \subseteq kept
    /\ \A b \in kept \ Protected : size[b] = Tokens[b]
    /\ Reserve(budget) > 0 /\ Dropped # {} =>
         told = Dropped \cap Facts /\ spare.notice > 0
=============================================================================
