------------------------------- MODULE Tables -------------------------------
(***************************************************************************)
(* What the in-memory and the SQL repository share: tables of rows, the    *)
(* selection, order and paging of list methods, and the rules for memory   *)
(* versions and lifecycle fields (runtime/repository.py,                   *)
(* memory/versioning.py).  A row is a record with a column `id'.           *)
(***************************************************************************)
EXTENDS Integers, Sequences, FiniteSets

WithId(rows, id) == {r \in rows : r.id = id}
Stored(rows, new) == {r \in rows : r.id # new.id} \cup {new}

(* No other row has the same values in the unique columns.                 *)
Fits(rows, unique, new) ==
  unique = {} \/ \A r \in rows : r.id # new.id => \E col \in unique : r[col] # new[col]

(* A maintenance run that names an operation twice.                        *)
Repeats(row) ==
  /\ "operations" \in DOMAIN row
  /\ \E i, j \in DOMAIN row.operations : i # j /\ row.operations[i] = row.operations[j]

(* `where' gives the values a filter accepts in some columns.              *)
Accepts(wanted, value) == value \in wanted
AcceptsAny(wanted, values) == values \cap wanted # {}
Selected(rows, where) ==
  {r \in rows : \A col \in DOMAIN where :
     IF col = "members" THEN AcceptsAny(where[col], r[col]) ELSE Accepts(where[col], r[col])}

(* What a list method can filter on of what its caller wants.              *)
Filtered(where, filters) == [col \in DOMAIN where \cap filters |-> where[col]]

Before(order, x, y) ==
  \E i \in DOMAIN order :
    x[order[i]] < y[order[i]] /\ \A j \in 1..(i - 1) : x[order[j]] = y[order[j]]
(* The ways to put rows in order: one, if the order tells all rows apart.   *)
Arranged(rows, order) ==
  {s \in [1..Cardinality(rows) -> rows] :
     \A i, j \in DOMAIN s : i < j => s[i] # s[j] /\ ~Before(order, s[j], s[i])}

Least(m, n) == IF m < n THEN m ELSE n
Page(rows, offset, limit) == SubSeq(rows, offset + 1, Least(offset + limit, Len(rows)))
PageOK(offset, limit, maximum) == offset >= 0 /\ limit \in 1..maximum

-----------------------------------------------------------------------------
(* Memories.                                                               *)

VersionedFields == {"body", "status", "life", "by"}
SameVersion(before, after) == \A col \in VersionedFields : before[col] = after[col]

(* update_memory: the access count is the stored one, and a copy read      *)
(* while the memory was active brings no other status back to active.      *)
Amended(before, memory) ==
  LET counted == [memory EXCEPT !.access = before.access]
      stale == before.status # "active" /\ memory.status = "active"
  IN  IF stale
      THEN [counted EXCEPT !.status = before.status, !.life = before.life, !.by = before.by]
      ELSE counted

Transitioned(before, memory) ==
  [before EXCEPT !.status = memory.status, !.life = memory.life, !.by = memory.by]

Version(id, after, number) ==
  [id |-> id, memory |-> after.id, no |-> number, created |-> number,
   snapshot |-> [col \in VersionedFields |-> after[col]]]

(* Version rows with the next one, if the memory changed.                  *)
WithVersion(versions, id, before, after, number) ==
  IF SameVersion(before, after) THEN versions
  ELSE versions \cup {Version(id, after, number)}
=============================================================================
