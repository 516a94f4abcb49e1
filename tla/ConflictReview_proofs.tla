------------------------- MODULE ConflictReview_proofs -------------------------
(***************************************************************************)
(* Theorems about ConflictReview, for any memories, signals, writers,      *)
(* scanners, cleaners and reviewers.  SuccessionEnds is not inductive: in  *)
(* the middle of a decision of the write path a memory may lead to one     *)
(* that is not stored yet.  What holds then is that the rows as they will  *)
(* be, once all that was resolved is written, lead to stored memories.     *)
(***************************************************************************)
EXTENDS ConflictReview, FiniteSetTheorems, WellFoundedInduction, TLAPS

(* Wherever it starts, the way from replaced memory to replacing memory    *)
(* ends in one that is stored and not replaced.                            *)
Gone(rows) == {m \in Memories : rows[m].status = "superseded"}
Leads(rows) ==
  \A C \in (SUBSET Gone(rows)) \ {{}} : \E m \in C : rows[m].by \in Present(rows) \ C

(* The rows as they will be when p has written what it resolved.           *)
Pending(p) == job[p].todo \cup ({job[p].winner} \ {None})
Outlook(p) ==
  [m \in Memories |->
     IF m \in job[p].todo THEN Preserved(row[m], job[p].copy[m])
     ELSE IF m = job[p].winner THEN job[p].copy[m]
     ELSE row[m]]

(* Memories are numbered as they are made, and no row, and so no member of *)
(* a conflict, disappears.                                                 *)
TablesOK ==
  /\ TypeOK /\ made \in Nat
  /\ \A m \in Present(row) : m <= made
  /\ \A c \in ConflictIds : conf[c].status = "open" => c \subseteq Present(row)
JobOK(p) ==
  /\ job[p].subject \subseteq Present(row) /\ job[p].winner \notin job[p].todo
  /\ \A m \in Pending(p) : m <= made
  /\ At(p, "writing") => \A m \in Pending(p) : job[p].copy[m].status # "absent"
  /\ Deciding(p) => p \in Judges
Stored == TablesOK /\ \A p \in Processes : JobOK(p)

(* The memories that p lets the ones it retires lead to are stored, and    *)
(* are not retired themselves.                                             *)
Heirs(p) ==
  \A m \in job[p].todo : job[p].copy[m].by \in Present(row) \ (Gone(row) \cup job[p].todo)

OneDecides == \A p, q \in Processes : Deciding(p) /\ Deciding(q) => p = q
Succession ==
  /\ (\A p \in Processes : ~ At(p, "writing")) => Leads(row)
  /\ \A p \in Processes :
       /\ At(p, "writing") => Leads(Outlook(p))
       /\ At(p, "retiring") => Heirs(p)
Orderly == OneDecides /\ Succession

IInv == Stored /\ (clean => Orderly)

-----------------------------------------------------------------------------
(* A finite set has an element that no other one precedes, in any strict   *)
(* order.                                                                  *)
Orders(R, S) ==
  /\ \A x \in S : <<x, x>> \notin R
  /\ \A x, y, z \in S : <<x, y>> \in R /\ <<y, z>> \in R => <<x, z>> \in R
LEMMA First ==
  ASSUME NEW S, IsFiniteSet(S), NEW R, Orders(R, S)
  PROVE  \A T \in SUBSET S : T # {} => \E x \in T : \A y \in T : <<y, x>> \notin R
<1> DEFINE Headed(T) == \E x \in T : \A y \in T : <<y, x>> \notin R
<1> DEFINE Bad == {T \in SUBSET S : T # {} /\ ~Headed(T)}
<1>1. SUFFICES ASSUME Bad # {} PROVE FALSE
  OBVIOUS
<1>2. IsWellFoundedOn(StrictSubsetOrdering(S), SUBSET S)
  BY Zenon, FS_StrictSubsetOrderingWellFounded, FS_FiniteSubsetsOfFinite
<1> HIDE DEF Bad
<1>3. Bad \subseteq SUBSET S
  BY DEF Bad
<1>4. PICK T \in Bad : \A U \in Bad : ~(<<U, T>> \in StrictSubsetOrdering(S))
  BY Zenon, <1>1, <1>2, <1>3, WFMin
<1>5. T \in SUBSET S /\ T # {} /\ ~Headed(T)
  BY <1>4 DEF Bad
<1>6. PICK x : x \in T
  BY <1>5
<1>7. T \ {x} \notin Bad
  <2>1. T \ {x} \in SUBSET S /\ T \ {x} \subseteq T /\ T \ {x} # T
    BY <1>5, <1>6
  <2>2. <<T \ {x}, T>> \in StrictSubsetOrdering(S)
    BY <1>5, <2>1 DEF StrictSubsetOrdering
  <2>3. QED
    BY <1>4, <2>2
<1>8. CASE T \ {x} = {}
  BY <1>5, <1>6, <1>8 DEF Orders
<1>9. CASE T \ {x} # {}
  <2>1. PICK y \in T \ {x} : \A z \in T \ {x} : <<z, y>> \notin R
    BY <1>5, <1>7, <1>9 DEF Bad
  <2>2. CASE <<x, y>> \notin R
    BY <1>5, <2>1, <2>2
  <2>3. CASE <<x, y>> \in R
    <3>1. \A z \in T : <<z, x>> \notin R
      BY <1>5, <1>6, <2>1, <2>3 DEF Orders
    <3>2. QED
      BY <1>5, <1>6, <3>1
  <2>4. QED
    BY <2>2, <2>3
<1>10. QED
  BY <1>8, <1>9

LEMMA Least ==
  ASSUME ReviewConstants, NEW T \in SUBSET Memories, T # {}
  PROVE  Min(T) \in T
<1> DEFINE R == {x \in Memories \X Memories : x[1] < x[2]}
<1>1. IsFiniteSet(Memories) /\ Memories \subseteq Nat
  BY DEF ReviewConstants
<1>2. \A x, y \in Memories : <<x, y>> \in R <=> x < y
  OBVIOUS
<1> HIDE DEF R
<1>3. Orders(R, Memories)
  BY <1>1, <1>2 DEF Orders
<1>4. \A U \in SUBSET Memories : U # {} => \E x \in U : \A y \in U : <<y, x>> \notin R
  BY <1>1, <1>3, First, Zenon
<1>5. \E x \in T : \A y \in T : x =< y
  <2>1. PICK x \in T : \A y \in T : <<y, x>> \notin R
    BY <1>4
  <2>2. \A y \in T : ~ (y < x) /\ x \in Nat /\ y \in Nat
    BY <1>1, <1>2, <2>1
  <2>3. QED
    BY <2>1, <2>2
<1>6. QED
  BY <1>5 DEF Min

(* The strongest of some memories, by their trust and then the older one,  *)
(* is one of them.                                                         *)
LEMMA StrongestIn ==
  ASSUME ReviewConstants, NEW rows \in [Memories -> Rows], NEW T \in SUBSET Memories, T # {}
  PROVE  Strongest(rows, T) \in T
<1> DEFINE Ahead(x, y) == \/ rows[x].trust > rows[y].trust
                          \/ rows[x].trust = rows[y].trust /\ x < y
           R == {z \in Memories \X Memories : Ahead(z[1], z[2])}
<1>1. /\ IsFiniteSet(Memories) /\ Memories \subseteq Nat
      /\ \A x \in Memories : rows[x].trust \in Nat
  BY DEF ReviewConstants, Rows
<1>2. \A x, y \in Memories : <<x, y>> \in R <=> Ahead(x, y)
  OBVIOUS
<1> HIDE DEF R
<1>3. Orders(R, Memories)
  BY <1>1, <1>2 DEF Orders
<1>4. \A U \in SUBSET Memories : U # {} => \E x \in U : \A y \in U : <<y, x>> \notin R
  BY <1>1, <1>3, First, Zenon
<1>5. \E x \in T : \A y \in T \ {x} : Ahead(x, y)
  <2>1. PICK x \in T : \A y \in T : <<y, x>> \notin R
    BY <1>4
  <2>2. ASSUME NEW y \in T \ {x} PROVE Ahead(x, y)
    <3>1. ~ Ahead(y, x)
      BY <1>2, <2>1
    <3>2. QED
      BY <1>1, <3>1
  <2>3. QED
    BY <2>2
<1>6. QED
  BY <1>5 DEF Strongest

(* The largest trust of some memories is the trust of one of them.         *)
LEMMA LargestTrust ==
  ASSUME ReviewConstants, NEW rows \in [Memories -> Rows], NEW T \in SUBSET Memories, T # {}
  PROVE  Max({rows[k].trust : k \in T}) \in Nat
<1> DEFINE R == {z \in Memories \X Memories : rows[z[1]].trust > rows[z[2]].trust}
<1>1. /\ IsFiniteSet(Memories) /\ Memories \subseteq Nat
      /\ \A x \in Memories : rows[x].trust \in Nat
  BY DEF ReviewConstants, Rows
<1>2. \A x, y \in Memories : <<x, y>> \in R <=> rows[x].trust > rows[y].trust
  OBVIOUS
<1> HIDE DEF R
<1>3. Orders(R, Memories)
  BY <1>1, <1>2 DEF Orders
<1>4. \A U \in SUBSET Memories : U # {} => \E x \in U : \A y \in U : <<y, x>> \notin R
  BY <1>1, <1>3, First, Zenon
<1>5. PICK x \in T : \A y \in T : <<y, x>> \notin R
  BY <1>4
<1>6. ASSUME NEW y \in T PROVE rows[x].trust >= rows[y].trust
  <2>1. ~ (rows[y].trust > rows[x].trust)
    BY <1>2, <1>5
  <2>2. QED
    BY <1>1, <2>1
<1> DEFINE S == {rows[k].trust : k \in T}
<1>7. S \subseteq Nat /\ rows[x].trust \in S /\ \A n \in S : rows[x].trust >= n
  BY <1>1, <1>6
<1> HIDE DEF S
<1>8. Max(S) \in S
  BY <1>7 DEF Max
<1>9. QED
  BY <1>7, <1>8 DEF S

(* Rule by rule, no memory beats itself, and who beats one that beats      *)
(* another beats it as well: some memory is not beaten.                    *)
LEMMA SignalType ==
  ASSUME ReviewConstants, NEW rows \in [Memories -> Rows], NEW m \in Memories
  PROVE  Signal(rows, m) \in [1..6 -> Int]
<1>1. /\ rows[m].trust \in Int /\ rows[m].upd \in Int
      /\ \A i \in 1..4 : Standing[m][i] \in Int
  BY DEF ReviewConstants, Rows
<1>2. QED
  BY <1>1 DEF Signal

LEMMA TopExists ==
  ASSUME ReviewConstants, NEW rows \in [Memories -> Rows], NEW T \in SUBSET Memories, T # {}
  PROVE  Tied(rows, T) # {}
<1> DEFINE R == {z \in Memories \X Memories : Beats(rows, z[1], z[2])}
<1>1. IsFiniteSet(Memories) /\ \A x \in Memories : Signal(rows, x) \in [1..6 -> Int]
  BY SignalType DEF ReviewConstants
<1>2. \A x, y \in Memories : <<x, y>> \in R <=> Beats(rows, x, y)
  OBVIOUS
<1> HIDE DEF R
<1>3. \A x \in Memories : ~ Beats(rows, x, x)
  BY <1>1 DEF Beats
<1>4. ASSUME NEW x \in Memories, NEW y \in Memories, NEW z \in Memories,
             Beats(rows, x, y), Beats(rows, y, z)
      PROVE  Beats(rows, x, z)
  <2> DEFINE s(m) == Signal(rows, m)
  <2>1. PICK i \in 1..6 : s(x)[i] > s(y)[i] /\ \A j \in 1..(i - 1) : s(x)[j] = s(y)[j]
    BY <1>4 DEF Beats
  <2>2. PICK k \in 1..6 : s(y)[k] > s(z)[k] /\ \A j \in 1..(k - 1) : s(y)[j] = s(z)[j]
    BY <1>4 DEF Beats
  <2> HIDE DEF s
  <2>3. \A m \in {x, y, z}, j \in 1..6 : s(m)[j] \in Int
    BY <1>1 DEF s
  <2>4. \E l \in 1..6 : s(x)[l] > s(z)[l] /\ \A j \in 1..(l - 1) : s(x)[j] = s(z)[j]
    <3>1. CASE i < k
      <4>1. s(x)[i] > s(z)[i] /\ \A j \in 1..(i - 1) : s(x)[j] = s(z)[j]
        BY <2>1, <2>2, <2>3, <3>1
      <4>2. QED
        BY <4>1
    <3>2. CASE k < i
      <4>1. s(x)[k] > s(z)[k] /\ \A j \in 1..(k - 1) : s(x)[j] = s(z)[j]
        BY <2>1, <2>2, <2>3, <3>2
      <4>2. QED
        BY <4>1
    <3>3. CASE i = k
      <4>1. s(x)[i] > s(z)[i] /\ \A j \in 1..(i - 1) : s(x)[j] = s(z)[j]
        BY <2>1, <2>2, <2>3, <3>3
      <4>2. QED
        BY <4>1
    <3>4. QED
      BY <3>1, <3>2, <3>3
  <2>5. QED
    BY <2>4 DEF Beats, s
<1>5. Orders(R, Memories)
  BY <1>2, <1>3, <1>4 DEF Orders
<1>6. \A U \in SUBSET Memories : U # {} => \E x \in U : \A y \in U : <<y, x>> \notin R
  BY <1>1, <1>5, First, Zenon
<1>7. QED
  BY <1>2, <1>6 DEF Tied

-----------------------------------------------------------------------------
(* What the policy makes of the candidates C: the tops stay, and the       *)
(* others lead to one of them.                                             *)
Judged(new, rows, C) ==
  /\ new \in [Memories -> Rows]
  /\ \A n \in Memories \ C : new[n] = rows[n]
  /\ \A n \in C : new[n].status \in {"active", "conflicted", "superseded"}
  /\ \E t \in C : /\ new[t].status # "superseded"
                  /\ \A n \in C : new[n].status = "superseded" => new[n].by = t
LEMMA Adjudicating ==
  ASSUME ReviewConstants, NEW rows \in [Memories -> Rows], NEW C \in SUBSET Memories, C # {},
         NEW at \in 0..MaxClock, \A n \in C : rows[n].status = "active"
  PROVE  Judged(Adjudicated(rows, C, at), rows, C)
<1> DEFINE top == Tied(rows, C)
           many == Cardinality(top) > 1
           t == Min(top)
           new == Adjudicated(rows, C, at)
<1>1. top \subseteq C /\ t \in top
  <2>1. top \subseteq C
    BY DEF Tied
  <2>2. top # {}
    BY TopExists
  <2>3. top \in SUBSET Memories
    BY <2>1
  <2> HIDE DEF top
  <2>4. QED
    BY <2>1, <2>2, <2>3, Least
<1>2. new = [m \in Memories |->
               IF m \in C \ top
               THEN [rows[m] EXCEPT !.status = "superseded", !.by = t, !.upd = at]
               ELSE IF m \in top /\ many
               THEN [rows[m] EXCEPT !.status = "conflicted", !.upd = at]
               ELSE rows[m]]
  BY DEF Adjudicated
<1> HIDE DEF top, many, t, new
<1>3. ASSUME NEW m \in Memories
      PROVE  /\ new[m] \in Rows
             /\ m \in C \ top => new[m].status = "superseded" /\ new[m].by = t
             /\ m \in top => new[m].status \in {"active", "conflicted"}
             /\ m \notin C => new[m] = rows[m]
  <2>1. rows[m] \in Rows /\ t \in Memories
    BY <1>1
  <2>2. CASE m \in C \ top
    BY <1>1, <1>2, <2>1, <2>2 DEF Rows, Statuses
  <2>3. CASE m \in top /\ many
    BY <1>1, <1>2, <2>1, <2>3 DEF Rows, Statuses
  <2>4. CASE m \in top /\ ~ many
    BY <1>1, <1>2, <2>1, <2>4
  <2>5. CASE m \notin C
    BY <1>1, <1>2, <2>1, <2>5
  <2>6. QED
    BY <2>2, <2>3, <2>4, <2>5
<1>4. new \in [Memories -> Rows]
  BY <1>2, <1>3
<1>5. /\ \A n \in C : new[n].status \in {"active", "conflicted", "superseded"}
      /\ new[t].status # "superseded" /\ t \in C
      /\ \A n \in C : new[n].status = "superseded" => new[n].by = t
  BY <1>1, <1>3
<1>6. QED
  BY <1>3, <1>4, <1>5 DEF new, Judged

(* What the write path makes of a memory and the active ones: some of them *)
(* stays, the top t, and each of the others leads to it, or to the stand-in *)
(* p of the value, which then stays as well or leads to t.                 *)
Settled(new, L) ==
  \E p, t \in L :
    /\ new[t].status # "superseded"
    /\ new[p].status = "superseded" => new[p].by = t
    /\ \A n \in L : new[n].status = "superseded" => new[n].by \in {p, t}
LEMMA Folding ==
  ASSUME ReviewConstants, NEW rows \in [Memories -> Rows], NEW m \in Memories,
         NEW A \in SUBSET Memories, m \notin A, NEW at \in 0..MaxClock,
         \A n \in A \cup {m} : rows[n].status = "active"
  PROVE  LET p == Standin(rows, m, A)
             S == Same(rows, m, A)
             new == Folded(rows, m, A, at)
         IN  /\ S \subseteq A
             /\ S = {} => p = m
             /\ S # {} => p \in S
             /\ new \in [Memories -> Rows]
             /\ \A n \in Memories \ A : new[n] = rows[n]
             /\ new[p].status = "active"
             /\ \A n \in A \ S : new[n].status = "active"
             /\ \A n \in S \ {p} : new[n].status = "superseded" /\ new[n].by = p
<1> DEFINE p == Standin(rows, m, A)
           S == Same(rows, m, A)
           most == Max({rows[k].trust : k \in S \cup {m}})
           new == Folded(rows, m, A, at)
<1>1. S \subseteq A
  BY DEF Same
<1>2. S = {} => p = m
  BY DEF Standin
<1>3. S # {} => p \in S
  BY <1>1, StrongestIn DEF Standin
<1>4. most \in Nat
  BY <1>1, LargestTrust
<1>5. new = [n \in Memories |->
               IF n = p /\ S # {} THEN [rows[n] EXCEPT !.trust = most, !.upd = at]
               ELSE IF n \in S THEN [rows[n] EXCEPT !.status = "superseded", !.by = p, !.upd = at]
               ELSE rows[n]]
  BY DEF Folded
<1> HIDE DEF p, S, most, new
<1>6. p \in Memories
  BY <1>1, <1>2, <1>3
<1>7. ASSUME NEW n \in Memories
      PROVE  /\ new[n] \in Rows
             /\ n \notin A => new[n] = rows[n]
             /\ n = p \/ n \in A \ S => new[n].status = "active"
             /\ n \in S \ {p} => new[n].status = "superseded" /\ new[n].by = p
  <2>1. rows[n] \in Rows
    OBVIOUS
  <2>2. CASE n = p /\ S # {}
    BY <1>1, <1>3, <1>4, <1>5, <2>1, <2>2 DEF Rows
  <2>3. CASE n \in S \ {p}
    BY <1>1, <1>5, <1>6, <2>1, <2>3 DEF Rows, Statuses
  <2>4. CASE n \notin S /\ ~ (n = p /\ S # {})
    BY <1>1, <1>2, <1>5, <2>1, <2>4
  <2>5. QED
    BY <2>2, <2>3, <2>4
<1>8. new \in [Memories -> Rows]
  BY <1>5, <1>7
<1>9. QED
  BY <1>1, <1>2, <1>3, <1>6, <1>7, <1>8 DEF p, S, new

LEMMA Resolving ==
  ASSUME ReviewConstants, NEW rows \in [Memories -> Rows], NEW m \in Memories,
         NEW A \in SUBSET Memories, m \notin A, NEW at \in 0..MaxClock,
         \A n \in A \cup {m} : rows[n].status = "active"
  PROVE  LET L == IF Same(rows, m, A) = {} THEN A \cup {m} ELSE A
             new == Resolved(rows, m, A, at)
         IN  /\ new \in [Memories -> Rows]
             /\ \A n \in A \cup {m} : new[n].status \in {"active", "conflicted", "superseded"}
             /\ Settled(new, L)
<1> DEFINE p == Standin(rows, m, A)
           S == Same(rows, m, A)
           C == {p} \cup (A \ S)
           L == IF S = {} THEN A \cup {m} ELSE A
           folded == Folded(rows, m, A, at)
           new == Resolved(rows, m, A, at)
<1>1. /\ S \subseteq A
      /\ S = {} => p = m
      /\ S # {} => p \in S
      /\ folded \in [Memories -> Rows]
      /\ \A n \in Memories \ A : folded[n] = rows[n]
      /\ folded[p].status = "active"
      /\ \A n \in A \ S : folded[n].status = "active"
      /\ \A n \in S \ {p} : folded[n].status = "superseded" /\ folded[n].by = p
  BY Folding
<1>2. new = IF Cardinality(C) = 1 THEN folded ELSE Adjudicated(folded, C, at)
  BY DEF Resolved
<1> HIDE DEF p, S, folded, new
<1>3. C \in SUBSET Memories /\ C # {} /\ C \subseteq L /\ L \ C = S \ {p} /\ L \subseteq A \cup {m}
  <2>1. CASE S = {}
    <3>1. C = A \cup {m} /\ L = A \cup {m}
      BY <1>1, <2>1
    <3>2. QED
      BY <2>1, <3>1
  <2>2. CASE S # {}
    BY <1>1, <2>2, ZenonT(30)
  <2>3. QED
    BY <2>1, <2>2
<1>4. \A n \in C : folded[n].status = "active"
  BY <1>1
<1>5. \A n \in A \cup {m} : folded[n].status \in {"active", "superseded"}
  BY <1>1
<1>6. CASE Cardinality(C) = 1
  <2>1. new = folded
    BY <1>2, <1>6
  <2>2. Settled(new, L)
    <3>1. p \in L /\ new[p].status = "active"
      BY <1>1, <1>3, <2>1
    <3>2. \A n \in L : new[n].status = "superseded" => new[n].by = p
      BY <1>1, <1>3, <1>4, <2>1
    <3>3. QED
      BY <3>1, <3>2 DEF Settled
  <2>3. QED
    BY <1>1, <1>5, <2>1, <2>2 DEF S, new
<1>7. CASE Cardinality(C) # 1
  <2>1. new = Adjudicated(folded, C, at)
    BY <1>2, <1>7
  <2> HIDE DEF C, L
  <2>2. /\ new \in [Memories -> Rows]
        /\ \A n \in Memories \ C : new[n] = folded[n]
        /\ \A n \in C : new[n].status \in {"active", "conflicted", "superseded"}
        /\ \E t \in C : /\ new[t].status # "superseded"
                        /\ \A n \in C : new[n].status = "superseded" => new[n].by = t
    <3>1. folded \in [Memories -> Rows] /\ C \in SUBSET Memories /\ C # {}
      BY <1>1, <1>3
    <3>2. Judged(Adjudicated(folded, C, at), folded, C)
      BY Zenon, <1>4, <3>1, Adjudicating
    <3>3. QED
      BY <2>1, <3>2 DEF Judged
  <2>3. PICK t \in C : /\ new[t].status # "superseded"
                       /\ \A n \in C : new[n].status = "superseded" => new[n].by = t
    BY <2>2
  <2>4. p \in C
    BY DEF C
  <2>5. \A n \in L \ C : new[n] = folded[n] /\ folded[n].by = p
    BY <1>1, <1>3, <2>2
  <2>6. /\ new[p].status = "superseded" => new[p].by = t
        /\ \A n \in L : new[n].status = "superseded" => new[n].by \in {p, t}
    BY <2>3, <2>4, <2>5
  <2>7. Settled(new, L)
    BY <1>3, <2>3, <2>4, <2>6 DEF Settled
  <2>8. \A n \in A \cup {m} : new[n].status \in {"active", "conflicted", "superseded"}
    BY <1>5, <2>2
  <2>9. QED
    BY <2>2, <2>7, <2>8 DEF S, L, new
<1>8. QED
  BY <1>6, <1>7

-----------------------------------------------------------------------------
(* Rows that lead to stored memories still do when some of them, L, are    *)
(* settled, ...                                                            *)
LEMMA LeadsOnSettled ==
  ASSUME NEW rows, NEW new, NEW L \in SUBSET Memories,
         Leads(rows), Settled(new, L), Present(rows) \cup L \subseteq Present(new),
         \A m \in Memories \ L : new[m].status = rows[m].status /\ new[m].by = rows[m].by
  PROVE  Leads(new)
<1> SUFFICES ASSUME NEW C \in (SUBSET Gone(new)) \ {{}}
             PROVE  \E m \in C : new[m].by \in Present(new) \ C
  BY DEF Leads
<1>1. C \subseteq Memories /\ \A m \in C : new[m].status = "superseded"
  BY DEF Gone
<1>2. CASE C \cap L # {}
  <2>1. PICK p \in L, t \in L :
          /\ new[t].status # "superseded"
          /\ new[p].status = "superseded" => new[p].by = t
          /\ \A n \in L : new[n].status = "superseded" => new[n].by \in {p, t}
    BY DEF Settled
  <2>2. PICK n \in C \cap L : TRUE
    BY <1>2
  <2>3. new[n].by \in {p, t} /\ t \notin C /\ {p, t} \subseteq Present(new)
    BY <1>1, <2>1, <2>2
  <2>4. CASE p \in C
    BY <1>1, <2>1, <2>3, <2>4
  <2>5. CASE p \notin C
    BY <2>2, <2>3, <2>5
  <2>6. QED
    BY <2>4, <2>5
<1>3. CASE C \cap L = {}
  <2>1. C \in (SUBSET Gone(rows)) \ {{}}
    BY <1>1, <1>3 DEF Gone
  <2>2. PICK m \in C : rows[m].by \in Present(rows) \ C
    BY <2>1 DEF Leads
  <2>3. new[m].by \in Present(new) \ C
    BY <1>1, <1>3, <2>2
  <2>4. QED
    BY <2>3
<1>4. QED
  BY <1>2, <1>3

(* ... when one of them is retired for a stored memory that stays, ...     *)
LEMMA LeadsOnRetired ==
  ASSUME NEW rows, NEW new, NEW m \in Memories, Leads(rows),
         new[m].by \in Present(new) \ Gone(new), Present(rows) \subseteq Present(new),
         \A n \in Memories \ {m} : new[n].status = rows[n].status /\ new[n].by = rows[n].by
  PROVE  Leads(new)
<1> SUFFICES ASSUME NEW C \in (SUBSET Gone(new)) \ {{}}
             PROVE  \E n \in C : new[n].by \in Present(new) \ C
  BY DEF Leads
<1>1. CASE m \in C
  BY <1>1
<1>2. CASE m \notin C
  <2>1. C \in (SUBSET Gone(rows)) \ {{}}
    BY <1>2 DEF Gone
  <2>2. PICK n \in C : rows[n].by \in Present(rows) \ C
    BY <2>1 DEF Leads
  <2>3. n \in Memories \ {m}
    BY <1>2, <2>1 DEF Gone
  <2>4. QED
    BY <2>2, <2>3
<1>3. QED
  BY <1>1, <1>2

(* ... and when those that are not replaced change in any other way.       *)
LEMMA LeadsOn ==
  ASSUME NEW rows, NEW new, Leads(rows), Gone(new) = Gone(rows),
         Present(rows) \subseteq Present(new), \A m \in Gone(rows) : new[m].by = rows[m].by
  PROVE  Leads(new)
BY DEF Leads

-----------------------------------------------------------------------------
LEMMA AbsentIn ==
  ASSUME ReviewConstants
  PROVE  \A m \in Memories : Absent(m) \in Rows /\ Absent(m).status = "absent"
<1>1. AnyValue \in Values
  BY DEF ReviewConstants, AnyValue
<1>2. \A m \in Memories : Trust[m] \in Nat /\ 0 \in 0..MaxClock
  BY DEF ReviewConstants
<1>3. QED
  BY <1>1, <1>2 DEF Absent, Rows, Statuses

LEMMA IdleIn ==
  ASSUME ReviewConstants
  PROVE  /\ Idle \in Jobs /\ Idle.at = "idle" /\ Idle.todo = {} /\ Idle.subject = {}
         /\ Idle.winner = None
BY AbsentIn DEF Idle, Jobs, ConflictIds

LEMMA JobParts ==
  ASSUME TypeOK, NEW p \in Processes
  PROVE  /\ job[p] \in Jobs /\ job[p].copy \in [Memories -> Rows]
         /\ job[p].todo \subseteq Memories /\ job[p].subject \subseteq Memories
         /\ job[p].stale \subseteq ConflictIds /\ job[p].winner \in Memories \cup {None}
         /\ Pending(p) \subseteq Memories
BY DEF TypeOK, Jobs, Pending, ConflictIds

(* A step of p that keeps every row stored leaves what the others know in  *)
(* order.                                                                  *)
LEMMA OthersOK ==
  ASSUME Stored, NEW p \in Processes, TablesOK', made <= made',
         \A q \in Processes \ {p} : job'[q] = job[q],
         Present(row) \subseteq Present(row)', JobOK(p)'
  PROVE  Stored'
<1>1. ASSUME NEW q \in Processes \ {p} PROVE JobOK(q)'
  <2>1. job'[q] = job[q] /\ JobOK(q)
    BY DEF Stored
  <2>2. Pending(q)' = Pending(q) /\ (At(q, "writing")' <=> At(q, "writing"))
        /\ (Deciding(q)' <=> Deciding(q))
    BY <2>1 DEF Pending, At, Deciding
  <2>3. Pending(q) \subseteq Memories /\ made \in Nat /\ made' \in Nat
    BY JobParts DEF Stored, TablesOK
  <2>4. \A m \in Pending(q) : m <= made'
    <3>1. \A m \in Pending(q) : m \in Nat /\ m <= made
      BY <2>1, <2>3, ReviewConstants DEF JobOK, ReviewConstants
    <3>2. QED
      BY <2>3, <3>1
  <2>5. QED
    BY <2>1, <2>2, <2>4 DEF JobOK
<1>2. QED
  BY <1>1 DEF Stored

(* Nobody but p changes what it does, the rows stay as they are, and p     *)
(* starts at most to retire memories for heirs that stay, alone.           *)
LEMMA OrderlyBesides ==
  ASSUME Orderly, NEW p \in Processes, UNCHANGED row,
         \A q \in Processes \ {p} : job'[q] = job[q],
         ~ At(p, "writing"), ~ At(p, "writing")', At(p, "retiring")' => Heirs(p)',
         Deciding(p)' => Deciding(p) \/ \A q \in Processes \ {p} : ~ Deciding(q)
  PROVE  Orderly'
<1>1. ASSUME NEW q \in Processes \ {p}
      PROVE  /\ At(q, "writing")' <=> At(q, "writing")
             /\ At(q, "retiring")' <=> At(q, "retiring")
             /\ Deciding(q)' <=> Deciding(q)
             /\ Outlook(q)' = Outlook(q)
             /\ Heirs(q)' <=> Heirs(q)
  <2>1. job'[q] = job[q] /\ row' = row
    OBVIOUS
  <2>2. QED
    BY <2>1 DEF At, Deciding, Outlook, Heirs
<1>2. OneDecides'
  BY <1>1 DEF Orderly, OneDecides
<1>3. (\A q \in Processes : ~ At(q, "writing"))' => Leads(row)'
  BY <1>1 DEF Orderly, Succession
<1>4. ASSUME NEW q \in Processes
      PROVE  (At(q, "writing") => Leads(Outlook(q)))' /\ (At(q, "retiring") => Heirs(q))'
  <2>1. CASE q = p
    BY <2>1
  <2>2. CASE q # p
    BY <1>1, <2>2 DEF Orderly, Succession
  <2>3. QED
    BY <2>1, <2>2
<1>5. QED
  BY <1>2, <1>3, <1>4 DEF Orderly, Succession

(* A step of p that leaves the rows alone and does not begin to decide.    *)
LEMMA QuietStep ==
  ASSUME IInv, NEW p \in Processes, UNCHANGED <<row, made, clock>>, clean' => clean,
         conf' \in [ConflictIds -> Records],
         \A c \in ConflictIds : conf'[c].status = "open" => c \subseteq Present(row),
         job' \in [Processes -> Jobs], \A q \in Processes \ {p} : job'[q] = job[q],
         job'[p].subject \subseteq Present(row),
         job'[p].todo \subseteq job[p].todo, job'[p].winner \in {job[p].winner, None},
         ~ At(p, "writing"), job'[p].at \notin {"writing", "retiring"}
  PROVE  IInv'
<1>1. Stored /\ TablesOK /\ TypeOK /\ JobOK(p) /\ Present(row)' = Present(row)
  BY DEF IInv, Stored, TablesOK
<1>2. TablesOK'
  BY <1>1 DEF TablesOK, TypeOK
<1>3. ~ Deciding(p)' /\ ~ At(p, "writing")' /\ ~ At(p, "retiring")'
  BY DEF At, Deciding
<1>4. JobOK(p)'
  <2>1. Pending(p)' \subseteq Pending(p)
    BY DEF Pending
  <2>2. job'[p].winner \notin job'[p].todo
    BY <1>1, JobParts, ReviewConstants DEF JobOK, ReviewConstants
  <2>3. QED
    BY <1>1, <1>3, <2>1, <2>2 DEF JobOK
<1>5. Stored'
  BY <1>1, <1>2, <1>4, OthersOK DEF TablesOK
<1>6. ASSUME clean' PROVE Orderly'
  <2>1. Orderly
    BY <1>6 DEF IInv
  <2>2. QED
    BY <1>3, <2>1, OrderlyBesides
<1>7. QED
  BY <1>5, <1>6 DEF IInv

-----------------------------------------------------------------------------
(* The scans.  They write conflict records only.                           *)
LEMMA ListMemoriesKeeps ==
  ASSUME IInv, NEW p \in Writers \cup Scanners, ListMemories(p)
  PROVE  IInv'
<1>1. p \in Processes /\ TypeOK /\ TablesOK
  BY DEF Processes, Judges, IInv, Stored, TablesOK
<1> DEFINE after == [job[p] EXCEPT !.subject = Detected(row),
                       !.at = IF p \in Scanners THEN "listing" ELSE "upserting"]
<1>2. /\ job' = [job EXCEPT ![p] = after] /\ UNCHANGED <<row, conf, made, clock, clean>>
      /\ ~ At(p, "writing")
  BY DEF ListMemories, At
<1>3. Detected(row) \subseteq Present(row) /\ Detected(row) \in SUBSET Memories
  BY DEF Detected, Live, Present
<1>4. /\ after \in Jobs /\ after.subject = Detected(row) /\ after.at \in {"listing", "upserting"}
      /\ after.todo = job[p].todo /\ after.winner = job[p].winner
  BY <1>1, <1>3, JobParts, ZenonT(30) DEF Jobs, ConflictIds
<1> HIDE DEF after
<1>5. /\ job' \in [Processes -> Jobs] /\ job'[p] = after
      /\ \A q \in Processes \ {p} : job'[q] = job[q]
  BY <1>1, <1>2, <1>4 DEF TypeOK
<1>6. QED
  BY <1>1, <1>2, <1>3, <1>4, <1>5, QuietStep DEF TypeOK, TablesOK

LEMMA ListOpenKeeps ==
  ASSUME IInv, NEW p \in Writers \cup Scanners, ListOpen(p)
  PROVE  IInv'
<1>1. p \in Processes /\ TypeOK /\ TablesOK /\ JobOK(p)
  BY DEF Processes, Judges, IInv, Stored, TablesOK
<1> DEFINE after == [job[p] EXCEPT !.stale = Outdated(p),
                       !.at = IF p \in Scanners THEN "upserting" ELSE "closing"]
<1>2. /\ job' = [job EXCEPT ![p] = after] /\ UNCHANGED <<row, conf, made, clock, clean>>
      /\ ~ At(p, "writing")
  BY DEF ListOpen, At
<1>3. Outdated(p) \in SUBSET ConflictIds
  BY DEF Outdated
<1>4. /\ after \in Jobs /\ after.subject = job[p].subject /\ after.at \in {"upserting", "closing"}
      /\ after.todo = job[p].todo /\ after.winner = job[p].winner
  BY <1>1, <1>3, JobParts DEF Jobs
<1> HIDE DEF after
<1>5. /\ job' \in [Processes -> Jobs] /\ job'[p] = after
      /\ \A q \in Processes \ {p} : job'[q] = job[q]
  BY <1>1, <1>2, <1>4 DEF TypeOK
<1>6. job[p].subject \subseteq Present(row)
  BY <1>1 DEF JobOK
<1>7. QED
  BY <1>1, <1>2, <1>4, <1>5, <1>6, QuietStep DEF TypeOK, TablesOK

LEMMA UpsertKeeps ==
  ASSUME IInv, NEW p \in Writers \cup Scanners, Upsert(p)
  PROVE  IInv'
<1>1. p \in Processes /\ TypeOK /\ TablesOK /\ JobOK(p)
  BY DEF Processes, Judges, IInv, Stored, TablesOK
<1> DEFINE after == [job[p] EXCEPT !.at = IF p \in Scanners THEN "closing" ELSE "listing"]
           c == job[p].subject
           record == [status |-> "open", detector |-> Detector(p)]
<1>2. /\ job' = [job EXCEPT ![p] = after] /\ UNCHANGED <<row, made, clock, clean>>
      /\ ~ At(p, "writing")
      /\ conf' = IF c = {} THEN conf ELSE [conf EXCEPT ![c] = record]
  BY DEF Upsert, At
<1>3. record \in Records /\ c \in ConflictIds /\ c \subseteq Present(row)
  BY <1>1, JobParts DEF Records, Detectors, Detector, ConflictIds, JobOK
<1>4. /\ after \in Jobs /\ after.subject = c /\ after.at \in {"listing", "closing"}
      /\ after.todo = job[p].todo /\ after.winner = job[p].winner
  BY <1>1, JobParts DEF Jobs
<1> HIDE DEF after, record, c
<1>5. /\ job' \in [Processes -> Jobs] /\ job'[p] = after
      /\ \A q \in Processes \ {p} : job'[q] = job[q]
  BY <1>1, <1>2, <1>4 DEF TypeOK
<1>6. conf' \in [ConflictIds -> Records]
  BY <1>1, <1>2, <1>3 DEF TypeOK
<1>7. \A d \in ConflictIds : conf'[d].status = "open" => d \subseteq Present(row)
  BY <1>1, <1>2, <1>3 DEF TablesOK, TypeOK
<1>8. QED
  BY <1>2, <1>1, <1>3, <1>4, <1>5, <1>6, <1>7, QuietStep

LEMMA CloseStaleKeeps ==
  ASSUME IInv, NEW p \in Writers \cup Scanners, CloseStale(p)
  PROVE  IInv'
<1>1. p \in Processes /\ TypeOK /\ TablesOK /\ JobOK(p)
  BY DEF Processes, Judges, IInv, Stored, TablesOK
<1>2. UNCHANGED <<row, made, clock, clean>> /\ ~ At(p, "writing") /\ job[p].at = "closing"
  BY DEF CloseStale, At
<1>3. CASE job[p].stale = {} /\ Finish(p) /\ UNCHANGED conf
  <2>1. job' \in [Processes -> Jobs] /\ job'[p] = Idle
        /\ \A q \in Processes \ {p} : job'[q] = job[q]
    BY <1>1, <1>3, IdleIn, ReviewConstants DEF Finish, TypeOK
  <2>2. QED
    BY <1>1, <1>2, <1>3, <2>1, IdleIn, ReviewConstants, QuietStep DEF TypeOK, TablesOK
<1>4. ASSUME NEW c \in job[p].stale,
             conf' = [conf EXCEPT ![c] = [status |-> "resolved", detector |-> Detector(p)]],
             job' = [job EXCEPT ![p].stale = @ \ {c}]
      PROVE  IInv'
  <2> DEFINE after == [job[p] EXCEPT !.stale = @ \ {c}]
             record == [status |-> "resolved", detector |-> Detector(p)]
  <2>1. /\ after \in Jobs /\ after.subject = job[p].subject /\ after.at = "closing"
        /\ after.todo = job[p].todo /\ after.winner = job[p].winner
    BY <1>1, <1>2, JobParts DEF Jobs
  <2>2. /\ job' \in [Processes -> Jobs] /\ job'[p] = after
        /\ \A q \in Processes \ {p} : job'[q] = job[q]
    BY <1>1, <1>4, <2>1 DEF TypeOK
  <2>3. record \in Records /\ record.status # "open"
    BY DEF Records, Detectors, Detector
  <2> HIDE DEF after, record
  <2>4. conf' \in [ConflictIds -> Records]
    BY <1>1, <1>4, <2>3 DEF TypeOK, record
  <2>5. \A d \in ConflictIds : conf'[d].status = "open" => d \subseteq Present(row)
    BY <1>1, <1>4, <2>3 DEF TablesOK, TypeOK, record
  <2>6. job[p].subject \subseteq Present(row)
    BY <1>1 DEF JobOK
  <2>7. QED
    BY <1>1, <1>2, <2>1, <2>2, <2>4, <2>5, <2>6, QuietStep
<1>5. QED
  BY <1>3, <1>4 DEF CloseStale

LEMMA ScanDiesKeeps ==
  ASSUME IInv, NEW p \in Writers \cup Scanners, ScanDies(p)
  PROVE  IInv'
<1>1. p \in Processes /\ TypeOK /\ TablesOK
  BY DEF Processes, Judges, IInv, Stored, TablesOK
<1>2. UNCHANGED <<row, conf, made, clock, clean>> /\ ~ At(p, "writing")
  BY DEF ScanDies, At
<1>3. job' \in [Processes -> Jobs] /\ job'[p] = Idle
      /\ \A q \in Processes \ {p} : job'[q] = job[q]
  BY <1>1, IdleIn, ReviewConstants DEF ScanDies, Finish, TypeOK
<1>4. QED
  BY <1>1, <1>2, <1>3, IdleIn, ReviewConstants, QuietStep DEF TypeOK, TablesOK

-----------------------------------------------------------------------------
(* The reviewers, up to a decision and after one.                          *)
LEMMA OpenConflictKeeps ==
  ASSUME IInv, NEW r \in Reviewers, NEW c \in ConflictIds, OpenConflict(r, c)
  PROVE  IInv'
<1>1. r \in Processes /\ TypeOK /\ TablesOK
  BY DEF Processes, Judges, IInv, Stored, TablesOK
<1> DEFINE after == [Idle EXCEPT !.at = "reading", !.subject = c]
<1>2. /\ job' = [job EXCEPT ![r] = after] /\ UNCHANGED <<row, conf, made, clock, clean>>
      /\ ~ At(r, "writing") /\ c \subseteq Present(row)
  BY <1>1 DEF OpenConflict, At, TablesOK
<1>3. /\ after \in Jobs /\ after.subject = c /\ after.at = "reading"
      /\ after.todo = {} /\ after.winner = None
  BY IdleIn, ReviewConstants DEF Jobs
<1> HIDE DEF after
<1>4. /\ job' \in [Processes -> Jobs] /\ job'[r] = after
      /\ \A q \in Processes \ {r} : job'[q] = job[q]
  BY <1>1, <1>2, <1>3 DEF TypeOK
<1>5. QED
  BY <1>1, <1>2, <1>3, <1>4, QuietStep DEF TypeOK, TablesOK

LEMMA ReviewEnds ==
  ASSUME IInv, NEW r \in Reviewers, ~ At(r, "writing"), Finish(r), UNCHANGED <<row, made, clock>>,
         clean' => clean,
         UNCHANGED conf \/ \E s \in {"resolved_false_positive", "resolved_choose_winner"} :
                             SetStatus(job[r].subject, s)
  PROVE  IInv'
<1>1. r \in Processes /\ TypeOK /\ TablesOK /\ job[r].subject \in ConflictIds
  BY JobParts DEF Processes, Judges, IInv, Stored, TablesOK, ConflictIds
<1>2. /\ job' \in [Processes -> Jobs] /\ job'[r] = Idle
      /\ \A q \in Processes \ {r} : job'[q] = job[q]
  BY <1>1, IdleIn, ReviewConstants DEF Finish, TypeOK
<1>3. /\ conf' \in [ConflictIds -> Records]
      /\ \A c \in ConflictIds : conf'[c].status = "open" => c \subseteq Present(row)
  <2>1. CASE UNCHANGED conf
    BY <1>1, <2>1 DEF TypeOK, TablesOK
  <2>2. ASSUME NEW s \in {"resolved_false_positive", "resolved_choose_winner"},
               SetStatus(job[r].subject, s)
        PROVE  /\ conf' \in [ConflictIds -> Records]
               /\ \A c \in ConflictIds : conf'[c].status = "open" => c \subseteq Present(row)
    <3>1. conf' = [conf EXCEPT ![job[r].subject] = [@ EXCEPT !.status = s]]
      BY <2>2 DEF SetStatus
    <3>2. \A c \in ConflictIds : [conf[c] EXCEPT !.status = s] \in Records
      BY <1>1, <2>2 DEF TypeOK, Records
    <3>3. conf' \in [ConflictIds -> Records]
      BY <1>1, <3>1, <3>2 DEF TypeOK
    <3>4. \A c \in ConflictIds : conf'[c].status = "open" => conf[c].status = "open"
      BY <1>1, <2>2, <3>1 DEF TypeOK, Records
    <3>5. QED
      BY <1>1, <3>3, <3>4 DEF TablesOK
  <2>3. QED
    BY <2>1, <2>2
<1>4. QED
  BY <1>1, <1>2, <1>3, IdleIn, ReviewConstants, QuietStep

-----------------------------------------------------------------------------
(* A decision to retire the memories S, each for its successor.            *)
LEMMA PlanningStep ==
  ASSUME IInv, NEW p \in Judges, NEW S \in SUBSET Present(row),
         NEW successor \in [S -> Memories], Planning(p, successor),
         ~ Deciding(p), UNCHANGED <<row, conf, made, clock>>,
         clean' => /\ clean /\ Alone(p)
                   /\ \A m \in S : successor[m] \in Present(row) \ (Gone(row) \cup S)
  PROVE  IInv'
<1> DEFINE copy == [m \in Memories |-> IF m \in S THEN Planned(m, successor[m]) ELSE Absent(m)]
           after == [Idle EXCEPT !.at = "retiring", !.subject = job[p].subject,
                       !.todo = S, !.copy = copy]
<1>1. p \in Processes /\ TypeOK /\ TablesOK /\ JobOK(p) /\ Stored
  BY DEF Processes, IInv, Stored, TablesOK
<1>2. S \subseteq Memories /\ DOMAIN successor = S
  BY DEF Present
<1>3. job' = [job EXCEPT ![p] = after]
  BY <1>2 DEF Planning
<1>4. \A m \in S : Planned(m, successor[m]) \in Rows /\ Planned(m, successor[m]).by = successor[m]
  <2>1. ASSUME NEW m \in S
        PROVE  Planned(m, successor[m]) \in Rows /\ Planned(m, successor[m]).by = successor[m]
    <3>1. Absent(m) \in Rows /\ row[m].status \in Statuses /\ successor[m] \in Memories
      BY <1>1, <1>2, AbsentIn, ReviewConstants DEF TypeOK, Rows
    <3>2. QED
      BY <3>1 DEF Planned, Rows
  <2>2. QED
    BY <2>1
<1>5. copy \in [Memories -> Rows] /\ \A m \in S : copy[m].by = successor[m]
  BY <1>2, <1>4, AbsentIn, ReviewConstants
<1> HIDE DEF copy
<1>6. /\ after \in Jobs /\ after.subject = job[p].subject /\ after.at = "retiring"
      /\ after.todo = S /\ after.winner = None /\ after.copy = copy
  BY <1>1, <1>2, <1>5, IdleIn, JobParts, ReviewConstants DEF Jobs, ConflictIds
<1> HIDE DEF after
<1>7. /\ job' \in [Processes -> Jobs] /\ job'[p] = after
      /\ \A q \in Processes \ {p} : job'[q] = job[q]
  BY <1>1, <1>3, <1>6 DEF TypeOK
<1>8. Present(row)' = Present(row) /\ Gone(row)' = Gone(row)
  BY DEF Present, Gone
<1>9. TablesOK'
  BY <1>1, <1>7, <1>8 DEF TablesOK, TypeOK
<1>10. JobOK(p)'
  <2>1. Pending(p)' = S
    BY <1>6, <1>7 DEF Pending
  <2>2. \A m \in S : m <= made'
    BY <1>1 DEF TablesOK
  <2>3. job'[p].subject \subseteq Present(row)' /\ ~ At(p, "writing")' /\ p \in Judges
        /\ job'[p].winner \notin job'[p].todo
    BY <1>1, <1>2, <1>6, <1>7, <1>8, ReviewConstants DEF JobOK, At, ReviewConstants
  <2>4. QED
    BY <2>1, <2>2, <2>3 DEF JobOK
<1>11. Stored'
  BY <1>1, <1>7, <1>8, <1>9, <1>10, OthersOK DEF TablesOK
<1>12. ASSUME clean' PROVE Orderly'
  <2>1. Orderly /\ Alone(p)
    BY <1>12 DEF IInv
  <2>2. \A q \in Processes \ {p} : ~ Deciding(q)
    BY <1>1, <2>1 DEF Stored, JobOK, Alone
  <2>3. ~ At(p, "writing") /\ ~ At(p, "writing")'
    BY <1>6, <1>7 DEF Deciding, At
  <2>4. Heirs(p)'
    BY <1>5, <1>6, <1>7, <1>8, <1>12 DEF Heirs
  <2>5. QED
    BY <1>1, <1>7, <2>1, <2>2, <2>3, <2>4, OrderlyBesides
<1>13. QED
  BY <1>11, <1>12 DEF IInv

(* The heirs of the duplicates are no duplicates.                          *)
LEMMA ListDuplicatesKeeps ==
  ASSUME IInv, NEW d \in Cleaners, ListDuplicates(d)
  PROVE  IInv'
<1>1. TypeOK /\ row \in [Memories -> Rows] /\ d \in Judges
  BY DEF IInv, Stored, TablesOK, TypeOK, Judges
<1> DEFINE active == {m \in Memories : row[m].status = "active"}
           Doubles(m) == {n \in Memories : row[n].status = "active" /\ row[n].value = row[m].value}
           S == {m \in Memories : row[m].status = "active" /\ Survivor(m) # m}
           successor == [m \in S |-> Survivor(m)]
<1>2. ASSUME NEW m \in active
      PROVE  Survivor(m) \in active /\ Survivor(Survivor(m)) = Survivor(m)
  <2>1. m \in Doubles(m) /\ Doubles(m) \in SUBSET Memories /\ Doubles(m) # {}
    OBVIOUS
  <2>2. Survivor(m) = Strongest(row, Doubles(m))
    BY DEF Survivor
  <2> HIDE DEF Doubles
  <2>3. Survivor(m) \in Doubles(m)
    BY <1>1, <2>1, <2>2, StrongestIn, ReviewConstants
  <2>4. Doubles(Survivor(m)) = Doubles(m) /\ Survivor(m) \in active
    BY <2>3 DEF Doubles
  <2>5. Survivor(Survivor(m)) = Strongest(row, Doubles(Survivor(m)))
    BY DEF Survivor, Doubles
  <2>6. QED
    BY <2>2, <2>4, <2>5
<1>3. active \subseteq Present(row) \ Gone(row)
  BY DEF Present, Gone
<1>4. \A m \in S : successor[m] \in active \ S
  BY <1>2
<1>5. /\ Planning(d, successor) /\ ~ Deciding(d) /\ UNCHANGED <<row, conf, made, clock>>
      /\ clean' = (clean /\ Alone(d))
  BY DEF ListDuplicates, At, Deciding
<1>6. S \subseteq active /\ active \subseteq Memories
  OBVIOUS
<1> HIDE DEF active
<1>7. successor \in [S -> Memories]
  BY <1>4, <1>6
<1> HIDE DEF S, successor
<1>8. S \in SUBSET Present(row)
  BY <1>3, <1>6
<1>9. clean' => /\ clean /\ Alone(d)
                /\ \A m \in S : successor[m] \in Present(row) \ (Gone(row) \cup S)
  BY <1>3, <1>4, <1>5
<1>10. QED
  BY <1>1, <1>5, <1>7, <1>8, <1>9, PlanningStep

(* A reviewer plans the losers of a conflict, or is refused.               *)
LEMMA PlanLosersKeeps ==
  ASSUME IInv, NEW r \in Reviewers, At(r, "reading"), NEW w \in job[r].subject,
         PlanLosers(r, w), UNCHANGED <<row, conf, made, clock>>,
         clean' => clean /\ Alone(r) /\ row[w].status # "superseded"
  PROVE  IInv'
<1> DEFINE S == {m \in job[r].subject \ {w} : row[m].status # "superseded"}
           successor == [m \in S |-> w]
<1>1. JobOK(r) /\ r \in Judges /\ ~ At(r, "writing") /\ ~ Deciding(r)
  BY DEF IInv, Stored, Processes, Judges, At, Deciding
<1>2. w \in Present(row) /\ S \in SUBSET Present(row) /\ w \notin S
  BY <1>1 DEF JobOK
<1>3. (S \subseteq Live(row) /\ Planning(r, successor)) \/ Finish(r)
  BY DEF PlanLosers
<1> HIDE DEF S
<1>4. CASE S \subseteq Live(row) /\ Planning(r, successor)
  <2>1. successor \in [S -> Memories]
    BY <1>2 DEF Present
  <2>2. clean' => /\ clean /\ Alone(r)
                  /\ \A m \in S : successor[m] \in Present(row) \ (Gone(row) \cup S)
    BY <1>2 DEF Gone
  <2> HIDE DEF successor
  <2>3. QED
    BY <1>1, <1>2, <1>4, <2>1, <2>2, PlanningStep
<1>5. CASE Finish(r)
  BY <1>1, <1>5, ReviewEnds
<1>6. QED
  BY <1>3, <1>4, <1>5

LEMMA ReviewKeeps ==
  ASSUME IInv, NEW r \in Reviewers,
         MarkFalsePositive(r) \/ ApplySuggested(r) \/ ChooseWinner(r) \/ CloseReviewed(r)
  PROVE  IInv'
<1>1. CASE MarkFalsePositive(r)
  <2>1. ~ At(r, "writing") /\ Finish(r) /\ UNCHANGED <<row, made, clock, clean>>
        /\ SetStatus(job[r].subject, "resolved_false_positive")
    BY <1>1 DEF MarkFalsePositive, At
  <2>2. QED
    BY <2>1, ReviewEnds
<1>2. CASE CloseReviewed(r)
  <2>1. ~ At(r, "writing") /\ Finish(r) /\ UNCHANGED <<row, made, clock, clean>>
        /\ SetStatus(job[r].subject, "resolved_choose_winner")
    BY <1>2 DEF CloseReviewed, At
  <2>2. QED
    BY <2>1, ReviewEnds
<1>3. CASE ApplySuggested(r)
  <2>1. PICK w \in Suggested(row, job[r].subject) : PlanLosers(r, w)
    BY <1>3 DEF ApplySuggested
  <2>2. w \in job[r].subject /\ row[w].status # "superseded"
    BY DEF Suggested, Tied
  <2>3. QED
    BY <1>3, <2>1, <2>2, PlanLosersKeeps DEF ApplySuggested
<1>4. CASE ChooseWinner(r)
  <2>1. PICK w \in job[r].subject :
          /\ PlanLosers(r, w)
          /\ clean' = (clean /\ Alone(r) /\ row[w].status # "superseded")
    BY <1>4 DEF ChooseWinner
  <2>2. QED
    BY <1>4, <2>1, PlanLosersKeeps DEF ChooseWinner
<1>5. QED
  BY <1>1, <1>2, <1>3, <1>4

-----------------------------------------------------------------------------
(* A planned retirement is passed over or written.                         *)
LEMMA DoneJob ==
  ASSUME IInv, NEW p \in Processes, NEW m \in job[p].todo, job' = Done(p, m)
  PROVE  /\ job' \in [Processes -> Jobs] /\ \A q \in Processes \ {p} : job'[q] = job[q]
         /\ job'[p].at = job[p].at /\ job'[p].subject = job[p].subject
         /\ job'[p].todo = job[p].todo \ {m} /\ job'[p].winner = job[p].winner
         /\ \A n \in Memories \ {m} : job'[p].copy[n] = job[p].copy[n]
<1> DEFINE after == [job[p] EXCEPT !.todo = @ \ {m}, !.copy[m] = Absent(m)]
<1>1. TypeOK /\ job[p] \in Jobs /\ m \in Memories /\ job[p].copy \in [Memories -> Rows]
  BY JobParts DEF IInv, Stored, TablesOK
<1>2. Absent(m) \in Rows
  BY <1>1, AbsentIn, ReviewConstants
<1>3. [job[p].copy EXCEPT ![m] = Absent(m)] \in [Memories -> Rows]
  BY <1>1, <1>2
<1>4. /\ after \in Jobs /\ after.at = job[p].at /\ after.subject = job[p].subject
      /\ after.todo = job[p].todo \ {m} /\ after.winner = job[p].winner
      /\ after.copy = [job[p].copy EXCEPT ![m] = Absent(m)]
  BY <1>1, <1>3 DEF Jobs
<1>5. job' = [job EXCEPT ![p] = after]
  BY <1>1 DEF Done, TypeOK
<1> HIDE DEF after
<1>6. /\ job' \in [Processes -> Jobs] /\ job'[p] = after
      /\ \A q \in Processes \ {p} : job'[q] = job[q]
  BY <1>1, <1>4, <1>5 DEF TypeOK
<1>7. QED
  BY <1>1, <1>4, <1>6

LEMMA PassedOver ==
  ASSUME IInv, NEW p \in Processes, At(p, "retiring"), NEW m \in job[p].todo, job' = Done(p, m),
         UNCHANGED <<row, conf, made, clock, clean>>
  PROVE  IInv'
<1>1. TypeOK /\ TablesOK /\ JobOK(p) /\ Stored
  BY DEF IInv, Stored, TablesOK
<1>2. /\ job' \in [Processes -> Jobs] /\ \A q \in Processes \ {p} : job'[q] = job[q]
      /\ job'[p].at = job[p].at /\ job'[p].subject = job[p].subject
      /\ job'[p].todo = job[p].todo \ {m} /\ job'[p].winner = job[p].winner
      /\ \A n \in Memories \ {m} : job'[p].copy[n] = job[p].copy[n]
  BY DoneJob
<1>3. Present(row)' = Present(row) /\ Gone(row)' = Gone(row)
  BY DEF Present, Gone
<1>4. TablesOK'
  BY <1>1, <1>2, <1>3 DEF TablesOK, TypeOK
<1>5. ~ At(p, "writing") /\ ~ At(p, "writing")' /\ Deciding(p)
  BY <1>2 DEF At, Deciding
<1>6. JobOK(p)'
  BY <1>1, <1>2, <1>3, <1>5 DEF JobOK, Pending
<1>7. Stored'
  BY <1>1, <1>2, <1>3, <1>4, <1>6, OthersOK DEF TablesOK
<1>8. ASSUME clean' PROVE Orderly'
  <2>1. Orderly /\ Heirs(p)
    BY <1>8 DEF IInv, Orderly, Succession
  <2>2. job[p].todo \subseteq Memories
    BY <1>1, JobParts
  <2>3. Heirs(p)'
    BY <1>2, <1>3, <2>1, <2>2 DEF Heirs
  <2>4. QED
    BY <1>2, <1>5, <2>1, <2>3, OrderlyBesides
<1>9. QED
  BY <1>7, <1>8 DEF IInv

LEMMA RetiredFor ==
  ASSUME IInv, NEW p \in Processes, At(p, "retiring"), NEW m \in job[p].todo, job' = Done(p, m),
         Retire(p, m), UNCHANGED <<conf, made, clock, clean>>
  PROVE  IInv'
<1>1. TypeOK /\ TablesOK /\ JobOK(p) /\ Stored /\ row \in [Memories -> Rows]
      /\ job[p].copy \in [Memories -> Rows] /\ job[p].todo \subseteq Memories
  BY JobParts DEF IInv, Stored, TablesOK, TypeOK
<1>2. /\ job' \in [Processes -> Jobs] /\ \A q \in Processes \ {p} : job'[q] = job[q]
      /\ job'[p].at = job[p].at /\ job'[p].subject = job[p].subject
      /\ job'[p].todo = job[p].todo \ {m} /\ job'[p].winner = job[p].winner
      /\ \A n \in Memories \ {m} : job'[p].copy[n] = job[p].copy[n]
  BY DoneJob
<1>3. m \in Memories /\ job[p].copy[m].by \in Memories \cup {None} /\ clock \in 0..MaxClock
  BY <1>1 DEF Rows, TypeOK
<1>4. row' = [row EXCEPT ![m] = [row[m] EXCEPT !.status = "superseded",
                                               !.by = job[p].copy[m].by, !.upd = clock]]
  BY DEF Retire
<1>5. [row[m] EXCEPT !.status = "superseded", !.by = job[p].copy[m].by, !.upd = clock] \in Rows
  BY <1>1, <1>3, ZenonT(30) DEF Rows, Statuses
<1>6. /\ row' \in [Memories -> Rows] /\ row'[m].status = "superseded"
      /\ row'[m].by = job[p].copy[m].by /\ \A n \in Memories \ {m} : row'[n] = row[n]
  BY <1>1, <1>3, <1>4, <1>5 DEF Rows
<1>7. Present(row)' = Present(row) \cup {m} /\ Gone(row)' = Gone(row) \cup {m}
  <2>1. ASSUME NEW n \in Memories
        PROVE  /\ row'[n].status # "absent" <=> row[n].status # "absent" \/ n = m
               /\ row'[n].status = "superseded" <=> row[n].status = "superseded" \/ n = m
    BY <1>6
  <2>2. QED
    BY <1>3, <2>1 DEF Present, Gone
<1>8. m <= made
  BY <1>1 DEF JobOK, Pending
<1>9. TablesOK'
  <2>1. \A n \in Present(row)' : n <= made'
    BY <1>1, <1>7, <1>8 DEF TablesOK
  <2>2. \A c \in ConflictIds : conf'[c].status = "open" => c \subseteq Present(row)'
    BY <1>1, <1>7 DEF TablesOK
  <2>3. QED
    BY <1>1, <1>2, <1>6, <2>1, <2>2 DEF TablesOK, TypeOK
<1>10. ~ At(p, "writing") /\ ~ At(p, "writing")' /\ Deciding(p) /\ Deciding(p)'
  BY <1>2 DEF At, Deciding
<1>11. JobOK(p)'
  <2>1. /\ Pending(p)' \subseteq Pending(p) /\ job'[p].subject \subseteq Present(row)'
        /\ job'[p].winner \notin job'[p].todo
    BY <1>1, <1>2, <1>7 DEF Pending, JobOK
  <2>2. QED
    BY <1>1, <1>10, <2>1 DEF JobOK
<1>12. Stored'
  <2>1. Present(row) \subseteq Present(row)' /\ made <= made'
    BY <1>1, <1>7 DEF TablesOK
  <2>2. QED
    BY <1>1, <1>2, <1>9, <1>11, <2>1, OthersOK
<1>13. ASSUME clean' PROVE Orderly'
  <2>1. Orderly /\ OneDecides /\ Heirs(p)
    BY <1>13 DEF IInv, Orderly, Succession
  <2>2. ASSUME NEW q \in Processes \ {p} PROVE ~ Deciding(q)
    BY <1>10, <2>1 DEF OneDecides
  <2>3. ASSUME NEW q \in Processes \ {p} PROVE ~ Deciding(q)'
    BY <1>2, <2>2 DEF Deciding, At
  <2>4. OneDecides'
    BY <2>3 DEF OneDecides
  <2>5. \A q \in Processes : ~ At(q, "writing")
    BY <1>10, <2>2 DEF Deciding, At
  <2>6. Leads(row)
    BY <2>1, <2>5 DEF Orderly, Succession
  <2>7. job[p].copy[m].by \in Present(row) \ (Gone(row) \cup {m})
    BY <2>1 DEF Heirs
  <2>8. Leads(row')
    <3>1. row'[m].by \in Present(row') \ Gone(row') /\ Present(row) \subseteq Present(row')
      BY <1>6, <1>7, <2>7 DEF Present, Gone
    <3>2. QED
      BY <1>3, <1>6, <2>6, <3>1, LeadsOnRetired
  <2>9. Heirs(p)'
    BY <1>1, <1>2, <1>7, <2>1 DEF Heirs
  <2>10. ASSUME NEW q \in Processes
         PROVE  (At(q, "writing") => Leads(Outlook(q)))' /\ (At(q, "retiring") => Heirs(q))'
    BY <1>10, <2>3, <2>9 DEF Deciding, At
  <2>11. Succession'
    BY <2>8, <2>10 DEF Succession
  <2>12. QED
    BY <2>4, <2>11 DEF Orderly
<1>14. QED
  BY <1>12, <1>13 DEF IInv

LEMMA RetiringKeeps ==
  /\ \A d \in Cleaners : IInv /\ RetireDuplicate(d) => IInv'
  /\ \A r \in Reviewers : IInv /\ RetireLoser(r) => IInv'
<1>1. ASSUME IInv, NEW d \in Cleaners, RetireDuplicate(d) PROVE IInv'
  <2>1. d \in Processes /\ TypeOK /\ TablesOK /\ At(d, "retiring") /\ ~ At(d, "writing")
        /\ UNCHANGED <<conf, made, clock, clean>>
    BY <1>1 DEF RetireDuplicate, At, Processes, Judges, IInv, Stored, TablesOK
  <2>2. CASE job[d].todo = {} /\ Finish(d) /\ UNCHANGED row
    <3>1. job' \in [Processes -> Jobs] /\ job'[d] = Idle
          /\ \A q \in Processes \ {d} : job'[q] = job[q]
      BY <2>1, <2>2, IdleIn, ReviewConstants DEF Finish, TypeOK
    <3>2. QED
      BY <1>1, <2>1, <2>2, <3>1, IdleIn, ReviewConstants, QuietStep DEF TypeOK, TablesOK
  <2>3. ASSUME NEW m \in job[d].todo, job' = Done(d, m),
               IF Fresh(d, m) THEN Retire(d, m) ELSE UNCHANGED row
        PROVE  IInv'
    BY <1>1, <2>1, <2>3, PassedOver, RetiredFor
  <2>4. QED
    BY <1>1, <2>2, <2>3 DEF RetireDuplicate
<1>2. ASSUME IInv, NEW r \in Reviewers, RetireLoser(r) PROVE IInv'
  <2>1. r \in Processes /\ At(r, "retiring") /\ ~ At(r, "writing")
        /\ UNCHANGED <<conf, made, clock, clean>>
    BY <1>2 DEF RetireLoser, At, Processes, Judges
  <2>2. ASSUME NEW m \in job[r].todo, Retire(r, m), job' = Done(r, m) PROVE IInv'
    BY <1>2, <2>1, <2>2, RetiredFor
  <2>3. CASE Finish(r) /\ UNCHANGED row
    BY <1>2, <2>1, <2>3, ReviewEnds
  <2>4. QED
    BY <1>2, <2>2, <2>3 DEF RetireLoser
<1>3. QED
  BY <1>1, <1>2

-----------------------------------------------------------------------------
(* The write path resolves a new memory: as soon as all is written, the    *)
(* rows lead to stored memories.                                           *)
LEMMA WriteKeeps ==
  ASSUME IInv, NEW w \in Writers, NEW v \in Values, Write(w, v)
  PROVE  IInv'
<1> DEFINE m == made + 1
           new == [status |-> "active", by |-> None, value |-> v, trust |-> Trust[m], upd |-> clock]
           rows == [row EXCEPT ![m] = new]
           A == {n \in Memories : row[n].status = "active"}
           S == Same(rows, m, A)
           L == IF S = {} THEN A \cup {m} ELSE A
           resolved == Resolved(rows, m, A, clock)
           winner == IF S = {} THEN m ELSE None
           copy == Only(resolved, A \cup {m})
           after == [Idle EXCEPT !.at = "writing", !.todo = A, !.copy = copy, !.winner = winner]
<1>1. w \in Processes /\ TypeOK /\ TablesOK /\ JobOK(w) /\ Stored /\ row \in [Memories -> Rows]
      /\ w \in Judges /\ clock \in 0..MaxClock
  BY DEF IInv, Stored, TablesOK, TypeOK, Processes, Judges
<1>2. /\ m \in Memories /\ made' = m /\ job' = [job EXCEPT ![w] = after]
      /\ clean' = (clean /\ Alone(w)) /\ UNCHANGED <<row, conf, clock>> /\ At(w, "idle")
  BY DEF Write
<1>3. made \in Nat /\ m \notin Present(row)
  BY <1>1, <1>2 DEF TablesOK
<1>4. A \in SUBSET Memories /\ m \notin A /\ A \subseteq Present(row)
  BY <1>2, <1>3 DEF Present
<1>5. rows \in [Memories -> Rows] /\ \A n \in A \cup {m} : rows[n].status = "active"
  <2>1. new \in Rows /\ new.status = "active"
    BY <1>1, <1>2, ReviewConstants DEF Rows, Statuses, ReviewConstants
  <2> HIDE DEF new
  <2>2. QED
    BY <1>1, <1>2, <1>4, <2>1
<1> HIDE DEF A, rows
<1>6. /\ resolved \in [Memories -> Rows]
      /\ \A n \in A \cup {m} : resolved[n].status \in {"active", "conflicted", "superseded"}
      /\ Settled(resolved, L)
  BY <1>1, <1>2, <1>4, <1>5, Resolving, ReviewConstants
<1> HIDE DEF resolved, S
<1>7. /\ copy \in [Memories -> Rows]
      /\ \A n \in A \cup {m} : copy[n] = resolved[n]
  BY <1>2, <1>4, <1>6, AbsentIn, ReviewConstants DEF Only
<1>8. L \subseteq Memories /\ L = A \cup ({winner} \ {None}) /\ winner \in {m, None} /\ m # None
      /\ None \notin Memories
  BY <1>2, <1>4, ReviewConstants DEF ReviewConstants
<1> HIDE DEF winner, copy, L
<1>9. /\ after \in Jobs /\ after.at = "writing" /\ after.todo = A /\ after.copy = copy
      /\ after.winner = winner /\ after.subject = {}
  BY <1>2, <1>4, <1>7, <1>8, IdleIn, ReviewConstants DEF Jobs
<1> HIDE DEF after
<1>10. /\ job' \in [Processes -> Jobs] /\ job'[w] = after
       /\ \A q \in Processes \ {w} : job'[q] = job[q]
  BY <1>1, <1>2, <1>9 DEF TypeOK
<1>11. Present(row)' = Present(row) /\ Gone(row)' = Gone(row)
  BY <1>2 DEF Present, Gone
<1>12. \A n \in Memories : n \in Nat
  BY ReviewConstants DEF ReviewConstants
<1>13. TablesOK'
  <2>1. m \in Nat /\ made <= m
    BY <1>3
  <2>2. \A n \in Present(row) : n <= m
    BY <1>1, <1>3, <1>12 DEF TablesOK, Present
  <2> HIDE DEF m
  <2>3. QED
    BY <1>1, <1>2, <1>10, <1>11, <2>1, <2>2 DEF TablesOK, TypeOK
<1>14. JobOK(w)'
  <2>1. Pending(w)' = L
    BY <1>8, <1>9, <1>10 DEF Pending
  <2>2. \A n \in L : n <= m
    BY <1>1, <1>3, <1>4, <1>8, <1>12 DEF TablesOK
  <2>3. \A n \in L : job'[w].copy[n].status # "absent"
    BY <1>6, <1>7, <1>8, <1>9, <1>10
  <2> HIDE DEF m
  <2>4. job'[w].subject = {} /\ made' = m /\ job'[w].winner \notin job'[w].todo
    BY <1>2, <1>4, <1>8, <1>9, <1>10
  <2>5. QED
    BY <1>1, <2>1, <2>2, <2>3, <2>4 DEF JobOK
<1>15. Stored'
  <2>1. made <= made'
    BY <1>2, <1>3
  <2>2. QED
    BY <1>1, <1>10, <1>11, <1>13, <1>14, <2>1, OthersOK
<1>16. ASSUME clean' PROVE Orderly'
  <2>1. Orderly /\ OneDecides /\ Alone(w) /\ clean
    BY <1>2, <1>16 DEF IInv, Orderly
  <2>2. \A q \in Processes \ {w} : ~ Deciding(q)
    BY <1>1, <2>1 DEF Stored, JobOK, Alone
  <2>3. ASSUME NEW q \in Processes \ {w} PROVE ~ Deciding(q)'
    BY <1>10, <2>2 DEF Deciding, At
  <2>4. OneDecides'
    BY <2>3 DEF OneDecides
  <2>5. Leads(row)
    BY <1>2, <2>1, <2>2 DEF Orderly, Succession, Deciding, At
  <2>6. Leads(Outlook(w)')
    <3> DEFINE out == Outlook(w)'
    <3>1. out = [n \in Memories |-> IF n \in A THEN Preserved(row[n], copy[n])
                                   ELSE IF n = winner THEN copy[n] ELSE row[n]]
      BY <1>2, <1>9, <1>10 DEF Outlook
    <3>2. ASSUME NEW n \in A PROVE Preserved(row[n], copy[n]) = copy[n]
      BY DEF Preserved, A
    <3> HIDE DEF out
    <3>3. \A n \in L : out[n] = resolved[n]
      BY <1>2, <1>4, <1>7, <1>8, <3>1, <3>2
    <3>4. \A n \in Memories \ L : out[n] = row[n]
      BY <1>4, <1>8, <3>1
    <3>5. Settled(out, L)
      BY <1>6, <3>3 DEF Settled
    <3>6. Present(row) \cup L \subseteq Present(out)
      BY <1>6, <1>8, <3>3, <3>4 DEF Present
    <3>7. QED
      BY <1>8, <2>5, <3>4, <3>5, <3>6, LeadsOnSettled DEF out
  <2>7. At(w, "writing")' /\ ~ At(w, "retiring")'
    BY <1>9, <1>10 DEF At
  <2>8. ASSUME NEW q \in Processes
        PROVE  (At(q, "writing") => Leads(Outlook(q)))' /\ (At(q, "retiring") => Heirs(q))'
    <3>1. CASE q = w
      BY <2>6, <2>7, <3>1
    <3>2. CASE q # w
      BY <2>3, <3>2 DEF Deciding, At
    <3>3. QED
      BY <3>1, <3>2
  <2>9. Succession'
    BY <1>1, <2>7, <2>8 DEF Succession
  <2>10. QED
    BY <2>4, <2>9 DEF Orderly
<1>17. QED
  BY <1>2, <1>15, <1>16 DEF IInv


(* What the writes of a decision leave to be done is the same before and   *)
(* after each of them.                                                     *)
LEMMA WriteBackKeeps ==
  ASSUME IInv, NEW w \in Writers, WriteBack(w)
  PROVE  IInv'
<1>1. w \in Processes /\ TypeOK /\ TablesOK /\ JobOK(w) /\ Stored /\ row \in [Memories -> Rows]
      /\ job[w].copy \in [Memories -> Rows] /\ job[w].todo \subseteq Memories
  BY JobParts DEF IInv, Stored, TablesOK, TypeOK, Processes, Judges
<1>2. At(w, "writing") /\ UNCHANGED <<conf, made, clock, clean>>
  BY DEF WriteBack
<1>3. PICK m \in job[w].todo : /\ row' = [row EXCEPT ![m] = Preserved(row[m], job[w].copy[m])]
                               /\ job' = Done(w, m)
  BY DEF WriteBack, Done
<1>4. /\ job' \in [Processes -> Jobs] /\ \A q \in Processes \ {w} : job'[q] = job[q]
      /\ job'[w].at = job[w].at /\ job'[w].subject = job[w].subject
      /\ job'[w].todo = job[w].todo \ {m} /\ job'[w].winner = job[w].winner
      /\ \A n \in Memories \ {m} : job'[w].copy[n] = job[w].copy[n]
  BY <1>1, <1>3, DoneJob
<1>5. m \in Memories /\ m \in Pending(w) /\ m <= made /\ job[w].copy[m].status # "absent"
  BY <1>1, <1>2 DEF JobOK, Pending
<1>6. /\ Preserved(row[m], job[w].copy[m]) \in Rows
      /\ row[m].status # "absent" => Preserved(row[m], job[w].copy[m]).status # "absent"
  <2>1. row[m] \in Rows /\ job[w].copy[m] \in Rows
    BY <1>1, <1>5
  <2>2. [job[w].copy[m] EXCEPT !.status = row[m].status, !.by = row[m].by] \in Rows
    BY <2>1 DEF Rows
  <2>3. QED
    BY <1>5, <2>1, <2>2 DEF Preserved, Rows
<1>7. /\ row' \in [Memories -> Rows] /\ row'[m] = Preserved(row[m], job[w].copy[m])
      /\ \A n \in Memories \ {m} : row'[n] = row[n]
  BY <1>1, <1>3, <1>5, <1>6
<1>8. Present(row) \subseteq Present(row)' /\ Present(row)' \subseteq Present(row) \cup {m}
  BY <1>6, <1>7 DEF Present
<1>9. TablesOK'
  <2>1. \A n \in Present(row)' : n <= made'
    BY <1>1, <1>2, <1>5, <1>8 DEF TablesOK
  <2>2. \A c \in ConflictIds : conf'[c].status = "open" => c \subseteq Present(row)'
    BY <1>1, <1>2, <1>8 DEF TablesOK
  <2>3. QED
    BY <1>1, <1>2, <1>4, <1>7, <2>1, <2>2 DEF TablesOK, TypeOK
<1>10. At(w, "writing")' /\ Deciding(w) /\ Deciding(w)' /\ ~ At(w, "retiring")'
  BY <1>2, <1>4 DEF At, Deciding
<1>11. None \notin Memories
  BY ReviewConstants DEF ReviewConstants
<1>12. JobOK(w)'
  <2>1. /\ Pending(w)' \subseteq Pending(w) /\ job'[w].subject \subseteq Present(row)'
        /\ job'[w].winner \notin job'[w].todo
    BY <1>1, <1>4, <1>8 DEF Pending, JobOK
  <2>2. ASSUME NEW n \in Pending(w)' PROVE job'[w].copy[n].status # "absent"
    <3>1. n \in Pending(w) /\ n \in Memories
      BY <2>1, <1>1, JobParts
    <3>2. CASE n # m
      BY <1>1, <1>2, <1>4, <3>1, <3>2 DEF JobOK
    <3>3. CASE n = m
      BY <1>1, <1>4, <3>3 DEF Pending, JobOK
    <3>4. QED
      BY <3>2, <3>3
  <2>3. QED
    BY <1>1, <1>2, <1>10, <2>1, <2>2 DEF JobOK
<1>13. Stored'
  <2>1. made <= made'
    BY <1>1, <1>2 DEF TablesOK
  <2>2. QED
    BY <1>1, <1>4, <1>8, <1>9, <1>12, <2>1, OthersOK
<1>14. ASSUME clean' PROVE Orderly'
  <2>1. Orderly /\ OneDecides /\ Leads(Outlook(w))
    BY <1>1, <1>2, <1>14 DEF IInv, Orderly, Succession
  <2>2. ASSUME NEW q \in Processes \ {w} PROVE ~ Deciding(q)'
    BY <1>1, <1>4, <1>10, <2>1 DEF OneDecides, Deciding, At
  <2>3. OneDecides'
    BY <2>2 DEF OneDecides
  <2>4. Leads(Outlook(w)')
    <3>1. ASSUME NEW n \in Memories PROVE Outlook(w)'[n] = Outlook(w)[n]
      <4>1. job[w].winner # m
        BY <1>1 DEF JobOK
      <4>2. CASE n = m
        BY <1>4, <1>7, <4>1, <4>2 DEF Outlook
      <4>3. CASE n # m
        BY <1>4, <1>7, <4>3 DEF Outlook
      <4>4. QED
        BY <4>2, <4>3
    <3>2. Outlook(w)' = Outlook(w)
      BY <3>1 DEF Outlook
    <3>3. QED
      BY <2>1, <3>2
  <2>5. ASSUME NEW q \in Processes
        PROVE  (At(q, "writing") => Leads(Outlook(q)))' /\ (At(q, "retiring") => Heirs(q))'
    <3>1. CASE q = w
      BY <1>10, <2>4, <3>1
    <3>2. CASE q # w
      BY <2>2, <3>2 DEF Deciding, At
    <3>3. QED
      BY <3>1, <3>2
  <2>6. Succession'
    BY <1>1, <1>10, <2>5 DEF Succession
  <2>7. QED
    BY <2>3, <2>6 DEF Orderly
<1>15. QED
  BY <1>13, <1>14 DEF IInv

LEMMA AddMemoryKeeps ==
  ASSUME IInv, NEW w \in Writers, AddMemory(w)
  PROVE  IInv'
<1> DEFINE m == job[w].winner
           after == [Idle EXCEPT !.at = "scanning"]
<1>1. w \in Processes /\ TypeOK /\ TablesOK /\ JobOK(w) /\ Stored /\ row \in [Memories -> Rows]
      /\ job[w].copy \in [Memories -> Rows] /\ m \in Memories \cup {None}
  BY JobParts DEF IInv, Stored, TablesOK, TypeOK, Processes, Judges
<1>2. /\ At(w, "writing") /\ job[w].todo = {} /\ UNCHANGED <<conf, made, clock, clean>>
      /\ row' = IF m = None THEN row ELSE [row EXCEPT ![m] = job[w].copy[m]]
      /\ job' = [job EXCEPT ![w] = after]
  BY DEF AddMemory
<1>3. m # None => m \in Memories /\ m <= made /\ job[w].copy[m].status # "absent"
  BY <1>1, <1>2 DEF JobOK, Pending
<1>4. None \notin Memories
  BY ReviewConstants DEF ReviewConstants
<1>5. row' = Outlook(w) /\ row' \in [Memories -> Rows]
  BY <1>1, <1>2, <1>3, <1>4 DEF Outlook
<1>6. /\ after \in Jobs /\ after.at = "scanning" /\ after.todo = {} /\ after.winner = None
      /\ after.subject = {}
  BY IdleIn, ReviewConstants DEF Jobs
<1> HIDE DEF after
<1>7. /\ job' \in [Processes -> Jobs] /\ job'[w] = after
      /\ \A q \in Processes \ {w} : job'[q] = job[q]
  BY <1>1, <1>2, <1>6 DEF TypeOK
<1>8. /\ Present(row) \subseteq Present(row)'
      /\ Present(row)' \subseteq Present(row) \cup ({m} \ {None})
  BY <1>1, <1>2, <1>3 DEF Present
<1>9. TablesOK'
  <2>1. \A n \in Present(row)' : n <= made'
    BY <1>1, <1>2, <1>3, <1>8 DEF TablesOK
  <2>2. \A c \in ConflictIds : conf'[c].status = "open" => c \subseteq Present(row)'
    BY <1>1, <1>2, <1>8 DEF TablesOK
  <2>3. QED
    BY <1>1, <1>2, <1>5, <1>7, <2>1, <2>2 DEF TablesOK, TypeOK
<1>10. Deciding(w) /\ ~ Deciding(w)' /\ ~ At(w, "writing")'
  BY <1>2, <1>6, <1>7 DEF At, Deciding
<1>11. JobOK(w)'
  BY <1>6, <1>7, <1>10 DEF JobOK, Pending
<1>12. Stored'
  <2>1. made <= made'
    BY <1>1, <1>2 DEF TablesOK
  <2>2. QED
    BY <1>1, <1>7, <1>8, <1>9, <1>11, <2>1, OthersOK
<1>13. ASSUME clean' PROVE Orderly'
  <2>1. OneDecides /\ Leads(Outlook(w))
    BY <1>1, <1>2, <1>13 DEF IInv, Orderly, Succession
  <2>2. ASSUME NEW q \in Processes PROVE ~ Deciding(q)'
    BY <1>1, <1>7, <1>10, <2>1 DEF OneDecides, Deciding, At
  <2>3. Leads(row)'
    BY <1>5, <2>1
  <2>4. QED
    BY <2>2, <2>3 DEF Orderly, OneDecides, Succession, Deciding, At
<1>14. QED
  BY <1>12, <1>13 DEF IInv

-----------------------------------------------------------------------------
(* What happens beside the decisions.                                      *)
LEMMA CrashKeeps ==
  ASSUME IInv, NEW p \in Judges, Crash(p)
  PROVE  IInv'
<1>1. p \in Processes /\ TypeOK /\ TablesOK /\ Stored /\ UNCHANGED <<row, conf, made, clock>>
      /\ ~ clean' /\ Finish(p)
  BY DEF IInv, Stored, TablesOK, Processes, Crash
<1>2. /\ job' \in [Processes -> Jobs] /\ job'[p] = Idle
      /\ \A q \in Processes \ {p} : job'[q] = job[q]
  BY <1>1, IdleIn, ReviewConstants DEF Finish, TypeOK
<1>3. Present(row)' = Present(row)
  BY <1>1 DEF Present
<1>4. TablesOK'
  BY <1>1, <1>2, <1>3 DEF TablesOK, TypeOK
<1>5. JobOK(p)'
  BY <1>2, IdleIn, ReviewConstants DEF JobOK, Pending, At, Deciding
<1>6. Stored'
  BY <1>1, <1>2, <1>3, <1>4, <1>5, OthersOK DEF TablesOK
<1>7. QED
  BY <1>1, <1>6 DEF IInv

(* A retrieval touches a row, an active memory goes dormant: no memory is  *)
(* replaced, and no row is stored.                                         *)
LEMMA TouchKeeps ==
  ASSUME IInv, NEW m \in Memories, UNCHANGED <<conf, made, clock, job, clean>>,
         NEW s \in Statuses, NEW u \in 0..MaxClock,
         row' = [row EXCEPT ![m] = [@ EXCEPT !.status = s, !.upd = u]],
         row[m].status # "absent",
         s = row[m].status \/ (row[m].status = "active" /\ s = "dormant")
  PROVE  IInv'
<1>1. TypeOK /\ TablesOK /\ Stored /\ row \in [Memories -> Rows]
  BY DEF IInv, Stored, TablesOK, TypeOK
<1>2. [row[m] EXCEPT !.status = s, !.upd = u] \in Rows
  BY <1>1 DEF Rows
<1>3. /\ row' \in [Memories -> Rows] /\ row'[m].status = s /\ row'[m].by = row[m].by
      /\ \A n \in Memories \ {m} : row'[n] = row[n]
  BY <1>1, <1>2 DEF Rows
<1>4. Present(row)' = Present(row) /\ Gone(row)' = Gone(row)
  <2>1. ASSUME NEW n \in Memories
        PROVE  /\ row'[n].status = "absent" <=> row[n].status = "absent"
               /\ row'[n].status = "superseded" <=> row[n].status = "superseded"
    BY <1>3
  <2>2. QED
    BY <2>1 DEF Present, Gone
<1>5. TablesOK'
  BY <1>1, <1>3, <1>4 DEF TablesOK, TypeOK
<1>6. ASSUME NEW q \in Processes
      PROVE  /\ JobOK(q)' <=> JobOK(q)
             /\ At(q, "writing")' <=> At(q, "writing")
             /\ At(q, "retiring")' <=> At(q, "retiring")
             /\ Deciding(q)' <=> Deciding(q)
             /\ Heirs(q)' <=> Heirs(q)
  BY <1>4 DEF JobOK, At, Deciding, Pending, Heirs
<1>7. Stored'
  BY <1>1, <1>5, <1>6 DEF Stored
<1>8. ASSUME clean' PROVE Orderly'
  <2>1. Orderly
    BY <1>8 DEF IInv
  <2>2. OneDecides'
    BY <1>6, <2>1 DEF Orderly, OneDecides
  <2>3. ASSUME Leads(row) PROVE Leads(row)'
    <3> DEFINE next == row'
    <3>1. Gone(next) = Gone(row) /\ Present(row) \subseteq Present(next)
      BY <1>4
    <3>2. \A n \in Gone(row) : next[n].by = row[n].by
      BY <1>3 DEF Gone
    <3> HIDE DEF next
    <3>3. Leads(next)
      BY <2>3, <3>1, <3>2, LeadsOn
    <3>4. QED
      BY <3>3 DEF next
  <2>4. ASSUME NEW q \in Processes, At(q, "writing"), Leads(Outlook(q)) PROVE Leads(Outlook(q))'
    <3> DEFINE out == Outlook(q)
               next == Outlook(q)'
    <3>1. ASSUME NEW n \in Memories
          PROVE  /\ next[n].status = "superseded" <=> out[n].status = "superseded"
                 /\ out[n].status # "absent" => next[n].status # "absent"
                 /\ out[n].status = "superseded" => next[n].by = out[n].by
      <4>1. CASE n \in job[q].todo
        <5>1. /\ out[n] = Preserved(row[n], job[q].copy[n])
              /\ next[n] = Preserved(row'[n], job[q].copy[n])
          BY <4>1 DEF Outlook
        <5>2. job[q].copy[n] \in Rows /\ row[n] \in Rows /\ row'[n] \in Rows
          BY <1>1, <1>3, JobParts
        <5>3. \/ row'[n].status = row[n].status /\ row'[n].by = row[n].by
              \/ row[n].status = "active" /\ row'[n].status = "dormant"
          BY <1>3
        <5> HIDE DEF out, next
        <5>4. QED
          BY <5>1, <5>2, <5>3 DEF Preserved, Rows
      <4>2. CASE n \notin job[q].todo /\ n = job[q].winner
        BY <4>2 DEF Outlook
      <4>3. CASE n \notin job[q].todo /\ n # job[q].winner
        BY <1>3, <4>3 DEF Outlook
      <4>4. QED
        BY <4>1, <4>2, <4>3
    <3> HIDE DEF out, next
    <3>2. Gone(next) = Gone(out) /\ Present(out) \subseteq Present(next)
          /\ \A n \in Gone(out) : next[n].by = out[n].by
      BY <3>1 DEF Gone, Present
    <3>3. Leads(out)
      BY <2>4 DEF out
    <3>4. Leads(next)
      BY <3>2, <3>3, LeadsOn
    <3>5. QED
      BY <3>4 DEF next
  <2>5. Succession'
    BY <1>6, <2>1, <2>3, <2>4 DEF Orderly, Succession
  <2>6. QED
    BY <2>2, <2>5 DEF Orderly
<1>9. QED
  BY <1>7, <1>8 DEF IInv

LEMMA NextKeeps == IInv /\ [Next]_vars => IInv'
<1> SUFFICES ASSUME IInv, [Next]_vars PROVE IInv'
  OBVIOUS
<1>1. ASSUME NEW w \in Writers, (\E v \in Values : Write(w, v)) \/ WriteBack(w) \/ AddMemory(w)
      PROVE  IInv'
  BY <1>1, WriteKeeps, WriteBackKeeps, AddMemoryKeeps
<1>2. ASSUME NEW p \in Writers \cup Scanners,
             ListMemories(p) \/ ListOpen(p) \/ Upsert(p) \/ CloseStale(p) \/ ScanDies(p)
      PROVE  IInv'
  BY <1>2, ListMemoriesKeeps, ListOpenKeeps, UpsertKeeps, CloseStaleKeeps,
     ScanDiesKeeps
<1>3. ASSUME NEW d \in Cleaners, ListDuplicates(d) \/ RetireDuplicate(d)
      PROVE  IInv'
  BY <1>3, ListDuplicatesKeeps, RetiringKeeps
<1>4. ASSUME NEW r \in Reviewers,
             \/ \E c \in ConflictIds : OpenConflict(r, c)
             \/ MarkFalsePositive(r) \/ ApplySuggested(r) \/ ChooseWinner(r)
             \/ RetireLoser(r) \/ CloseReviewed(r)
      PROVE  IInv'
  BY <1>4, OpenConflictKeeps, ReviewKeeps, RetiringKeeps
<1>5. ASSUME NEW p \in Judges, Crash(p) PROVE IInv'
  BY <1>5, CrashKeeps
<1>6. TypeOK /\ TablesOK
  BY DEF IInv, Stored, TablesOK
<1>7. ASSUME NEW m \in Read, Bump(m) PROVE IInv'
  <2>1. m \in Memories /\ row[m] \in Rows /\ clock \in 0..MaxClock
    BY <1>6, ReviewConstants DEF TypeOK, ReviewConstants
  <2>2. row' = [row EXCEPT ![m] = [@ EXCEPT !.status = row[m].status, !.upd = clock]]
    BY <1>6, <1>7, <2>1 DEF Bump, TypeOK, Rows
  <2>3. row[m].status \in Statuses /\ row[m].status # "absent"
        /\ UNCHANGED <<conf, made, clock, job, clean>>
    BY <1>7, <2>1 DEF Bump, Rows
  <2>4. QED
    BY <2>1, <2>2, <2>3, TouchKeeps
<1>8. ASSUME NEW m \in Ageing, GoDormant(m) PROVE IInv'
  <2>1. m \in Memories /\ row[m] \in Rows
    BY <1>6, ReviewConstants DEF TypeOK, ReviewConstants
  <2>2. row' = [row EXCEPT ![m] = [@ EXCEPT !.status = "dormant", !.upd = row[m].upd]]
    BY <1>6, <1>8, <2>1 DEF GoDormant, TypeOK, Rows
  <2>3. row[m].status = "active" /\ UNCHANGED <<conf, made, clock, job, clean>>
        /\ "dormant" \in Statuses /\ row[m].upd \in 0..MaxClock
    BY <1>8, <2>1 DEF GoDormant, Rows, Statuses
  <2>4. QED
    BY <2>1, <2>2, <2>3, TouchKeeps
<1>9. ASSUME UNCHANGED <<row, conf, made, job, clean>>, clock' \in 0..MaxClock PROVE IInv'
  <2>1. TablesOK'
    BY <1>6, <1>9 DEF TablesOK, TypeOK, Present
  <2>2. ASSUME NEW q \in Processes
        PROVE  /\ JobOK(q)' <=> JobOK(q)
               /\ Deciding(q)' <=> Deciding(q)
               /\ (At(q, "writing") => Leads(Outlook(q)))'
                    <=> (At(q, "writing") => Leads(Outlook(q)))
               /\ (At(q, "retiring") => Heirs(q))' <=> (At(q, "retiring") => Heirs(q))
               /\ At(q, "writing")' <=> At(q, "writing")
    BY <1>9 DEF JobOK, Deciding, At, Pending, Outlook, Heirs, Present, Gone
  <2>3. Stored'
    BY <2>1, <2>2 DEF IInv, Stored
  <2>4. Leads(row)' <=> Leads(row)
    BY <1>9
  <2>5. Orderly' <=> Orderly
    BY <2>2, <2>4 DEF Orderly, OneDecides, Succession
  <2>6. QED
    BY <1>9, <2>3, <2>5 DEF IInv
<1>10. CASE Tick
  <2>1. clock \in 0..MaxClock /\ clock < MaxClock /\ clock' = clock + 1
    BY <1>6, <1>10 DEF Tick, TypeOK
  <2>2. clock' \in 0..MaxClock
    BY <2>1, ReviewConstants DEF ReviewConstants
  <2>3. QED
    BY <1>9, <1>10, <2>2 DEF Tick
<1>11. CASE UNCHANGED vars
  <2>1. clock' \in 0..MaxClock
    BY <1>6, <1>11 DEF vars, TypeOK
  <2>2. QED
    BY <1>9, <1>11, <2>1 DEF vars
<1>12. QED
  BY <1>1, <1>2, <1>3, <1>4, <1>5, <1>7, <1>8, <1>10, <1>11 DEF Next

LEMMA InitKeeps == Init => IInv
<1> SUFFICES ASSUME Init PROVE IInv
  OBVIOUS
<1>1. \A p \in Processes : job[p] = Idle
  BY DEF Init
<1>2. \A m \in Memories : row[m] = Absent(m) /\ row[m].status = "absent"
  BY AbsentIn, ReviewConstants DEF Init
<1>3. Gone(row) = {} /\ Present(row) = {}
  BY <1>2 DEF Gone, Present
<1>4. TypeOK
  <2>1. conf \in [ConflictIds -> Records] /\ \A c \in ConflictIds : conf[c].status = "none"
    BY DEF Init, Records, Detectors
  <2>2. row \in [Memories -> Rows] /\ clock \in 0..MaxClock
    BY AbsentIn, ReviewConstants DEF Init, ReviewConstants
  <2>3. job \in [Processes -> Jobs]
    BY IdleIn, ReviewConstants DEF Init
  <2>4. QED
    BY <2>1, <2>2, <2>3 DEF TypeOK
<1>5. TablesOK
  BY <1>3, <1>4 DEF Init, TablesOK
<1>6. \A p \in Processes : JobOK(p) /\ ~ Deciding(p)
  BY <1>1, IdleIn, ReviewConstants DEF JobOK, Deciding, At, Pending
<1>7. Leads(row)
  <2>1. ASSUME NEW C \in (SUBSET Gone(row)) \ {{}} PROVE FALSE
    <3>1. C \subseteq {} /\ C # {}
      BY <1>3
    <3>2. QED
      BY <3>1
  <2>2. QED
    BY <2>1 DEF Leads
<1>8. Orderly
  BY <1>6, <1>7 DEF Orderly, OneDecides, Succession, Deciding, At
<1>9. QED
  BY <1>5, <1>6, <1>8 DEF IInv, Stored

LEMMA IInvHolds == Spec => []IInv
BY InitKeeps, NextKeeps, PTL DEF Spec

-----------------------------------------------------------------------------
(* The rows of the key, the conflict records, and what every writer, scan, *)
(* cleaner and reviewer holds of them, are always well formed.             *)
THEOREM TypeCorrect == Spec => []TypeOK
<1>1. IInv => TypeOK
  BY DEF IInv, Stored, TablesOK
<1>2. QED
  BY <1>1, IInvHolds, PTL

(* However many memories are written, deduplicated and reviewed, whatever  *)
(* the policy says and the scans, retrievals and the scheduler do between  *)
(* the writes of a decision: as long as decisions neither overlap nor      *)
(* break off, a superseded memory leads to a stored one that is not        *)
(* superseded (MemoryResolver.resolve, dedup_memory, the conflict review). *)
THEOREM SuccessorsEnd == Spec => []SuccessionEnds
<1>1. IInv => SuccessionEnds
  <2> SUFFICES ASSUME IInv, clean, \A p \in Judges : ~ Deciding(p),
                      NEW C \in (SUBSET Retired) \ {{}}
               PROVE  \E m \in C : row[m].by \in Present(row) \ C
    BY DEF SuccessionEnds
  <2>1. \A p \in Processes : ~ At(p, "writing")
    BY DEF IInv, Stored, JobOK, Deciding, At
  <2>2. Leads(row)
    BY <2>1 DEF IInv, Orderly, Succession
  <2>3. Gone(row) = Retired
    BY DEF Gone, Retired
  <2>4. QED
    BY <2>2, <2>3 DEF Leads
<1>2. QED
  BY <1>1, IInvHolds, PTL
================================================================================
