------------------------- MODULE HarnessLoopProofs -------------------------
(***************************************************************************)
(* Proofs about HarnessLoop, for every plan, budget and number of owners:  *)
(* what its loops over lists compute, that the tool budget, the committed  *)
(* results and the types hold (CallInv), and that the published answer and *)
(* exit reason are true (AnswerInv); last, what a recovery is refused for. *)
(***************************************************************************)
EXTENDS HarnessLoop, FiniteSetTheorems, WellFoundedInduction, TLAPS

(* Loops over lists.  A loop is a recursive function of its step; what holds *)
(* of every step is carried to the last one by the least step it fails at.   *)

LEMMA LeastNumber ==
    ASSUME NEW S \in SUBSET Nat, S # {}
    PROVE  \E m \in S : \A k \in S : m <= k
<1> DEFINE R == {ss \in Nat \X Nat : ss[1] < ss[2]}
<1>1. R = OpToRel(<, Nat)
  BY DEF OpToRel
<1>2. IsWellFoundedOn(R, Nat)
  BY <1>1, NatLessThanWellFounded
<1>3. PICK x \in S : \A y \in S : ~(<<y, x>> \in R)
  <2> HIDE DEF R
  <2> QED BY <1>2, WFMin
<1>4. ASSUME NEW y \in S PROVE x <= y
  <2>1. x \in Nat /\ y \in Nat
    OBVIOUS
  <2>2. ~(y < x)
    BY <1>3, <2>1
  <2> QED
    BY <2>1, <2>2
<1> QED
  BY <1>4

LEMMA Counting ==
    ASSUME NEW n \in Nat, NEW G, 0 \in G, \A m \in 0..n : m < n /\ m \in G => m + 1 \in G
    PROVE  n \in G
<1> DEFINE Open == (0..n) \ G
<1>1. SUFFICES ASSUME n \notin G PROVE FALSE
  OBVIOUS
<1>2. PICK m \in Open : \A k \in Open : m <= k
  <2>1. Open # {} /\ Open \in SUBSET Nat
    BY <1>1
  <2> QED
    BY <2>1, LeastNumber
<1>3. m # 0 /\ m \in Nat /\ m <= n
  OBVIOUS
<1>4. m - 1 \in 0..n /\ m - 1 < n /\ ~(m <= m - 1)
  BY <1>3
<1>5. m - 1 \in G
  BY <1>2, <1>4
<1>6. (m - 1) + 1 \in G
  BY <1>4, <1>5
<1> QED
  BY <1>3, <1>6

Loops(f, n, a, F) == \A i \in 0..n : f[i] = IF i = 0 THEN a ELSE F[i][f[i - 1]]

LEMMA Looping ==
    ASSUME NEW n \in Nat, NEW D, NEW a \in D, NEW F \in [1..n -> [D -> D]]
    PROVE  \E f \in [0..n -> D] : Loops(f, n, a, F)
<1> DEFINE Solves(f, m) == \A i \in 0..m : f[i] = IF i = 0 THEN a ELSE F[i][f[i - 1]]
           Solved == {m \in 0..n : \E f \in [0..m -> D] : Solves(f, m)}
<1>1. 0 \in Solved
  <2> DEFINE f == [i \in 0..0 |-> a]
  <2>1. f \in [0..0 -> D] /\ Solves(f, 0)
    OBVIOUS
  <2>2. 0 \in 0..n
    OBVIOUS
  <2> HIDE DEF f
  <2> QED
    BY <2>1, <2>2
<1>2. ASSUME NEW m \in 0..n, m < n, m \in Solved
      PROVE  m + 1 \in Solved
  <2>1. PICK f \in [0..m -> D] : Solves(f, m)
    BY <1>2
  <2> DEFINE g == [i \in 0..(m + 1) |-> IF i = m + 1 THEN F[m + 1][f[m]] ELSE f[i]]
  <2>2. m \in Nat /\ m \in 0..m /\ m + 1 \in 1..n
    BY <1>2
  <2>3. F[m + 1][f[m]] \in D
    BY <2>2
  <2>4. g \in [0..(m + 1) -> D]
    BY <2>2, <2>3
  <2>5. ASSUME NEW i \in 0..(m + 1) PROVE g[i] = IF i = 0 THEN a ELSE F[i][g[i - 1]]
    <3>1. CASE i = m + 1
      BY <2>2, <3>1
    <3>2. CASE i # m + 1
      <4>1. i \in 0..m /\ g[i] = f[i] /\ (i # 0 => g[i - 1] = f[i - 1])
        BY <2>2, <3>2
      <4> QED
        BY <2>1, <4>1
    <3> QED
      BY <3>1, <3>2
  <2>6. m + 1 \in 0..n
    BY <2>2
  <2> HIDE DEF g
  <2> QED
    BY <2>4, <2>5, <2>6
<1>3. n \in Solved
  <2> HIDE DEF Solved
  <2> QED BY <1>1, <1>2, Counting
<1>4. PICK f \in [0..n -> D] : Solves(f, n)
  BY <1>3
<1> QED
  BY <1>4 DEF Loops

LEMMA FlattenIsSeq ==
    ASSUME NEW S, NEW seqs \in Seq(Seq(S))
    PROVE  FlattenSeq(seqs) \in Seq(S)
<1>1. CASE Len(seqs) = 0
  BY <1>1 DEF FlattenSeq
<1>2. CASE Len(seqs) # 0
  <2> DEFINE n == Len(seqs)
             F == [i \in 1..n |-> [s \in Seq(S) |-> s \o seqs[i]]]
             Solves(f) == f = [i \in 1..n |-> IF i = 1 THEN seqs[i] ELSE f[i - 1] \o seqs[i]]
             flat == CHOOSE f : Solves(f)
  <2>1. FlattenSeq(seqs) = flat[n]
    BY <1>2 DEF FlattenSeq
  <2>2. n \in Nat \ {0} /\ \A i \in 1..n : seqs[i] \in Seq(S)
    BY <1>2
  <2>3. F \in [1..n -> [Seq(S) -> Seq(S)]] /\ <<>> \in Seq(S)
    BY <2>2
  <2>5. PICK f \in [0..n -> Seq(S)] : Loops(f, n, <<>>, F)
    <3> HIDE DEF F, n
    <3>1. n \in Nat /\ F \in [1..n -> [Seq(S) -> Seq(S)]] /\ <<>> \in Seq(S)
      BY <2>2, <2>3
    <3> QED BY <3>1, Looping
  <2> DEFINE g == [i \in 1..n |-> f[i]]
  <2>6. ASSUME NEW i \in 1..n
        PROVE  f[i] = IF i = 1 THEN seqs[i] ELSE f[i - 1] \o seqs[i]
    <3>1. i \in 0..n /\ i # 0 /\ i - 1 \in 0..n /\ 0 \in 0..n
      BY <2>2
    <3>2. f[i] = F[i][f[i - 1]] /\ f[i - 1] \in Seq(S) /\ f[0] = <<>>
      BY <2>5, <3>1 DEF Loops
    <3>3. F[i] = [s \in Seq(S) |-> s \o seqs[i]] /\ (i = 1 => i - 1 = 0)
      BY <3>1
    <3>5. f[i] = f[i - 1] \o seqs[i]
      BY <3>2, <3>3
    <3>4. i = 1 => <<>> \o seqs[i] = seqs[i]
      BY <2>2
    <3> QED
      BY <3>2, <3>3, <3>4, <3>5
  <2>7. Solves(g)
    <3>1. ASSUME NEW i \in 1..n, i # 1 PROVE g[i - 1] = f[i - 1]
      BY <2>2, <3>1
    <3> QED
      BY <2>6, <3>1
  <2>8. Solves(flat)
    <3> HIDE DEF g
    <3> QED BY <2>7
  <2>9. \A i \in 1..n : flat[i] = IF i = 1 THEN seqs[i] ELSE flat[i - 1] \o seqs[i]
    <3> HIDE DEF flat, n
    <3> QED BY <2>8
  <2> HIDE DEF flat
  <2>10. n \in {m \in 0..n : m # 0 => flat[m] \in Seq(S)}
    <3> DEFINE G == {m \in 0..n : m # 0 => flat[m] \in Seq(S)}
    <3>1. 0 \in G
      BY <2>2
    <3>2. ASSUME NEW m \in 0..n, m < n, m \in G PROVE m + 1 \in G
      <4>1. m + 1 \in 1..n /\ m + 1 \in 0..n /\ (m + 1) - 1 = m
        BY <3>2
      <4>2. seqs[m + 1] \in Seq(S)
        BY <2>2, <4>1
      <4>3. flat[m + 1] = IF m + 1 = 1 THEN seqs[m + 1] ELSE flat[m] \o seqs[m + 1]
        BY <2>9, <4>1
      <4>4. CASE m = 0
        BY <4>1, <4>2, <4>3, <4>4
      <4>5. CASE m # 0
        <5>1. m + 1 # 1 /\ flat[m] \in Seq(S)
          BY <3>2, <4>5
        <5>2. flat[m + 1] = flat[m] \o seqs[m + 1]
          BY <4>3, <5>1
        <5>3. flat[m] \o seqs[m + 1] \in Seq(S)
          BY <4>2, <5>1
        <5> QED
          BY <4>1, <5>2, <5>3
      <4> QED
        BY <4>4, <4>5
    <3> HIDE DEF G
    <3>3. n \in G
      BY <2>2, <3>1, <3>2, Counting
    <3> QED
      BY <3>3 DEF G
  <2> QED
    BY <2>1, <2>2, <2>10
<1> QED
  BY <1>1, <1>2
LEMMA AppendedList ==
    ASSUME NEW S, NEW q \in Seq(S), NEW x \in S
    PROVE  Append(q, x) \in Seq(S) /\ ToSet(Append(q, x)) = ToSet(q) \cup {x}
<1>1. /\ Append(q, x) \in Seq(S) /\ DOMAIN Append(q, x) = 1..(Len(q) + 1) /\ DOMAIN q = 1..Len(q)
      /\ Len(q) \in Nat /\ Append(q, x)[Len(q) + 1] = x
      /\ \A i \in 1..Len(q) : Append(q, x)[i] = q[i]
  OBVIOUS
<1>2. \A i \in 1..(Len(q) + 1) : i \in 1..Len(q) \/ i = Len(q) + 1
  BY <1>1
<1>3. 1..Len(q) \subseteq 1..(Len(q) + 1) /\ Len(q) + 1 \in 1..(Len(q) + 1)
  BY <1>1
<1> QED
  BY <1>1, <1>2, <1>3 DEF ToSet

LEMMA JoinedList ==
    ASSUME NEW S, NEW p \in Seq(S), NEW q \in Seq(S)
    PROVE  p \o q \in Seq(S) /\ ToSet(p \o q) = ToSet(p) \cup ToSet(q)
<1>1. /\ p \o q \in Seq(S) /\ DOMAIN (p \o q) = 1..(Len(p) + Len(q))
      /\ DOMAIN p = 1..Len(p) /\ DOMAIN q = 1..Len(q) /\ Len(p) \in Nat /\ Len(q) \in Nat
  OBVIOUS
<1>2. /\ \A i \in 1..Len(p) : i \in 1..(Len(p) + Len(q)) /\ (p \o q)[i] = p[i]
      /\ \A i \in 1..Len(q) : Len(p) + i \in 1..(Len(p) + Len(q)) /\ (p \o q)[Len(p) + i] = q[i]
  BY <1>1
<1>3. ASSUME NEW i \in 1..(Len(p) + Len(q))
      PROVE  (p \o q)[i] \in ToSet(p) \cup ToSet(q)
  <2>1. CASE i \in 1..Len(p)
    BY <1>1, <1>2, <2>1 DEF ToSet
  <2>2. CASE i \notin 1..Len(p)
    <3>1. PICK j \in 1..Len(q) : i = Len(p) + j
      <4>1. i - Len(p) \in 1..Len(q) /\ i = Len(p) + (i - Len(p))
        BY <1>1, <2>2
      <4> QED
        BY <4>1
    <3>2. (p \o q)[i] = q[j]
      BY <1>2, <3>1
    <3> QED
      BY <1>1, <3>2 DEF ToSet
  <2> QED
    BY <2>1, <2>2
<1>4. ToSet(p) \cup ToSet(q) \subseteq ToSet(p \o q)
  <2>1. \A i \in 1..Len(p) : p[i] \in ToSet(p \o q)
    <3> TAKE i \in 1..Len(p)
    <3>1. i \in DOMAIN (p \o q) /\ (p \o q)[i] = p[i]
      BY <1>1, <1>2
    <3> HIDE <1>1, <1>2
    <3> QED
      BY <3>1 DEF ToSet
  <2>2. \A i \in 1..Len(q) : q[i] \in ToSet(p \o q)
    <3> TAKE i \in 1..Len(q)
    <3>1. Len(p) + i \in DOMAIN (p \o q) /\ (p \o q)[Len(p) + i] = q[i]
      BY <1>1, <1>2
    <3> QED
      BY <3>1 DEF ToSet
  <2> QED
    BY <1>1, <2>1, <2>2 DEF ToSet
<1>5. ToSet(p \o q) \subseteq ToSet(p) \cup ToSet(q)
  BY <1>1, <1>3 DEF ToSet
<1> QED
  BY <1>1, <1>4, <1>5

\* Selecting from a list keeps exactly the wanted elements.
LEMMA ThoseAreSelected ==
    ASSUME NEW S, NEW tasks \in Seq(S), NEW wanted
    PROVE  /\ Those(tasks, wanted) \in Seq(S)
           /\ ToSet(Those(tasks, wanted)) = ToSet(tasks) \cap wanted
<1> DEFINE n == Len(tasks)
           F == [i \in 1..n |-> [q \in Seq(S) |-> IF tasks[i] \in wanted THEN Append(q, tasks[i]) ELSE q]]
           Solves(f) == f = [i \in 0..n |-> IF i = 0 THEN <<>>
                                ELSE IF tasks[i] \in wanted THEN Append(f[i - 1], tasks[i]) ELSE f[i - 1]]
           those == CHOOSE f : Solves(f)
<1>1. Those(tasks, wanted) = those[n]
  BY DEF Those
<1>2. n \in Nat /\ \A i \in 1..n : tasks[i] \in S
  OBVIOUS
<1>3. F \in [1..n -> [Seq(S) -> Seq(S)]] /\ <<>> \in Seq(S)
  BY <1>2
<1>4. PICK f \in [0..n -> Seq(S)] : Loops(f, n, <<>>, F)
  <2> HIDE DEF F, n
  <2> QED BY <1>2, <1>3, Looping
<1>5. ASSUME NEW i \in 0..n
      PROVE  f[i] = IF i = 0 THEN <<>> ELSE IF tasks[i] \in wanted THEN Append(f[i - 1], tasks[i]) ELSE f[i - 1]
  <2>1. CASE i = 0
    BY <1>2, <1>4, <2>1 DEF Loops
  <2>2. CASE i # 0
    <3>1. i \in 1..n /\ i - 1 \in 0..n
      BY <1>2, <2>2
    <3>2. f[i] = F[i][f[i - 1]] /\ f[i - 1] \in Seq(S)
      BY <1>4, <2>2, <3>1 DEF Loops
    <3>3. F[i] = [q \in Seq(S) |-> IF tasks[i] \in wanted THEN Append(q, tasks[i]) ELSE q]
      BY <3>1
    <3> QED
      BY <2>2, <3>2, <3>3
  <2> QED
    BY <2>1, <2>2
<1>6. Solves(f)
  <2> HIDE DEF n
  <2> QED BY <1>5
<1>7. Solves(those)
  BY <1>6
<1>8. \A i \in 0..n : those[i] = IF i = 0 THEN <<>>
                                 ELSE IF tasks[i] \in wanted THEN Append(those[i - 1], tasks[i]) ELSE those[i - 1]
  <2> HIDE DEF those, n
  <2> QED BY <1>7
<1> HIDE DEF those
<1> DEFINE G == {m \in 0..n : /\ those[m] \in Seq(S)
                              /\ ToSet(those[m]) = {tasks[i] : i \in 1..m} \cap wanted}
<1>9. 0 \in G
  <2>1. 0 \in 0..n /\ those[0] = <<>> /\ 1..0 = {}
    BY <1>2, <1>8
  <2>2. ToSet(<<>>) = {}
    BY DEF ToSet
  <2> QED
    BY <2>1, <2>2
<1>10. ASSUME NEW m \in 0..n, m < n, m \in G PROVE m + 1 \in G
  <2>1. m + 1 \in 0..n /\ m + 1 \in 1..n /\ m + 1 # 0 /\ (m + 1) - 1 = m /\ 1..(m + 1) = (1..m) \cup {m + 1}
    BY <1>2, <1>10
  <2>2. tasks[m + 1] \in S
    BY <1>2, <2>1
  <2>3. those[m + 1] = IF tasks[m + 1] \in wanted THEN Append(those[m], tasks[m + 1]) ELSE those[m]
    BY <1>8, <2>1
  <2>4. {tasks[i] : i \in 1..(m + 1)} = {tasks[i] : i \in 1..m} \cup {tasks[m + 1]}
    BY <2>1
  <2>5. those[m] \in Seq(S) /\ ToSet(those[m]) = {tasks[i] : i \in 1..m} \cap wanted
    BY <1>10
  <2>6. CASE tasks[m + 1] \in wanted
    <3>1. those[m + 1] \in Seq(S) /\ ToSet(those[m + 1]) = ToSet(those[m]) \cup {tasks[m + 1]}
      BY <2>2, <2>3, <2>5, <2>6, AppendedList
    <3> QED
      BY <2>1, <2>4, <2>5, <2>6, <3>1
  <2>7. CASE tasks[m + 1] \notin wanted
    BY <2>1, <2>3, <2>4, <2>5, <2>7
  <2> QED
    BY <2>6, <2>7
<1>11. n \in G
  <2> HIDE DEF G, n
  <2> QED BY <1>2, <1>9, <1>10, Counting
<1>12. ToSet(tasks) = {tasks[i] : i \in 1..n}
  BY DEF ToSet
<1> QED
  BY <1>1, <1>11, <1>12

\* Some task could be started in this state.
CanStart(s) == RoomFor(s, {}) /\ \E t \in ToSet(s.plan) : Ready(s, t)

\* A wave consists of tasks that are ready, fits the budget and the parallelism, and
\* is empty only when nothing can be started.
LEMMA WaveIsSelected ==
    ASSUME HarnessAssumption, NEW s \in State
    PROVE  /\ SelectWave(s) \subseteq {t \in ToSet(s.plan) : Ready(s, t)}
           /\ IsFiniteSet(SelectWave(s)) /\ s.count + Cardinality(SelectWave(s)) <= MaxToolCalls
           /\ SelectWave(s) = {} <=> ~CanStart(s)
<1> DEFINE n == Len(s.plan)
           D == SUBSET ToSet(s.plan)
           F == [i \in 1..n |-> [picked \in D |-> Select(s, picked, s.plan[i])]]
           Solves(f) == f = [i \in 0..n |-> IF i = 0 THEN {} ELSE Select(s, f[i - 1], s.plan[i])]
           selected == CHOOSE f : Solves(f)
<1>1. SelectWave(s) = selected[n]
  BY DEF SelectWave
<1>2. /\ n \in Nat /\ s.plan \in Seq(PlanTasks) /\ ToSet(s.plan) = {s.plan[i] : i \in 1..n}
      /\ s.count \in 0..MaxToolCalls /\ MaxToolCalls \in Nat
  BY DEF State, ToSet, HarnessAssumption
<1>3. F \in [1..n -> [D -> D]] /\ {} \in D
  <2>1. ASSUME NEW i \in 1..n, NEW picked \in D PROVE Select(s, picked, s.plan[i]) \in D
    BY <1>2 DEF Select
  <2> QED
    BY <2>1
<1>4. PICK f \in [0..n -> D] : Loops(f, n, {}, F)
  <2> HIDE DEF F, n, D
  <2> QED BY <1>2, <1>3, Looping
<1>5. ASSUME NEW i \in 0..n
      PROVE  f[i] = IF i = 0 THEN {} ELSE Select(s, f[i - 1], s.plan[i])
  <2>1. CASE i = 0
    BY <1>2, <1>4, <2>1 DEF Loops
  <2>2. CASE i # 0
    <3>1. i \in 1..n /\ i - 1 \in 0..n
      BY <1>2, <2>2
    <3>2. f[i] = F[i][f[i - 1]] /\ f[i - 1] \in D
      BY <1>4, <2>2, <3>1 DEF Loops
    <3>3. F[i] = [picked \in D |-> Select(s, picked, s.plan[i])]
      BY <3>1
    <3> QED
      BY <2>2, <3>2, <3>3
  <2> QED
    BY <2>1, <2>2
<1>6. Solves(f)
  <2> HIDE DEF n
  <2> QED BY <1>5
<1>7. Solves(selected)
  BY <1>6
<1>8. \A i \in 0..n : selected[i] = IF i = 0 THEN {} ELSE Select(s, selected[i - 1], s.plan[i])
  <2> HIDE DEF selected, n
  <2> QED BY <1>7
<1> HIDE DEF selected, F
<1> DEFINE Able(m) == RoomFor(s, {}) /\ \E i \in 1..m : Ready(s, s.plan[i])
           G == {m \in 0..n : /\ selected[m] \subseteq {t \in ToSet(s.plan) : Ready(s, t)}
                              /\ IsFiniteSet(selected[m])
                              /\ s.count + Cardinality(selected[m]) <= MaxToolCalls
                              /\ selected[m] = {} <=> ~Able(m)}
<1>9. 0 \in G
  <2>1. 0 \in 0..n /\ selected[0] = {} /\ 1..0 = {}
    BY <1>2, <1>8
  <2> QED
    BY <1>2, <2>1, FS_EmptySet
<1>10. ASSUME NEW m \in 0..n, m < n, m \in G PROVE m + 1 \in G
  <2>0. m \in 0..n /\ m < n /\ n \in Nat
    BY <1>2, <1>10
  <2>1. m + 1 \in 0..n /\ m + 1 \in 1..n /\ m + 1 # 0 /\ (m + 1) - 1 = m /\ 1..(m + 1) = (1..m) \cup {m + 1}
    <3> HIDE DEF G, n
    <3> QED BY <2>0
  <2> DEFINE task == s.plan[m + 1]
  <2>2. task \in ToSet(s.plan)
    BY <1>2, <2>1
  <2>3. selected[m + 1] = Select(s, selected[m], task)
    BY <1>8, <2>1
  <2>4. /\ selected[m] \subseteq {t \in ToSet(s.plan) : Ready(s, t)} /\ IsFiniteSet(selected[m])
        /\ s.count + Cardinality(selected[m]) <= MaxToolCalls /\ (selected[m] = {} <=> ~Able(m))
    BY <1>10
  <2>5. Able(m + 1) <=> Able(m) \/ (RoomFor(s, {}) /\ Ready(s, task))
    BY <2>1
  <2> DEFINE taken == Ready(s, task) /\ task.resource \notin {u.resource : u \in selected[m]} /\ RoomFor(s, selected[m])
  <2>6. CASE taken
    <3>1. selected[m + 1] = selected[m] \cup {task}
      BY <2>3, <2>6 DEF Select
    <3>2. Cardinality(selected[m]) < MaxToolCalls - s.count
      BY <2>6 DEF RoomFor
    <3>3. Cardinality(selected[m]) \in Nat
      BY <2>4, FS_CardinalityType
    <3>4. IsFiniteSet(selected[m + 1]) /\ Cardinality(selected[m + 1]) <= Cardinality(selected[m]) + 1
      <4>1. /\ IsFiniteSet(selected[m] \cup {task})
            /\ Cardinality(selected[m] \cup {task}) =
                 IF task \in selected[m] THEN Cardinality(selected[m]) ELSE Cardinality(selected[m]) + 1
        <5> HIDE DEF task
        <5> QED BY <2>4, FS_AddElement
      <4> HIDE DEF task
      <4> QED
        BY <3>1, <3>3, <4>1
    <3>5. Cardinality(selected[m + 1]) \in Nat
      BY <3>4, FS_CardinalityType
    <3>6. s.count + Cardinality(selected[m + 1]) <= MaxToolCalls
      BY <1>2, <3>2, <3>3, <3>4, <3>5
    <3>7. RoomFor(s, {})
      <4>1. Cardinality({}) = 0
        BY FS_EmptySet
      <4>2. Cardinality(selected[m]) < MaxParallel /\ MaxParallel \in Nat
        BY <2>6 DEF RoomFor, HarnessAssumption
      <4> QED
        BY <1>2, <3>2, <3>3, <4>1, <4>2 DEF RoomFor
    <3>8. Able(m + 1) /\ selected[m + 1] # {}
      BY <2>5, <2>6, <3>1, <3>7
    <3>9. selected[m + 1] \subseteq {t \in ToSet(s.plan) : Ready(s, t)}
      BY <2>2, <2>4, <2>6, <3>1
    <3> HIDE DEF Able, task, taken
    <3> QED
      BY <2>1, <3>4, <3>6, <3>8, <3>9
  <2>7. CASE ~taken
    <3>1. selected[m + 1] = selected[m]
      BY <2>3, <2>7 DEF Select
    <3>2. selected[m] = {} => (Able(m + 1) <=> Able(m))
      BY <2>5, <2>7
    <3>3. selected[m] # {} => Able(m) /\ Able(m + 1)
      BY <2>4, <2>5
    <3> HIDE DEF Able, task, taken
    <3> QED
      BY <2>1, <2>4, <3>1, <3>2, <3>3
  <2> QED
    BY <2>6, <2>7
<1>11. n \in G
  <2> HIDE DEF G, n
  <2> QED BY <1>2, <1>9, <1>10, Counting
<1>12. Able(n) <=> CanStart(s)
  BY <1>2 DEF CanStart
<1> HIDE DEF Able
<1> QED
  BY <1>1, <1>11, <1>12

-----------------------------------------------------------------------------
(* The lists of tasks.                                                      *)

\* A list of tasks of the plan proper: none of them stands in for another source.
IsPlan(p) == \E S : p \in Seq(S) /\ \A t \in S : t.source = None

LEMMA PlansJoin ==
    ASSUME NEW p, NEW q, IsPlan(p), IsPlan(q)
    PROVE  IsPlan(p \o q)
<1>1. PICK S : p \in Seq(S) /\ \A t \in S : t.source = None
  BY DEF IsPlan
<1>2. PICK T : q \in Seq(T) /\ \A t \in T : t.source = None
  BY DEF IsPlan
<1>3. p \in Seq(S \cup T) /\ q \in Seq(S \cup T)
  BY <1>1, <1>2
<1>4. p \o q \in Seq(S \cup T)
  BY <1>3
<1> QED
  BY <1>1, <1>2, <1>4 DEF IsPlan

LEMMA PlanIsList ==
    ASSUME HarnessAssumption, NEW rq \in Requests
    PROVE  IsPlan(Plan(rq))
<1>1. Len(rq.names) \in Nat /\ Len(rq.dims) \in Nat
  BY DEF HarnessAssumption
<1>2. IsPlan(Matrix(rq))
  <2> DEFINE T(n, d) == Task(n, ToolOf(d), d, d # "sentiment", {}, Own(n), None)
             S == {T(rq.names[i], rq.dims[j]) : i \in 1..Len(rq.names), j \in 1..Len(rq.dims)}
             rows == [i \in 1..Len(rq.names) |-> [j \in 1..Len(rq.dims) |-> T(rq.names[i], rq.dims[j])]]
  <2>1. Matrix(rq) = FlattenSeq(rows)
    BY DEF Matrix, TasksFor
  <2>2. \A t \in S : t.source = None
    BY DEF Task
  <2>3. rows \in Seq(Seq(S))
    <3>1. ASSUME NEW i \in 1..Len(rq.names)
          PROVE  [j \in 1..Len(rq.dims) |-> T(rq.names[i], rq.dims[j])] \in Seq(S)
      <4>1. \A j \in 1..Len(rq.dims) : T(rq.names[i], rq.dims[j]) \in S
        OBVIOUS
      <4> HIDE DEF S, T
      <4> QED
        BY <1>1, <4>1
    <3> HIDE DEF S, T
    <3> QED
      BY <1>1, <3>1
  <2>4. FlattenSeq(rows) \in Seq(S)
    <3> HIDE DEF S, T, rows
    <3> QED BY <2>3, FlattenIsSeq
  <2> HIDE DEF S, rows
  <2> QED
    BY <2>1, <2>2, <2>4 DEF IsPlan
<1>3. ASSUME NEW p, IsPlan(p) PROVE IsPlan(WithTrend(rq, p))
  <2> DEFINE T(n) == Task(n, "analyze_trend", "risk_trend", TRUE,
                          {t.id : t \in {u \in ToSet(p) : u.entity = n}}, Own(n), None)
             S == {T(rq.names[i]) : i \in 1..Len(rq.names)}
             q == [i \in 1..Len(rq.names) |-> T(rq.names[i])]
  <2>1. WithTrend(rq, p) = IF ~rq.trend THEN p ELSE p \o q
    BY DEF WithTrend, TasksFor
  <2>2. q \in Seq(S) /\ \A t \in S : t.source = None
    <3>1. \A i \in 1..Len(rq.names) : T(rq.names[i]) \in S
      OBVIOUS
    <3>2. \A t \in S : t.source = None
      BY DEF Task
    <3> HIDE DEF S, T
    <3> QED
      BY <1>1, <3>1, <3>2
  <2>3. IsPlan(q)
    <3> HIDE DEF S, q
    <3> QED BY <2>2 DEF IsPlan
  <2> HIDE DEF q
  <2> QED
    BY <1>3, <2>1, <2>3, PlansJoin
<1>4. ASSUME NEW p, IsPlan(p) PROVE IsPlan(WithComparison(rq, p))
  <2> DEFINE task == Task("all", "compare_companies", "risk_comparison", TRUE, Ids(p), Own("all"), None)
  <2>1. WithComparison(rq, p) = IF ~(rq.compare /\ Len(rq.names) >= 2) THEN p ELSE Append(p, task)
    BY DEF WithComparison
  <2>2. task.source = None
    BY DEF Task
  <2>3. PICK S : p \in Seq(S) /\ \A t \in S : t.source = None
    BY <1>4 DEF IsPlan
  <2> HIDE DEF task
  <2>4. p \in Seq(S \cup {task})
    BY <2>3
  <2>5. Append(p, task) \in Seq(S \cup {task}) /\ \A t \in S \cup {task} : t.source = None
    BY <2>2, <2>3, <2>4
  <2>6. IsPlan(Append(p, task))
    BY <2>5 DEF IsPlan
  <2> QED
    BY <1>4, <2>1, <2>6
<1>5. ASSUME NEW p, IsPlan(p) PROVE IsPlan(WithSentiment(rq, p))
  <2> DEFINE T(n) == Task(n, "sentiment_analysis", "sentiment", TRUE, {}, Own(n), None)
             S == {T(rq.names[i]) : i \in 1..Len(rq.names)}
             q == [i \in 1..Len(rq.names) |-> T(rq.names[i])]
  <2>1. WithSentiment(rq, p) = IF ~rq.news \/ "sentiment_analysis" \in ToolsIn(p) THEN p ELSE p \o q
    BY DEF WithSentiment, TasksFor
  <2>2. q \in Seq(S) /\ \A t \in S : t.source = None
    <3>1. \A i \in 1..Len(rq.names) : T(rq.names[i]) \in S
      OBVIOUS
    <3>2. \A t \in S : t.source = None
      BY DEF Task
    <3> HIDE DEF S, T
    <3> QED
      BY <1>1, <3>1, <3>2
  <2>3. IsPlan(q)
    <3> HIDE DEF S, q
    <3> QED BY <2>2 DEF IsPlan
  <2> HIDE DEF q
  <2> QED
    BY <1>5, <2>1, <2>3, PlansJoin
<1>6. ASSUME NEW p, IsPlan(p) PROVE IsPlan(WithNews(rq, p))
  <2> DEFINE T(n) == Task(n, "lookup_company_news", "sentiment", TRUE, {}, <<n, "news">>, None)
             S == {T(rq.names[i]) : i \in 1..Len(rq.names)}
             q == [i \in 1..Len(rq.names) |-> T(rq.names[i])]
  <2>1. WithNews(rq, p) = IF ~rq.news THEN p ELSE p \o q
    BY DEF WithNews, TasksFor
  <2>2. q \in Seq(S) /\ \A t \in S : t.source = None
    <3>1. \A i \in 1..Len(rq.names) : T(rq.names[i]) \in S
      OBVIOUS
    <3>2. \A t \in S : t.source = None
      BY DEF Task
    <3> HIDE DEF S, T
    <3> QED
      BY <1>1, <3>1, <3>2
  <2>3. IsPlan(q)
    <3> HIDE DEF S, q
    <3> QED BY <2>2 DEF IsPlan
  <2> HIDE DEF q
  <2> QED
    BY <1>6, <2>1, <2>3, PlansJoin
<1> QED
  BY <1>2, <1>3, <1>4, <1>5, <1>6 DEF Plan

\* What BuildPlan puts into the state.
LEMMA PlanIsTyped ==
    ASSUME HarnessAssumption, NoneAssumption, NEW rq \in Requests
    PROVE  /\ Plan(rq) \in Seq(PlanTasks) /\ Fallbacks(Plan(rq)) \in Seq(PlanTasks)
           /\ \A t \in ToSet(Plan(rq)) : t.source = None
           /\ \A f \in ToSet(Fallbacks(Plan(rq))) : f.source # None
           /\ Plan(rq) = <<>> => Fallbacks(Plan(rq)) = <<>>
<1> DEFINE p == Plan(rq)
           uncovered == {t \in ToSet(p) :
               t.required /\ t.dim \in DOMAIN FallbackOf /\ FallbackOf[t.dim][1] \notin ToolsIn(p)}
           wanted == Those(p, uncovered)
           F(t) == Task(t.entity, FallbackOf[t.dim][1], FallbackOf[t.dim][2], TRUE, {},
                        <<t.entity, FallbackOf[t.dim][1]>>, FallbackOf[t.dim][1])
           q == [i \in 1..Len(wanted) |-> F(wanted[i])]
<1>1. PICK S : p \in Seq(S) /\ \A t \in S : t.source = None
  BY PlanIsList DEF IsPlan
<1>2. Fallbacks(p) = q
  BY DEF Fallbacks, TasksFor
<1>3. ToSet(p) \subseteq PlanTasks /\ ToSet(Fallbacks(p)) \subseteq PlanTasks
  BY DEF PlanTasks
<1>4. wanted \in Seq(S) /\ ToSet(wanted) = ToSet(p) \cap uncovered
  <2> HIDE DEF p, uncovered
  <2> QED BY <1>1, ThoseAreSelected
<1>5. p \in Seq(PlanTasks) /\ \A t \in ToSet(p) : t.source = None
  <2> HIDE DEF p
  <2>1. DOMAIN p = 1..Len(p) /\ Len(p) \in Nat /\ \A i \in 1..Len(p) : p[i] \in S
    BY <1>1
  <2>2. \A i \in 1..Len(p) : p[i] \in PlanTasks
    BY <1>3, <2>1 DEF ToSet
  <2>3. p \in Seq(PlanTasks)
    BY <1>1, <2>1, <2>2
  <2> QED
    BY <1>1, <2>1, <2>3 DEF ToSet
<1>6. Len(wanted) \in Nat /\ DOMAIN wanted = 1..Len(wanted)
  <2> HIDE DEF wanted
  <2> QED BY <1>4
<1>7. q \in Seq(PlanTasks)
  <2>1. \A i \in 1..Len(wanted) : F(wanted[i]) \in PlanTasks
    <3>1. \A i \in 1..Len(wanted) : F(wanted[i]) \in ToSet(q)
      <4> HIDE DEF wanted, F
      <4> QED BY <1>6 DEF ToSet
    <3> HIDE DEF wanted, F, q, p
    <3> QED
      BY <1>2, <1>3, <3>1
  <2> HIDE DEF wanted, F
  <2> QED
    BY <1>6, <2>1
<1>8. ASSUME NEW f \in ToSet(q) PROVE f.source # None
  <2>1. PICK i \in 1..Len(wanted) : f = F(wanted[i])
    <3> HIDE DEF wanted, F
    <3> QED BY DEF ToSet
  <2>2. wanted[i] \in ToSet(wanted)
    <3> HIDE DEF wanted
    <3> QED BY <1>6 DEF ToSet
  <2>3. wanted[i] \in uncovered
    <3> HIDE DEF wanted, uncovered
    <3> QED BY <1>4, <2>2
  <2> HIDE DEF wanted
  <2>4. wanted[i].dim \in DOMAIN FallbackOf
    BY <2>3
  <2>5. f.source = FallbackOf[wanted[i].dim][1]
    BY <2>1 DEF Task
  <2>6. f.source \in {g[1] : g \in Range(FallbackOf)}
    BY <2>4, <2>5 DEF Range
  <2> QED
    BY <2>6 DEF NoneAssumption
<1>9. p = <<>> => q = <<>>
  <2>1. ASSUME p = <<>> PROVE Len(wanted) = 0
    <3>1. ToSet(wanted) = {}
      <4>1. ToSet(p) = {}
        BY <2>1 DEF ToSet
      <4> HIDE DEF p, wanted
      <4> QED BY <1>4, <4>1
    <3> HIDE DEF wanted
    <3>2. ASSUME 1 \in 1..Len(wanted) PROVE FALSE
      <4>1. wanted[1] \in ToSet(wanted)
        BY <1>6, <3>2 DEF ToSet
      <4> QED
        BY <3>1, <4>1
    <3> QED
      BY <1>6, <3>2
  <2> HIDE DEF wanted, F
  <2> QED BY <2>1
<1> HIDE DEF q, p
<1> QED
  BY <1>2, <1>5, <1>7, <1>8, <1>9 DEF p

-----------------------------------------------------------------------------
(* The invariant of the calls: every copy of the state is behind the event  *)
(* log, and the owner's own state agrees with it outside the current wave.  *)

Alive == pc \notin {"down", "refused"}

\* The checkpoints that exist, and every copy of the state somebody holds.
Checkpoints == ({saved} \cup ToSet(puts)) \ {None}
Held == ({st, ledger} \ {None}) \cup {c.st : c \in Checkpoints}

\* A copy knows some of the committed results, and has counted no call that was not made.
StatusOf(kind) == IF kind = None THEN "pending" ELSE StatusAfter(kind)
Honest(s) == /\ \A t \in AllIds : s.got[t] \in {None, results[t]} /\ s.status[t] = StatusOf(s.got[t])
             /\ s.count <= Reserved

WavesAreAccounted == \A t \in AllIds :
    /\ wave[t] \in {"starting", "calling", "late"} => results[t] = None
    /\ wave[t] = "answered" => results[t] # None
    /\ wave[t] # "idle" => st.got[t] = None
    /\ Alive /\ wave[t] = "idle" => st.got[t] = results[t]

\* An owner has paid for every call of the run, its own wave included.
Called == {t \in InWave : wave[t] # "starting"}
CallsArePaid ==
    /\ IsFiniteSet(CallEvents) /\ \A t \in AllIds : calls[t] <= Reserved
    /\ IsFiniteSet(InWave) /\ st.count + Cardinality(InWave) <= MaxToolCalls
    /\ Alive => Reserved = st.count + Cardinality(Called)
    /\ Reserved <= MaxToolCalls

NothingBeforeTheLedger ==
    /\ ~Alive => puts = <<>>
    /\ pc = "start" => ledger = None /\ Checkpoints = {}
    /\ ledger = None => /\ pc \in {"start", "load_session", "down", "refused"}
                        /\ \A t \in AllIds : results[t] = None
                        /\ CallEvents = {} /\ \A c \in Checkpoints : c.node = "start"

RoutesAreFollowed == pc = "remediate" => Route(st) = "remediate"

CallInv == /\ TypeOK /\ (\A s \in Held : Honest(s)) /\ WavesAreAccounted /\ CallsArePaid
           /\ NothingBeforeTheLedger /\ RoutesAreFollowed

LEMMA CopiesAreTyped ==
    ASSUME NoneAssumption, TypeOK
    PROVE  /\ Checkpoints \subseteq Checkpoint /\ Held \subseteq State
           /\ saved # None => saved \in Checkpoints
           /\ ToSet(puts) \subseteq Checkpoints /\ st \in Held /\ (ledger # None => ledger \in Held)
<1>1. ToSet(puts) \subseteq Checkpoint
  BY DEF TypeOK, ToSet
<1>2. Checkpoints \subseteq Checkpoint
  BY <1>1 DEF Checkpoints, TypeOK
<1>3. \A c \in Checkpoint : c.st \in State
  BY DEF Checkpoint
<1>4. st \in State /\ st # None /\ ledger \in State \cup {None}
  BY DEF TypeOK, NoneAssumption
<1>5. ToSet(puts) \subseteq Checkpoints
  BY <1>1 DEF Checkpoints, NoneAssumption
<1> QED
  BY <1>2, <1>3, <1>4, <1>5 DEF Checkpoints, Held

LEMMA CallsAreEvents ==
    ASSUME NEW t \in AllIds, NEW n
    PROVE  <<t, n>> \in CallEvents <=> n \in 1..calls[t]
BY DEF CallEvents

\* The results are append-only, and so are the calls.
ResultsGrow == /\ \A t \in AllIds : results[t] # None => results'[t] = results[t]
               /\ Reserved \in Nat /\ Reserved' \in Nat /\ Reserved <= Reserved'

LEMMA QuietResults ==
    ASSUME CallInv, calls' = calls, \A t \in AllIds : results[t] # None => results'[t] = results[t]
    PROVE  ResultsGrow /\ Reserved' = Reserved /\ CallEvents' = CallEvents
<1>1. CallEvents' = CallEvents
  BY DEF CallEvents
<1>2. Reserved \in Nat
  BY FS_CardinalityType DEF Reserved, CallInv, CallsArePaid
<1> QED
  BY <1>1, <1>2 DEF ResultsGrow, Reserved

LEMMA HonestStays ==
    ASSUME NEW s \in State, Honest(s), ResultsGrow
    PROVE  Honest(s)'
<1>1. s.count \in Nat
  BY DEF State
<1> QED
  BY <1>1 DEF Honest, ResultsGrow

\* Copies are only made of the owner's state.
LEMMA CopiesStayHonest ==
    ASSUME NoneAssumption, CallInv, ResultsGrow, st' \in State, Honest(st)',
           \A s \in Held' : s \in Held \/ s = st'
    PROVE  \A s \in Held' : Honest(s)'
<1> TAKE s \in Held'
<1>1. CASE s \in Held
  <2>1. s \in State /\ Honest(s)
    BY <1>1, CopiesAreTyped DEF CallInv
  <2> QED
    BY <2>1, HonestStays
<1>2. CASE s = st'
  BY <1>2 DEF Honest
<1> QED
  BY <1>1, <1>2

LEMMA StoresStay ==
    ASSUME ledger' = ledger, Checkpoints' \subseteq Checkpoints
    PROVE  \A s \in Held' : s \in Held \/ s = st'
BY DEF Held

LEMMA SameStores ==
    ASSUME ledger' = ledger, saved' = saved, puts' = puts
    PROVE  Checkpoints' = Checkpoints /\ \A s \in Held' : s \in Held \/ s = st'
BY DEF Held, Checkpoints

-----------------------------------------------------------------------------
(* The steps of the graph keep the invariant of the calls.                  *)

\* What a node adds to the stores.
LEMMA NodeCopies ==
    ASSUME NoneAssumption, TypeOK, NEW node \in Nodes, NEW s \in State,
           puts' = Append(puts, [node |-> node, st |-> s]), saved' = saved
    PROVE  Checkpoints' = Checkpoints \cup {[node |-> node, st |-> s]}
<1> DEFINE c == [node |-> node, st |-> s]
<1>1. c \in Checkpoint
  BY DEF Checkpoint
<1>2. ToSet(puts') = ToSet(puts) \cup {c}
  <2>1. puts' = Append(puts, c) /\ puts \in Seq(Checkpoint)
    BY DEF TypeOK
  <2> HIDE DEF c
  <2> QED BY <1>1, <2>1, AppendedList
<1>3. c # None
  BY <1>1 DEF NoneAssumption
<1> HIDE DEF c
<1>4. Checkpoints' = Checkpoints \cup {c}
  BY <1>2, <1>3 DEF Checkpoints
<1> QED
  BY <1>4 DEF c

LEMMA LagIsBounded ==
    ASSUME TypeOK, HarnessAssumption, NEW c \in Checkpoint, Len(puts) < MaxLag, puts' = Append(puts, c)
    PROVE  puts' \in Seq(Checkpoint) /\ Len(puts') <= MaxLag
BY DEF TypeOK, HarnessAssumption

LEMMA NodeKeepsCalls ==
    ASSUME HarnessAssumption, NoneAssumption, CallInv, NEW node \in Nodes \ {"start"}, NEW s \in State,
           EndNode(node, s), InWave = {}, s.got = st.got, s.status = st.status, s.count = st.count,
           After(node, s) \in (Nodes \ {"start"}) \cup {"finish"},
           After(node, s) = "remediate" => Route(s) = "remediate"
    PROVE  CallInv'
<1>1. /\ pc = node /\ st' = s /\ ledger' = s /\ pc' = After(node, s) /\ stop' = None
      /\ Len(puts) < MaxLag /\ puts' = Append(puts, [node |-> node, st |-> s])
      /\ UNCHANGED <<request, wave, late, calls, results, saved, crashes>>
  BY DEF EndNode
<1>2. TypeOK /\ node # "start"
  BY DEF CallInv
<1>3. Checkpoints' = Checkpoints \cup {[node |-> node, st |-> s]}
  BY <1>1, <1>2, NodeCopies
<1>4. \A x \in Held' : x \in Held \/ x = st'
  BY <1>1, <1>3 DEF Held
<1>5. ResultsGrow /\ Reserved' = Reserved /\ CallEvents' = CallEvents
  BY <1>1, QuietResults
<1>6. Honest(st)'
  <2>1. Honest(st)
    BY <1>2, CopiesAreTyped DEF CallInv
  <2> QED
    BY <1>1, <1>5, <2>1 DEF Honest
<1>7. \A x \in Held' : Honest(x)'
  BY <1>1, <1>4, <1>5, <1>6, CopiesStayHonest
<1>8. InWave' = InWave /\ Called' = Called /\ Alive /\ Alive'
  BY <1>1 DEF InWave, Called, Alive, Nodes
<1>9. TypeOK'
  <2>1. [node |-> node, st |-> s] \in Checkpoint
    BY DEF Checkpoint
  <2>2. puts' \in Seq(Checkpoint) /\ Len(puts') <= MaxLag
    BY <1>1, <1>2, <2>1, LagIsBounded
  <2> QED
    BY <1>1, <1>2, <1>8, <2>2 DEF TypeOK
<1>10. WavesAreAccounted'
  BY <1>1, <1>8 DEF WavesAreAccounted, CallInv
<1>11. CallsArePaid'
  BY <1>1, <1>5, <1>8 DEF CallsArePaid, CallInv
<1>12. NothingBeforeTheLedger'
  <2>1. s # None
    BY DEF NoneAssumption
  <2> QED
    BY <1>1, <2>1 DEF NothingBeforeTheLedger, Alive, Nodes
<1>13. RoutesAreFollowed'
  BY <1>1 DEF RoutesAreFollowed, Route, NewSpecs, Ids
<1> QED
  BY <1>7, <1>9, <1>10, <1>11, <1>12, <1>13 DEF CallInv

LEMMA StartKeepsCalls ==
    ASSUME HarnessAssumption, NoneAssumption, CallInv, Start
    PROVE  CallInv'
<1>1. /\ pc = "start" /\ st' = Fresh /\ pc' = "load_session"
      /\ Len(puts) < MaxLag /\ puts' = Append(puts, [node |-> "start", st |-> Fresh])
      /\ UNCHANGED <<request, wave, stop, late, calls, results, ledger, saved, crashes>>
  BY DEF Start
<1>2. TypeOK /\ ledger = None /\ Checkpoints = {} /\ CallEvents = {} /\ \A t \in AllIds : results[t] = None
  BY <1>1 DEF CallInv, NothingBeforeTheLedger
<1>3. Fresh \in State
  BY DEF Fresh, State, HarnessAssumption
<1>4. Checkpoints' = {[node |-> "start", st |-> Fresh]}
  BY <1>1, <1>2, <1>3, NodeCopies DEF Nodes
<1>5. \A x \in Held' : x \in Held \/ x = st'
  BY <1>1, <1>2, <1>4 DEF Held
<1>6. ResultsGrow /\ Reserved' = Reserved /\ CallEvents' = CallEvents
  BY <1>1, QuietResults
<1>7. Reserved = 0 /\ Cardinality({}) = 0 /\ IsFiniteSet({})
  BY <1>2, FS_EmptySet DEF Reserved
<1>8. Honest(st)'
  BY <1>1, <1>6, <1>7 DEF Honest, Fresh, StatusOf
<1>9. \A x \in Held' : Honest(x)'
  BY <1>1, <1>3, <1>5, <1>6, <1>8, CopiesStayHonest
<1>10. InWave = {} /\ InWave' = {} /\ Called' = {} /\ Alive'
  BY <1>1, <1>2 DEF InWave, Called, Alive, TypeOK, Executing
<1>11. TypeOK'
  <2>1. [node |-> "start", st |-> Fresh] \in Checkpoint
    BY <1>3 DEF Checkpoint, Nodes
  <2>2. puts' \in Seq(Checkpoint) /\ Len(puts') <= MaxLag
    BY <1>1, <1>2, <2>1, LagIsBounded
  <2> QED
    BY <1>1, <1>2, <1>3, <1>10, <2>2 DEF TypeOK, Nodes
<1>12. WavesAreAccounted'
  BY <1>1, <1>2, <1>10 DEF WavesAreAccounted, InWave, Fresh, CallInv
<1>13. CallsArePaid'
  BY <1>1, <1>6, <1>7, <1>10 DEF CallsArePaid, CallInv, Fresh, HarnessAssumption
<1>14. NothingBeforeTheLedger'
  BY <1>1, <1>2, <1>4, <1>6 DEF NothingBeforeTheLedger, Alive
<1>15. RoutesAreFollowed'
  BY <1>1 DEF RoutesAreFollowed
<1> QED
  BY <1>9, <1>11, <1>12, <1>13, <1>14, <1>15 DEF CallInv

LEMMA PlansAreTyped ==
    ASSUME NEW s \in State
    PROVE  /\ ToSet(s.plan) \subseteq PlanTasks /\ ToSet(s.specs) \subseteq PlanTasks
           /\ Ids(s.plan) \subseteq AllIds
           /\ Missing(s) \in SUBSET {t.dim : t \in PlanTasks}
           /\ NewSpecs(s) \in Seq(PlanTasks)
           /\ ToSet(NewSpecs(s)) = {f \in ToSet(s.specs) :
                 f.source \notin {t.source : t \in ToSet(s.plan)} /\ f.id \notin Ids(s.plan)}
<1>1. s.plan \in Seq(PlanTasks) /\ s.specs \in Seq(PlanTasks)
  BY DEF State
<1>2. ToSet(s.plan) \subseteq PlanTasks /\ ToSet(s.specs) \subseteq PlanTasks
  BY <1>1 DEF ToSet
<1>3. Ids(s.plan) \subseteq AllIds
  BY <1>2 DEF Ids, AllIds
<1>4. Missing(s) \in SUBSET {t.dim : t \in PlanTasks}
  BY <1>2 DEF Missing
<1> DEFINE wanted == {f \in ToSet(s.specs) :
              f.source \notin {t.source : t \in ToSet(s.plan)} /\ f.id \notin Ids(s.plan)}
<1>5. NewSpecs(s) = Those(s.specs, wanted)
  BY DEF NewSpecs
<1>6. NewSpecs(s) \in Seq(PlanTasks) /\ ToSet(NewSpecs(s)) = ToSet(s.specs) \cap wanted
  <2> HIDE DEF wanted
  <2> QED BY <1>1, <1>5, ThoseAreSelected
<1>7. ToSet(s.specs) \cap wanted = wanted
  OBVIOUS
<1> QED
  BY <1>2, <1>3, <1>4, <1>6, <1>7

\* Every node leaves a state behind, and goes where the graph says.
\* What the end of the loop and a remediation make of a state.
Ended(s, why) == [s EXCEPT !.raw = {}, !.reason = why]
Remediated(s) == [s EXCEPT !.plan = @ \o NewSpecs(s), !.raw = @ \cup Ids(NewSpecs(s)), !.rounds = @ + 1,
                           !.reason = "remediation_scheduled"]

LEMMA NodesAreTyped ==
    ASSUME HarnessAssumption, NoneAssumption, CallInv
    PROVE  /\ [st EXCEPT !.plan = Plan(request), !.specs = Fallbacks(Plan(request))] \in State
           /\ [st EXCEPT !.missing = Missing(st)] \in State
           /\ [st EXCEPT !.answer = AnswerStatus(st), !.reason = FinalReason(st)] \in State
           /\ \A why \in Reasons : Ended(st, why) \in State
           /\ pc = "remediate" => Remediated(st) \in State
<1>1. st \in State /\ request \in Requests
  BY DEF CallInv, TypeOK
<1>2. [st EXCEPT !.plan = Plan(request), !.specs = Fallbacks(Plan(request))] \in State
  BY <1>1, PlanIsTyped DEF State
<1>3. [st EXCEPT !.missing = Missing(st)] \in State
  BY <1>1, PlansAreTyped DEF State
<1>4. [st EXCEPT !.answer = AnswerStatus(st), !.reason = FinalReason(st)] \in State
  <2>1. AnswerStatus(st) \in Verdicts
    BY DEF AnswerStatus, Verdicts
  <2>2. FinalReason(st) \in Reasons \cup {None}
    <3>1. st.reason \in Reasons \cup {None}
      BY <1>1 DEF State
    <3>2. "iteration_budget_exhausted" \in Reasons /\ "no_remediation_spec" \in Reasons
      BY DEF Reasons
    <3> QED
      BY <3>1, <3>2 DEF FinalReason
  <2> QED
    BY <1>1, <2>1, <2>2 DEF State
<1>5. ASSUME NEW why \in Reasons PROVE Ended(st, why) \in State
  BY <1>1 DEF State, Ended
<1>6. ASSUME pc = "remediate" PROVE Remediated(st) \in State
  <2>1. st.rounds < MaxRounds
    BY <1>6 DEF CallInv, RoutesAreFollowed, Route
  <2>2. st.rounds + 1 \in 0..MaxRounds
    BY <1>1, <2>1 DEF State, HarnessAssumption
  <2>3. st.plan \o NewSpecs(st) \in Seq(PlanTasks)
    BY <1>1, PlansAreTyped, JoinedList DEF State
  <2>4. "remediation_scheduled" \in Reasons
    BY DEF Reasons
  <2>5. st.raw \cup Ids(NewSpecs(st)) \in SUBSET AllIds
    <3>1. NewSpecs(st) \in Seq(PlanTasks)
      BY <1>1, PlansAreTyped
    <3>2. ToSet(NewSpecs(st)) \subseteq PlanTasks
      BY <3>1 DEF ToSet
    <3> QED
      BY <1>1, <3>2 DEF State, Ids, AllIds
  <2> QED
    BY <1>1, <2>2, <2>3, <2>4, <2>5 DEF State, Remediated
<1> QED
  BY <1>2, <1>3, <1>4, <1>5, <1>6

LEMMA GraphKeepsCalls ==
    ASSUME HarnessAssumption, NoneAssumption, CallInv,
           LoadSession \/ ResolveTurn \/ BuildPlan \/ ExecuteReadyTasks \/ ValidateEvidence
           \/ Remediate \/ RenderAnswer \/ PersistTurn
    PROVE  CallInv'
<1>1. st \in State /\ (pc # "execute_ready_tasks" => InWave = {})
  BY DEF CallInv, TypeOK, Executing
<1>2. CASE LoadSession
  BY <1>1, <1>2, NodeKeepsCalls DEF LoadSession, EndNode, Nodes, After
<1>3. CASE ResolveTurn
  BY <1>1, <1>3, NodeKeepsCalls DEF ResolveTurn, EndNode, Nodes, After
<1>4. CASE BuildPlan
  <2> DEFINE s == [st EXCEPT !.plan = Plan(request), !.specs = Fallbacks(Plan(request))]
  <2>1. s \in State /\ s.got = st.got /\ s.status = st.status /\ s.count = st.count
    BY <1>1, NodesAreTyped DEF State
  <2>2. EndNode("build_plan", s)
    BY <1>4 DEF BuildPlan
  <2>3. After("build_plan", s) = "execute_ready_tasks" /\ InWave = {}
    BY <1>1, <2>2 DEF After, EndNode
  <2> HIDE DEF s
  <2> QED
    BY <2>1, <2>2, <2>3, NodeKeepsCalls DEF Nodes
<1>5. CASE ExecuteReadyTasks
  <2> DEFINE why == IF stop # None THEN stop ELSE StopReason(st)
             s == Ended(st, why)
  <2>1. EndNode("execute_ready_tasks", s) /\ InWave = {} /\ why # None
    BY <1>5 DEF ExecuteReadyTasks, Ended
  <2>2. why \in Reasons
    <3>1. stop \in {None, "deadline_exceeded"}
      BY DEF CallInv, TypeOK
    <3>2. StopReason(st) \in Reasons \cup {None}
      BY DEF StopReason, Reasons
    <3>3. "deadline_exceeded" \in Reasons
      BY DEF Reasons
    <3> QED
      BY <2>1, <3>1, <3>2, <3>3
  <2>3. s \in State /\ s.got = st.got /\ s.status = st.status /\ s.count = st.count
    <3> HIDE DEF why
    <3>1. s \in State
      BY <2>2, NodesAreTyped
    <3> QED
      BY <1>1, <3>1 DEF State, Ended
  <2>4. After("execute_ready_tasks", s) = "validate_evidence"
    BY DEF After
  <2> HIDE DEF s
  <2> QED
    BY <2>1, <2>3, <2>4, NodeKeepsCalls DEF Nodes
<1>6. CASE ValidateEvidence
  <2> DEFINE s == [st EXCEPT !.missing = Missing(st)]
  <2>1. s \in State /\ s.got = st.got /\ s.status = st.status /\ s.count = st.count
    BY <1>1, NodesAreTyped DEF State
  <2>2. EndNode("validate_evidence", s)
    BY <1>6 DEF ValidateEvidence
  <2> HIDE DEF s
  <2>3. After("validate_evidence", s) = Route(s) /\ InWave = {}
    BY <1>1, <2>2 DEF After, EndNode
  <2>4. Route(s) \in {"remediate", "render_answer"}
    BY DEF Route
  <2> QED
    BY <2>1, <2>2, <2>3, <2>4, NodeKeepsCalls DEF Nodes
<1>7. CASE Remediate
  <2> DEFINE s == Remediated(st)
  <2>1. EndNode("remediate", s) /\ pc = "remediate"
    BY <1>7 DEF Remediate, Remediated, EndNode
  <2>2. s \in State
    BY <2>1, NodesAreTyped
  <2>3. s.got = st.got /\ s.status = st.status /\ s.count = st.count
    BY <1>1 DEF State, Remediated
  <2> HIDE DEF s
  <2>4. After("remediate", s) = "execute_ready_tasks" /\ InWave = {}
    BY <1>1, <2>1 DEF After
  <2> QED
    BY <2>1, <2>2, <2>3, <2>4, NodeKeepsCalls DEF Nodes
<1>8. CASE RenderAnswer
  <2> DEFINE s == [st EXCEPT !.answer = AnswerStatus(st), !.reason = FinalReason(st)]
  <2>1. s \in State
    BY NodesAreTyped
  <2>2. s.got = st.got /\ s.status = st.status /\ s.count = st.count
    BY <1>1 DEF State
  <2>3. EndNode("render_answer", s)
    BY <1>8 DEF RenderAnswer
  <2> HIDE DEF s
  <2>4. After("render_answer", s) = "persist_turn" /\ InWave = {}
    BY <1>1, <2>3 DEF After, EndNode
  <2> QED
    BY <2>1, <2>2, <2>3, <2>4, NodeKeepsCalls DEF Nodes
<1>9. CASE PersistTurn
  BY <1>1, <1>9, NodeKeepsCalls DEF PersistTurn, EndNode, Nodes, After
<1> QED
  BY <1>2, <1>3, <1>4, <1>5, <1>6, <1>7, <1>8, <1>9

-----------------------------------------------------------------------------
(* The steps of a wave keep it.                                             *)

\* A step that only moves a call from one place of the wave to the next.
LEMMA WaveMoves ==
    ASSUME CallInv, NEW t \in AllIds, NEW where \in {"calling", "late", "answered"},
           wave[t] # "idle", Move(t, where)
    PROVE  /\ wave' \in [AllIds -> {"idle", "starting", "calling", "late", "answered"}]
           /\ wave'[t] = where /\ \A u \in AllIds \ {t} : wave'[u] = wave[u]
           /\ InWave' = InWave /\ Called' = Called \cup {t} /\ t \in InWave
           /\ pc = "execute_ready_tasks"
<1>1. wave \in [AllIds -> {"idle", "starting", "calling", "late", "answered"}]
  BY DEF CallInv, TypeOK
<1>2. wave'[t] = where /\ \A u \in AllIds \ {t} : wave'[u] = wave[u]
  BY <1>1 DEF Move
<1>3. wave' \in [AllIds -> {"idle", "starting", "calling", "late", "answered"}]
  BY <1>1 DEF Move
<1>4. InWave' = InWave /\ t \in InWave
  BY <1>2 DEF InWave
<1>5. Called' = Called \cup {t}
  <2>1. \A u \in InWave : wave'[u] # "starting" <=> u = t \/ wave[u] # "starting"
    BY <1>2 DEF InWave
  <2> QED
    BY <1>4, <2>1 DEF Called
<1>6. pc = "execute_ready_tasks"
  BY <1>4 DEF CallInv, TypeOK, Executing
<1> QED
  BY <1>2, <1>3, <1>4, <1>5, <1>6

LEMMA StartWaveKeepsCalls ==
    ASSUME HarnessAssumption, NoneAssumption, CallInv, StartWave
    PROVE  CallInv'
<1> DEFINE picked == {t.id : t \in SelectWave(st)}
<1>1. /\ pc = "execute_ready_tasks" /\ InWave = {}
      /\ wave' = [t \in AllIds |-> IF t \in picked THEN "starting" ELSE "idle"]
      /\ UNCHANGED <<request, pc, st, stop, late, calls, results, ledger, saved, puts, crashes>>
  BY DEF StartWave, Executing, durable
<1>2. TypeOK /\ st \in State
  BY DEF CallInv, TypeOK
<1>3. /\ SelectWave(st) \subseteq {t \in ToSet(st.plan) : Ready(st, t)}
      /\ IsFiniteSet(SelectWave(st)) /\ st.count + Cardinality(SelectWave(st)) <= MaxToolCalls
  BY <1>2, WaveIsSelected
<1>4. InWave' = AllIds \cap picked /\ Called' = {}
  BY <1>1 DEF InWave, Called
<1>5. IsFiniteSet(InWave') /\ Cardinality(InWave') <= Cardinality(SelectWave(st))
  <2> DEFINE f == [t \in SelectWave(st) |-> t.id]
  <2>1. f \in Surjection(SelectWave(st), picked)
    BY DEF Surjection
  <2> HIDE DEF f
  <2>2. IsFiniteSet(picked) /\ Cardinality(picked) <= Cardinality(SelectWave(st))
    <3> HIDE DEF picked
    <3> QED BY <1>3, <2>1, FS_Surjection
  <2> HIDE DEF picked
  <2>3. InWave' \in SUBSET picked
    BY <1>4
  <2>4. IsFiniteSet(InWave') /\ Cardinality(InWave') <= Cardinality(picked)
    BY <2>2, <2>3, FS_Subset
  <2>5. Cardinality(InWave') \in Nat /\ Cardinality(picked) \in Nat /\ Cardinality(SelectWave(st)) \in Nat
    BY <1>3, <2>2, <2>4, FS_CardinalityType
  <2> QED
    BY <2>2, <2>4, <2>5
<1>6. ASSUME NEW t \in AllIds, t \in picked
      PROVE  st.got[t] = None /\ results[t] = None
  <2>1. st.status[t] = "pending"
    BY <1>3, <1>6 DEF Ready
  <2>2. st.status[t] = StatusOf(st.got[t]) /\ st.got[t] \in {None, results[t]}
    BY <1>2, CopiesAreTyped DEF CallInv, Honest
  <2>3. st.got[t] = None
    BY <2>1, <2>2 DEF StatusOf, StatusAfter
  <2>4. wave[t] = "idle" /\ Alive
    BY <1>1, <1>2 DEF InWave, Alive, TypeOK
  <2> QED
    BY <2>3, <2>4 DEF WavesAreAccounted, CallInv
<1>7. ResultsGrow /\ Reserved' = Reserved /\ CallEvents' = CallEvents
  BY <1>1, QuietResults
<1>8. Checkpoints' = Checkpoints /\ \A x \in Held' : x \in Held \/ x = st'
  BY <1>1, SameStores
<1>9. Honest(st)'
  <2>1. Honest(st)
    BY <1>2, CopiesAreTyped DEF CallInv
  <2> QED
    BY <1>1, <1>7, <2>1 DEF Honest
<1>10. \A x \in Held' : Honest(x)'
  BY <1>1, <1>2, <1>7, <1>8, <1>9, CopiesStayHonest
<1>11. TypeOK'
  BY <1>1, <1>2 DEF TypeOK, Executing
<1>12. WavesAreAccounted'
  BY <1>1, <1>6 DEF WavesAreAccounted, CallInv, InWave, Alive
<1>13. CallsArePaid'
  <2>1. Cardinality(InWave') \in Nat /\ Cardinality(SelectWave(st)) \in Nat /\ st.count \in Nat /\ MaxToolCalls \in Nat
    BY <1>2, <1>3, <1>5, FS_CardinalityType DEF State, HarnessAssumption
  <2>2. st.count + Cardinality(InWave') <= MaxToolCalls
    BY <1>3, <1>5, <2>1
  <2>3. Called = {} /\ Alive
    BY <1>1 DEF Called, Alive
  <2> QED
    BY <1>1, <1>4, <1>5, <1>7, <2>2, <2>3 DEF CallsArePaid, CallInv
<1>14. NothingBeforeTheLedger'
  BY <1>1, <1>7, <1>8 DEF NothingBeforeTheLedger, Alive, CallInv
<1>15. RoutesAreFollowed'
  BY <1>1 DEF RoutesAreFollowed
<1> QED
  BY <1>10, <1>11, <1>12, <1>13, <1>14, <1>15 DEF CallInv

LEMMA CallToolKeepsCalls ==
    ASSUME HarnessAssumption, NoneAssumption, CallInv, NEW t \in AllIds, CallTool(t)
    PROVE  CallInv'
<1>1. /\ wave[t] = "starting" /\ Move(t, "calling") /\ calls' = [calls EXCEPT ![t] = @ + 1]
      /\ UNCHANGED <<request, pc, st, stop, late, results, ledger, saved, puts, crashes>>
  BY DEF CallTool
<1>2. TypeOK /\ st \in State /\ calls \in [AllIds -> 0..MaxToolCalls]
  BY DEF CallInv, TypeOK
<1>3. /\ wave' \in [AllIds -> {"idle", "starting", "calling", "late", "answered"}]
      /\ wave'[t] = "calling" /\ \A u \in AllIds \ {t} : wave'[u] = wave[u]
      /\ InWave' = InWave /\ Called' = Called \cup {t} /\ t \in InWave
      /\ pc = "execute_ready_tasks"
  BY <1>1, WaveMoves
<1>4. IsFiniteSet(CallEvents) /\ Reserved \in Nat
  BY FS_CardinalityType DEF Reserved, CallInv, CallsArePaid
<1> DEFINE e == <<t, calls[t] + 1>>
<1>5. CallEvents' = CallEvents \cup {e} /\ e \notin CallEvents
  <2>1. calls[t] \in Nat /\ calls' \in [AllIds -> Nat] /\ calls'[t] = calls[t] + 1
        /\ \A u \in AllIds \ {t} : calls'[u] = calls[u]
    BY <1>1, <1>2
  <2>2. 1..(calls[t] + 1) = (1..calls[t]) \cup {calls[t] + 1} /\ calls[t] + 1 \notin 1..calls[t]
    BY <2>1
  <2>3. \A u \in AllIds : 1..calls'[u] = IF u = t THEN (1..calls[t]) \cup {calls[t] + 1} ELSE 1..calls[u]
    BY <2>1, <2>2
  <2>4. \A u \in AllIds : {u} \X (1..calls'[u]) =
           IF u = t THEN ({u} \X (1..calls[u])) \cup {e} ELSE {u} \X (1..calls[u])
    <3>1. \A A, x : {t} \X (A \cup {x}) = ({t} \X A) \cup {<<t, x>>}
      OBVIOUS
    <3>2. {t} \X (1..calls'[t]) = ({t} \X (1..calls[t])) \cup {e}
      BY <2>3, <3>1
    <3> HIDE DEF e
    <3> QED
      BY <2>3, <3>2
  <2>5. e \notin CallEvents
    BY <2>2, CallsAreEvents
  <2>6. CallEvents' = UNION {{u} \X (1..calls'[u]) : u \in AllIds}
    BY DEF CallEvents
  <2> HIDE DEF e
  <2>7. CallEvents' = CallEvents \cup {e}
    BY <2>4, <2>6 DEF CallEvents
  <2> QED
    BY <2>5, <2>7
<1>6. IsFiniteSet(CallEvents') /\ Reserved' = Reserved + 1
  <2> HIDE DEF e
  <2> QED BY <1>4, <1>5, FS_AddElement DEF Reserved
<1>7. ResultsGrow
  BY <1>1, <1>4, <1>6 DEF ResultsGrow
<1>8. Checkpoints' = Checkpoints /\ \A x \in Held' : x \in Held \/ x = st'
  BY <1>1, SameStores
<1>9. Honest(st)'
  <2>1. Honest(st)
    BY <1>2, CopiesAreTyped DEF CallInv
  <2>2. st.count \in Nat
    BY <1>2 DEF State
  <2> QED
    BY <1>1, <1>4, <1>6, <2>1, <2>2 DEF Honest
<1>10. \A x \in Held' : Honest(x)'
  BY <1>1, <1>2, <1>7, <1>8, <1>9, CopiesStayHonest
<1>11. t \notin Called /\ Called \subseteq InWave /\ Called' \subseteq InWave
  BY <1>1, <1>3 DEF Called
<1>12. /\ IsFiniteSet(InWave) /\ Cardinality(InWave) \in Nat
       /\ Cardinality(Called') = Cardinality(Called) + 1 /\ Cardinality(Called') <= Cardinality(InWave)
       /\ Cardinality(Called) \in Nat
  <2>1. IsFiniteSet(InWave)
    BY DEF CallInv, CallsArePaid
  <2>2. IsFiniteSet(Called) /\ IsFiniteSet(Called') /\ Cardinality(Called') <= Cardinality(InWave)
    BY <1>11, <2>1, FS_Subset
  <2> QED
    BY <1>3, <1>11, <2>1, <2>2, FS_AddElement, FS_CardinalityType
<1>13. Alive /\ Reserved = st.count + Cardinality(Called) /\ st.count + Cardinality(InWave) <= MaxToolCalls
  BY <1>3 DEF Alive, CallInv, CallsArePaid
<1>14. st.count \in Nat /\ MaxToolCalls \in Nat
  BY <1>2 DEF State, HarnessAssumption
<1>15. Reserved' = st.count + Cardinality(Called') /\ Reserved' <= MaxToolCalls
  BY <1>4, <1>6, <1>12, <1>13, <1>14
<1>16. /\ \A u \in AllIds : calls'[u] <= Reserved'
       /\ calls' \in [AllIds -> 0..MaxToolCalls]
  <2>1. \A u \in AllIds : calls[u] <= Reserved /\ calls[u] \in Nat
    BY <1>2 DEF CallInv, CallsArePaid
  <2>2. \A u \in AllIds : calls'[u] = IF u = t THEN calls[t] + 1 ELSE calls[u]
    BY <1>1, <1>2
  <2>3. \A u \in AllIds : calls'[u] <= Reserved' /\ calls'[u] \in Nat
    BY <1>4, <1>6, <2>1, <2>2
  <2>4. \A u \in AllIds : calls'[u] \in 0..MaxToolCalls
    BY <1>4, <1>6, <1>14, <1>15, <2>3
  <2> QED
    BY <1>1, <1>2, <2>3, <2>4
<1>17. TypeOK'
  BY <1>1, <1>2, <1>3, <1>16 DEF TypeOK, Executing
<1>18. WavesAreAccounted'
  BY <1>1, <1>3 DEF WavesAreAccounted, CallInv, Alive
<1>19. CallsArePaid'
  BY <1>1, <1>3, <1>6, <1>12, <1>13, <1>15, <1>16 DEF CallsArePaid
<1>20. NothingBeforeTheLedger'
  BY <1>1, <1>3 DEF NothingBeforeTheLedger, Alive, CallInv
<1>21. RoutesAreFollowed'
  BY <1>1, <1>3 DEF RoutesAreFollowed
<1> QED
  BY <1>10, <1>17, <1>18, <1>19, <1>20, <1>21 DEF CallInv

\* An answer is an answer, and is recorded once.
LEMMA AnsweredKeepsCalls ==
    ASSUME HarnessAssumption, NoneAssumption, CallInv, NEW t \in AllIds, NEW kind \in AllKinds \cup {"late"},
           wave[t] \in {"calling", "late"}, Move(t, "answered"), results' = [results EXCEPT ![t] = kind],
           UNCHANGED <<request, pc, st, stop, late, calls, ledger, saved, puts, crashes>>
    PROVE  CallInv'
<1>1. TypeOK /\ st \in State /\ results \in [AllIds -> AllKinds \cup {"late", None}]
  BY DEF CallInv, TypeOK
<1>2. /\ wave' \in [AllIds -> {"idle", "starting", "calling", "late", "answered"}]
      /\ wave'[t] = "answered" /\ \A u \in AllIds \ {t} : wave'[u] = wave[u]
      /\ InWave' = InWave /\ Called' = Called \cup {t} /\ t \in InWave
      /\ pc = "execute_ready_tasks"
  BY WaveMoves
<1>3. Called' = Called
  BY <1>2 DEF Called
<1>4. results[t] = None /\ st.got[t] = None
  BY DEF CallInv, WavesAreAccounted
<1>5. /\ results' \in [AllIds -> AllKinds \cup {"late", None}] /\ results'[t] = kind
      /\ \A u \in AllIds \ {t} : results'[u] = results[u]
  BY <1>1
<1>6. ResultsGrow /\ Reserved' = Reserved /\ CallEvents' = CallEvents
  BY <1>4, <1>5, QuietResults
<1>7. Checkpoints' = Checkpoints /\ \A x \in Held' : x \in Held \/ x = st'
  BY SameStores
<1>8. Honest(st)'
  <2>1. Honest(st)
    BY <1>1, CopiesAreTyped DEF CallInv
  <2> QED
    BY <1>4, <1>5, <1>6, <2>1 DEF Honest
<1>9. \A x \in Held' : Honest(x)'
  BY <1>1, <1>6, <1>7, <1>8, CopiesStayHonest
<1>10. TypeOK'
  BY <1>1, <1>2, <1>5 DEF TypeOK, Executing
<1>11. WavesAreAccounted'
  <2>1. kind # None
    BY DEF NoneAssumption
  <2> QED
    BY <1>2, <1>4, <1>5, <2>1 DEF WavesAreAccounted, CallInv, Alive
<1>12. CallsArePaid'
  BY <1>2, <1>3, <1>6 DEF CallsArePaid, CallInv, Alive
<1>13. NothingBeforeTheLedger'
  BY <1>2 DEF NothingBeforeTheLedger, Alive, CallInv
<1>14. RoutesAreFollowed'
  BY <1>2 DEF RoutesAreFollowed
<1> QED
  BY <1>9, <1>10, <1>11, <1>12, <1>13, <1>14 DEF CallInv

LEMMA OverrunKeepsCalls ==
    ASSUME HarnessAssumption, NoneAssumption, CallInv, NEW t \in AllIds, ToolOverruns(t)
    PROVE  CallInv'
<1>1. /\ wave[t] = "calling" /\ Move(t, "late")
      /\ UNCHANGED <<request, pc, st, stop, late, calls, results, ledger, saved, puts, crashes>>
  BY DEF ToolOverruns, durable
<1>2. TypeOK /\ st \in State
  BY DEF CallInv, TypeOK
<1>3. /\ wave' \in [AllIds -> {"idle", "starting", "calling", "late", "answered"}]
      /\ wave'[t] = "late" /\ \A u \in AllIds \ {t} : wave'[u] = wave[u]
      /\ InWave' = InWave /\ Called' = Called \cup {t} /\ t \in InWave
      /\ pc = "execute_ready_tasks"
  BY <1>1, WaveMoves
<1>4. Called' = Called
  BY <1>1, <1>3 DEF Called
<1>5. ResultsGrow /\ Reserved' = Reserved /\ CallEvents' = CallEvents
  BY <1>1, QuietResults
<1>6. Checkpoints' = Checkpoints /\ \A x \in Held' : x \in Held \/ x = st'
  BY <1>1, SameStores
<1>7. Honest(st)'
  <2>1. Honest(st)
    BY <1>2, CopiesAreTyped DEF CallInv
  <2> QED
    BY <1>1, <1>5, <2>1 DEF Honest
<1>8. \A x \in Held' : Honest(x)'
  BY <1>1, <1>2, <1>5, <1>6, <1>7, CopiesStayHonest
<1>9. TypeOK'
  BY <1>1, <1>2, <1>3 DEF TypeOK, Executing
<1>10. WavesAreAccounted'
  BY <1>1, <1>3 DEF WavesAreAccounted, CallInv, Alive
<1>11. CallsArePaid'
  BY <1>1, <1>3, <1>4, <1>5 DEF CallsArePaid, CallInv, Alive
<1>12. NothingBeforeTheLedger'
  BY <1>1, <1>3 DEF NothingBeforeTheLedger, Alive, CallInv
<1>13. RoutesAreFollowed'
  BY <1>1, <1>3 DEF RoutesAreFollowed
<1> QED
  BY <1>8, <1>9, <1>10, <1>11, <1>12, <1>13 DEF CallInv

\* Taking over the results of a set of tasks.
LEMMA ResultsAreTaken ==
    ASSUME TypeOK, NEW s \in State, NEW answered \in SUBSET AllIds, \A t \in answered : results[t] # None
    PROVE  /\ WithResults(s, answered) \in State
           /\ \A t \in AllIds : WithResults(s, answered).got[t] = IF t \in answered THEN results[t] ELSE s.got[t]
           /\ \A t \in AllIds : WithResults(s, answered).status[t] =
                                    IF t \in answered THEN StatusAfter(results[t]) ELSE s.status[t]
           /\ WithResults(s, answered) = [s EXCEPT !.got = WithResults(s, answered).got,
                                                   !.status = WithResults(s, answered).status]
<1> DEFINE g == [t \in AllIds |-> IF t \in answered THEN results[t] ELSE s.got[t]]
           h == [t \in AllIds |-> IF t \in answered THEN StatusAfter(results[t]) ELSE s.status[t]]
<1>1. WithResults(s, answered) = [s EXCEPT !.got = g, !.status = h]
  BY DEF WithResults, State
<1>2. /\ g \in [AllIds -> AllKinds \cup {"late", None}] /\ h \in [AllIds -> {"pending", "completed", "failed"}]
      /\ \A t \in AllIds : g[t] = IF t \in answered THEN results[t] ELSE s.got[t]
      /\ \A t \in AllIds : h[t] = IF t \in answered THEN StatusAfter(results[t]) ELSE s.status[t]
  BY DEF State, TypeOK, StatusAfter
<1> HIDE DEF g, h
<1>3. /\ WithResults(s, answered) \in State
      /\ WithResults(s, answered).got = g /\ WithResults(s, answered).status = h
  BY <1>1, <1>2 DEF State
<1> QED
  BY <1>1, <1>2, <1>3

LEMMA EndWaveKeepsCalls ==
    ASSUME HarnessAssumption, NoneAssumption, CallInv, EndWave
    PROVE  CallInv'
<1> DEFINE s == WithResults(st, InWave)
<1>1. /\ InWave # {} /\ \A t \in InWave : wave[t] = "answered"
      /\ st' = [s EXCEPT !.count = @ + Cardinality(InWave)]
      /\ stop' \in {None, "deadline_exceeded"} /\ wave' = [t \in AllIds |-> "idle"]
      /\ UNCHANGED <<request, pc, late, calls, results, ledger, saved, puts, crashes>>
  BY DEF EndWave, durable
<1>2. TypeOK /\ st \in State /\ pc = "execute_ready_tasks" /\ Alive
  BY <1>1 DEF CallInv, TypeOK, Executing, Alive
<1>3. InWave \in SUBSET AllIds /\ \A t \in InWave : results[t] # None
  BY <1>1 DEF InWave, CallInv, WavesAreAccounted
<1>4. /\ s \in State
      /\ \A t \in AllIds : s.got[t] = IF t \in InWave THEN results[t] ELSE st.got[t]
      /\ \A t \in AllIds : s.status[t] = IF t \in InWave THEN StatusAfter(results[t]) ELSE st.status[t]
      /\ s.count = st.count
  <2>1. /\ s \in State
        /\ \A t \in AllIds : s.got[t] = IF t \in InWave THEN results[t] ELSE st.got[t]
        /\ \A t \in AllIds : s.status[t] = IF t \in InWave THEN StatusAfter(results[t]) ELSE st.status[t]
        /\ s = [st EXCEPT !.got = s.got, !.status = s.status]
    BY <1>2, <1>3, ResultsAreTaken
  <2> HIDE DEF s
  <2>2. s.count = st.count
    BY <1>2, <2>1 DEF State
  <2> QED
    BY <2>1, <2>2
<1> HIDE DEF s
<1>5. /\ IsFiniteSet(InWave) /\ Cardinality(InWave) \in Nat /\ st.count \in Nat /\ MaxToolCalls \in Nat
      /\ st.count + Cardinality(InWave) <= MaxToolCalls
  BY <1>2, FS_CardinalityType DEF CallInv, CallsArePaid, State, HarnessAssumption
<1>6. /\ st' \in State /\ st'.got = s.got /\ st'.status = s.status
      /\ st'.count = st.count + Cardinality(InWave)
  <2>1. PICK n : n = st.count + Cardinality(InWave)
    OBVIOUS
  <2>2. n \in 0..MaxToolCalls
    BY <1>5, <2>1
  <2>3. st' = [s EXCEPT !.count = n]
    BY <1>1, <1>4, <2>1 DEF State
  <2>4. st' \in State /\ st'.got = s.got /\ st'.status = s.status /\ st'.count = n
    BY <1>4, <2>2, <2>3 DEF State
  <2> QED
    BY <2>1, <2>4
<1>7. Called = InWave /\ InWave' = {} /\ Called' = {} /\ Alive'
  BY <1>1, <1>2 DEF Called, InWave, Alive
<1>8. Reserved = st'.count
  BY <1>2, <1>6, <1>7 DEF CallInv, CallsArePaid
<1>9. ResultsGrow /\ Reserved' = Reserved /\ CallEvents' = CallEvents /\ Reserved \in Nat
  BY <1>1, QuietResults DEF ResultsGrow
<1>10. Checkpoints' = Checkpoints /\ \A x \in Held' : x \in Held \/ x = st'
  BY <1>1, SameStores
<1>11. \A t \in AllIds : st'.got[t] = results[t]
  <2>1. \A t \in AllIds \ InWave : wave[t] = "idle"
    BY DEF InWave
  <2> QED
    BY <1>2, <1>4, <1>6, <2>1 DEF CallInv, WavesAreAccounted
<1>12. Honest(st)'
  <2>1. Honest(st)
    BY <1>2, CopiesAreTyped DEF CallInv
  <2>2. ASSUME NEW t \in AllIds PROVE st'.status[t] = StatusOf(st'.got[t])
    BY <1>3, <1>4, <1>6, <2>1 DEF Honest, StatusOf
  <2>3. st'.count <= Reserved'
    BY <1>8, <1>9
  <2> QED
    BY <1>1, <1>11, <2>2, <2>3 DEF Honest
<1>13. \A x \in Held' : Honest(x)'
  BY <1>1, <1>6, <1>9, <1>10, <1>12, CopiesStayHonest
<1>14. TypeOK'
  BY <1>1, <1>2, <1>6, <1>7 DEF TypeOK
<1>15. WavesAreAccounted'
  BY <1>1, <1>11 DEF WavesAreAccounted
<1>16. CallsArePaid'
  <2>1. Cardinality({}) = 0 /\ IsFiniteSet({})
    BY FS_EmptySet
  <2>2. Reserved' = st'.count + 0 /\ st'.count + 0 <= MaxToolCalls
    BY <1>5, <1>6, <1>8, <1>9
  <2>3. calls' = calls
    BY <1>1
  <2> QED
    BY <1>7, <1>8, <1>9, <2>1, <2>2, <2>3 DEF CallsArePaid, CallInv
<1>17. NothingBeforeTheLedger'
  BY <1>1, <1>2 DEF NothingBeforeTheLedger, Alive, CallInv
<1>18. RoutesAreFollowed'
  BY <1>1, <1>2 DEF RoutesAreFollowed
<1> QED
  BY <1>13, <1>14, <1>15, <1>16, <1>17, <1>18 DEF CallInv

-----------------------------------------------------------------------------
(* Losing the owner and taking the run over keep it.                        *)

\* Steps that neither answer nor start anything.
LEMMA NoCallMoves ==
    ASSUME CallInv, UNCHANGED <<calls, results, wave>>
    PROVE  /\ ResultsGrow /\ Reserved' = Reserved /\ CallEvents' = CallEvents
           /\ InWave' = InWave /\ Called' = Called
  BY QuietResults DEF InWave, Called

LEMMA LateKeepsCalls ==
    ASSUME HarnessAssumption, NoneAssumption, CallInv, Late \/ Finish
    PROVE  CallInv'
<1>1. /\ UNCHANGED <<request, st, wave, stop, calls, results, ledger, saved, puts, crashes>>
      /\ late' \in BOOLEAN /\ (pc' = pc \/ (pc = "finish" /\ pc' = "finished"))
  BY DEF Late, Finish, durable, CallInv, TypeOK
<1>2. TypeOK /\ st \in State
  BY DEF CallInv, TypeOK
<1>3. /\ ResultsGrow /\ Reserved' = Reserved /\ CallEvents' = CallEvents
      /\ InWave' = InWave /\ Called' = Called
  BY <1>1, NoCallMoves
<1>4. Checkpoints' = Checkpoints /\ \A x \in Held' : x \in Held \/ x = st'
  BY <1>1, SameStores
<1>5. Honest(st)'
  <2>1. Honest(st)
    BY <1>2, CopiesAreTyped DEF CallInv
  <2> QED
    BY <1>1, <1>3, <2>1 DEF Honest
<1>6. \A x \in Held' : Honest(x)'
  BY <1>1, <1>2, <1>3, <1>4, <1>5, CopiesStayHonest
<1>7. TypeOK'
  BY <1>1, <1>2, <1>3 DEF TypeOK, Executing
<1>8. WavesAreAccounted'
  BY <1>1 DEF WavesAreAccounted, CallInv, Alive
<1>9. CallsArePaid'
  BY <1>1, <1>3 DEF CallsArePaid, CallInv, Alive
<1>10. NothingBeforeTheLedger'
  BY <1>1, <1>3, <1>4 DEF NothingBeforeTheLedger, Alive, CallInv
<1>11. RoutesAreFollowed'
  <2>1. st' = st /\ RoutesAreFollowed /\ (pc' = "remediate" => pc = "remediate")
    BY <1>1 DEF CallInv
  <2> QED
    BY <2>1 DEF RoutesAreFollowed, Route, NewSpecs, Ids
<1> QED
  BY <1>6, <1>7, <1>8, <1>9, <1>10, <1>11 DEF CallInv

LEMMA SaverKeepsCalls ==
    ASSUME HarnessAssumption, NoneAssumption, CallInv, SaverPut
    PROVE  CallInv' /\ Checkpoints' \subseteq Checkpoints
<1>1. /\ puts # <<>> /\ saved' = Head(puts) /\ puts' = Tail(puts)
      /\ UNCHANGED <<request, pc, st, wave, stop, late, calls, results, ledger, crashes>>
  BY DEF SaverPut
<1>2. TypeOK /\ st \in State /\ puts \in Seq(Checkpoint) /\ Len(puts) <= MaxLag
  BY DEF CallInv, TypeOK
<1>3. /\ Head(puts) \in ToSet(puts) /\ Head(puts) \in Checkpoint
      /\ Tail(puts) \in Seq(Checkpoint) /\ Len(Tail(puts)) <= MaxLag
      /\ ToSet(Tail(puts)) \subseteq ToSet(puts)
  <2>1. /\ Len(puts) \in Nat \ {0} /\ DOMAIN puts = 1..Len(puts)
        /\ Head(puts) = puts[1] /\ Tail(puts) \in Seq(Checkpoint) /\ Len(Tail(puts)) = Len(puts) - 1
        /\ DOMAIN Tail(puts) = 1..(Len(puts) - 1)
        /\ \A i \in 1..(Len(puts) - 1) : Tail(puts)[i] = puts[i + 1]
    BY <1>1, <1>2
  <2>2. 1 \in 1..Len(puts) /\ \A i \in 1..(Len(puts) - 1) : i + 1 \in 1..Len(puts)
    BY <2>1
  <2>3. Len(Tail(puts)) <= MaxLag
    BY <1>2, <2>1 DEF HarnessAssumption
  <2>4. ToSet(Tail(puts)) \subseteq ToSet(puts)
    BY <2>1, <2>2 DEF ToSet
  <2> QED
    BY <1>2, <2>1, <2>2, <2>3, <2>4 DEF ToSet
<1>4. Checkpoints' \subseteq Checkpoints
  BY <1>1, <1>3 DEF Checkpoints
<1>5. \A x \in Held' : x \in Held \/ x = st'
  BY <1>1, <1>4, StoresStay
<1>6. /\ ResultsGrow /\ Reserved' = Reserved /\ CallEvents' = CallEvents
      /\ InWave' = InWave /\ Called' = Called
  BY <1>1, NoCallMoves
<1>7. Honest(st)'
  <2>1. Honest(st)
    BY <1>2, CopiesAreTyped DEF CallInv
  <2> QED
    BY <1>1, <1>6, <2>1 DEF Honest
<1>8. \A x \in Held' : Honest(x)'
  BY <1>1, <1>2, <1>5, <1>6, <1>7, CopiesStayHonest
<1>9. TypeOK'
  BY <1>1, <1>2, <1>3, <1>6 DEF TypeOK, Executing
<1>10. WavesAreAccounted'
  BY <1>1 DEF WavesAreAccounted, CallInv, Alive
<1>11. CallsArePaid'
  BY <1>1, <1>6 DEF CallsArePaid, CallInv, Alive
<1>12. NothingBeforeTheLedger'
  BY <1>1, <1>4, <1>6 DEF NothingBeforeTheLedger, Alive, CallInv
<1>13. RoutesAreFollowed'
  <2>1. st' = st /\ RoutesAreFollowed /\ pc' = pc
    BY <1>1 DEF CallInv
  <2> QED
    BY <2>1 DEF RoutesAreFollowed, Route, NewSpecs, Ids
<1> QED
  BY <1>4, <1>8, <1>9, <1>10, <1>11, <1>12, <1>13 DEF CallInv

LEMMA LossKeepsCalls ==
    ASSUME HarnessAssumption, NoneAssumption, CallInv, OwnerLost
    PROVE  CallInv' /\ Checkpoints' \subseteq Checkpoints
<1>1. /\ pc' = "down" /\ crashes < MaxCrashes /\ crashes' = crashes + 1
      /\ st' = Fresh /\ wave' = [t \in AllIds |-> "idle"] /\ stop' = None /\ puts' = <<>>
      /\ UNCHANGED <<request, late, calls, results, ledger, saved>>
  BY DEF OwnerLost
<1>2. TypeOK /\ Fresh \in State
  BY DEF CallInv, Fresh, State, HarnessAssumption
<1>3. Checkpoints' \subseteq Checkpoints
  BY <1>1 DEF Checkpoints, ToSet
<1>4. \A x \in Held' : x \in Held \/ x = st'
  BY <1>1, <1>3, StoresStay
<1>5. ResultsGrow /\ Reserved' = Reserved /\ CallEvents' = CallEvents /\ Reserved \in Nat
  BY <1>1, QuietResults DEF ResultsGrow
<1>6. Honest(st)'
  BY <1>1, <1>5 DEF Honest, Fresh, StatusOf
<1>7. \A x \in Held' : Honest(x)'
  BY <1>1, <1>2, <1>4, <1>5, <1>6, CopiesStayHonest
<1>8. InWave' = {} /\ ~Alive'
  BY <1>1 DEF InWave, Alive
<1>9. TypeOK'
  BY <1>1, <1>2, <1>8 DEF TypeOK, HarnessAssumption
<1>10. WavesAreAccounted'
  BY <1>1, <1>8 DEF WavesAreAccounted
<1>11. CallsArePaid'
  <2>1. Cardinality({}) = 0 /\ IsFiniteSet({}) /\ st'.count = 0 /\ MaxToolCalls \in Nat
    BY <1>1, FS_EmptySet DEF Fresh, HarnessAssumption
  <2> QED
    BY <1>1, <1>5, <1>8, <2>1 DEF CallsArePaid, CallInv
<1>12. NothingBeforeTheLedger'
  BY <1>1, <1>3, <1>5 DEF NothingBeforeTheLedger, CallInv
<1>13. RoutesAreFollowed'
  BY <1>1 DEF RoutesAreFollowed
<1> QED
  BY <1>3, <1>7, <1>9, <1>10, <1>11, <1>12, <1>13 DEF CallInv

\* What recovery makes of an honest copy: every committed result, and every call paid.
LEMMA CopyIsRestored ==
    ASSUME HarnessAssumption, NoneAssumption, CallInv, NEW s \in State, Honest(s)
    PROVE  LET r == Restored([s EXCEPT !.count = Larger(@, Reserved)]) IN
           /\ r \in State /\ r.count = Reserved
           /\ \A t \in AllIds : r.got[t] = results[t] /\ r.status[t] = StatusOf(results[t])
           /\ r = [s EXCEPT !.got = r.got, !.status = r.status, !.count = r.count]
<1> DEFINE p == [s EXCEPT !.count = Larger(@, Reserved)]
           r == Restored(p)
<1>1. Reserved \in Nat /\ Reserved <= MaxToolCalls /\ MaxToolCalls \in Nat /\ s.count \in Nat /\ s.count <= Reserved
  BY FS_CardinalityType DEF Reserved, CallInv, CallsArePaid, HarnessAssumption, State, Honest
<1>2. Larger(s.count, Reserved) = Reserved
  BY <1>1 DEF Larger
<1>3. /\ p = [s EXCEPT !.count = Reserved] /\ p \in State
      /\ p.count = Reserved /\ p.got = s.got /\ p.status = s.status
  <2>1. Reserved \in 0..MaxToolCalls
    BY <1>1
  <2> QED
    BY <1>2, <2>1 DEF State
<1> HIDE DEF p
<1>4. Unmerged(p) \in SUBSET AllIds /\ \A t \in AllIds : t \in Unmerged(p) <=> results[t] # None /\ s.got[t] = None
  BY <1>3 DEF Unmerged
<1>5. /\ r \in State
      /\ \A t \in AllIds : r.got[t] = IF t \in Unmerged(p) THEN results[t] ELSE p.got[t]
      /\ \A t \in AllIds : r.status[t] = IF t \in Unmerged(p) THEN StatusAfter(results[t]) ELSE p.status[t]
      /\ r = [p EXCEPT !.got = r.got, !.status = r.status]
  <2> DEFINE U == Unmerged(p)
  <2>1. r = WithResults(p, U)
    BY DEF Restored
  <2>2. TypeOK /\ p \in State /\ U \in SUBSET AllIds /\ \A t \in U : results[t] # None
    BY <1>3, <1>4 DEF CallInv
  <2> HIDE DEF U, r
  <2>3. /\ WithResults(p, U) \in State
        /\ \A t \in AllIds : WithResults(p, U).got[t] = IF t \in U THEN results[t] ELSE p.got[t]
        /\ \A t \in AllIds : WithResults(p, U).status[t] =
                                IF t \in U THEN StatusAfter(results[t]) ELSE p.status[t]
        /\ WithResults(p, U) = [p EXCEPT !.got = WithResults(p, U).got, !.status = WithResults(p, U).status]
    BY <2>2, ResultsAreTaken
  <2> QED
    BY <2>1, <2>3 DEF U
<1> HIDE DEF r
<1>6. ASSUME NEW t \in AllIds
      PROVE  r.got[t] = results[t] /\ r.status[t] = StatusOf(results[t])
  <2>1. s.got[t] \in {None, results[t]} /\ s.status[t] = StatusOf(s.got[t])
    BY DEF Honest
  <2> QED
    BY <1>3, <1>4, <1>5, <2>1 DEF StatusOf
<1>7. r.count = Reserved
  BY <1>3, <1>5 DEF State
<1>8. r = [s EXCEPT !.got = r.got, !.status = r.status, !.count = r.count]
  BY <1>3, <1>5, <1>7 DEF State
<1> QED
  BY <1>5, <1>6, <1>7, <1>8 DEF r, p

\* The copy recovery starts from.
LEMMA RecoverySource ==
    ASSUME NoneAssumption, CallInv, saved # None
    PROVE  /\ LedgerState \in State /\ Honest(LedgerState) /\ LedgerState \in Held
           /\ saved \in Checkpoints /\ saved \in Checkpoint /\ saved.st \in State
<1>1. saved \in Checkpoints /\ saved \in Checkpoint /\ saved.st \in Held
  BY CopiesAreTyped DEF CallInv, Held
<1>2. ledger # None => ledger \in Held
  BY CopiesAreTyped DEF CallInv
<1>3. LedgerState \in Held
  BY <1>1, <1>2 DEF LedgerState, Planned
<1>4. Held \subseteq State
  BY CopiesAreTyped DEF CallInv
<1> QED
  BY <1>1, <1>3, <1>4 DEF CallInv

LEMMA ResumeKeepsCalls ==
    ASSUME HarnessAssumption, NoneAssumption, CallInv, Resume
    PROVE  CallInv'
<1>1. /\ pc = "down" /\ saved # None /\ st' = Restored(Merged) /\ pc' = After(saved.node, st')
      /\ UNCHANGED <<request, wave, stop, late, calls, results, ledger, saved, puts, crashes>>
  BY DEF Resume, durable
<1>2. TypeOK
  BY DEF CallInv
<1>3. LedgerState \in State /\ Honest(LedgerState) /\ saved \in Checkpoints /\ saved \in Checkpoint
  BY <1>1, RecoverySource
<1>4. Merged = [LedgerState EXCEPT !.count = Larger(@, Reserved)]
  BY DEF Merged
<1>5. /\ st' \in State /\ st'.count = Reserved
      /\ \A t \in AllIds : st'.got[t] = results[t] /\ st'.status[t] = StatusOf(results[t])
  <2>1. PICK s : s = LedgerState
    OBVIOUS
  <2>2. s \in State /\ Honest(s) /\ st' = Restored([s EXCEPT !.count = Larger(@, Reserved)])
    BY <1>1, <1>3, <1>4, <2>1 DEF Honest
  <2> QED
    BY <2>2, CopyIsRestored
<1>6. /\ ResultsGrow /\ Reserved' = Reserved /\ CallEvents' = CallEvents
      /\ InWave' = InWave /\ Called' = Called
  BY <1>1, NoCallMoves
<1>7. Checkpoints' = Checkpoints /\ \A x \in Held' : x \in Held \/ x = st'
  BY <1>1, SameStores
<1>8. Reserved \in Nat /\ InWave = {} /\ Called = {} /\ saved.node \in Nodes
  BY <1>1, <1>2, <1>3, <1>6 DEF ResultsGrow, TypeOK, Executing, Called, Checkpoint
<1>9. Honest(st)'
  BY <1>1, <1>5, <1>6, <1>8 DEF Honest
<1>10. \A x \in Held' : Honest(x)'
  BY <1>5, <1>6, <1>7, <1>9, CopiesStayHonest
<1>11. /\ pc' \in (Nodes \ {"start"}) \cup {"finish"} /\ Alive'
       /\ pc' = "remediate" => Route(st') = "remediate"
       /\ saved.node = "start" => pc' = "load_session"
  <2>1. Route(st') \in {"remediate", "render_answer"}
    BY DEF Route
  <2> QED
    BY <1>1, <1>8, <2>1 DEF After, Nodes, Alive
<1>12. TypeOK'
  BY <1>1, <1>2, <1>5, <1>6, <1>8, <1>11 DEF TypeOK
<1>13. WavesAreAccounted'
  <2>1. \A t \in AllIds : wave[t] = "idle"
    BY <1>8 DEF InWave
  <2> QED
    BY <1>1, <1>5, <2>1 DEF WavesAreAccounted
<1>14. CallsArePaid'
  <2>1. Cardinality({}) = 0 /\ IsFiniteSet({}) /\ Reserved <= MaxToolCalls
    BY FS_EmptySet DEF CallInv, CallsArePaid
  <2>2. Reserved' = st'.count + 0 /\ st'.count + 0 <= MaxToolCalls
    BY <1>5, <1>6, <1>8, <2>1 DEF HarnessAssumption
  <2> QED
    BY <1>1, <1>6, <1>8, <2>1, <2>2 DEF CallsArePaid, CallInv
<1>15. NothingBeforeTheLedger'
  BY <1>1, <1>3, <1>6, <1>7, <1>11 DEF NothingBeforeTheLedger, CallInv
<1>16. RoutesAreFollowed'
  BY <1>11 DEF RoutesAreFollowed, Route, NewSpecs, Ids
<1> QED
  BY <1>10, <1>12, <1>13, <1>14, <1>15, <1>16 DEF CallInv

LEMMA AgainKeepsCalls ==
    ASSUME HarnessAssumption, NoneAssumption, CallInv, StartAgain \/ Refuse
    PROVE  CallInv'
<1>1. /\ pc = "down" /\ pc' \in {"start", "refused"}
      /\ UNCHANGED <<request, st, wave, stop, late, calls, results, ledger, saved, puts, crashes>>
      /\ pc' = "start" => saved = None /\ ledger = None
  BY DEF StartAgain, Refuse, durable
<1>2. TypeOK /\ st \in State
  BY DEF CallInv, TypeOK
<1>3. /\ ResultsGrow /\ Reserved' = Reserved /\ CallEvents' = CallEvents
      /\ InWave' = InWave /\ Called' = Called /\ Reserved \in Nat
  BY <1>1, NoCallMoves DEF ResultsGrow
<1>4. Checkpoints' = Checkpoints /\ \A x \in Held' : x \in Held \/ x = st'
  BY <1>1, SameStores
<1>5. Honest(st) /\ Honest(st)'
  <2>1. Honest(st)
    BY <1>2, CopiesAreTyped DEF CallInv
  <2> QED
    BY <1>1, <1>3, <2>1 DEF Honest
<1>6. \A x \in Held' : Honest(x)'
  BY <1>1, <1>2, <1>3, <1>4, <1>5, CopiesStayHonest
<1>7. pc' = "start" => /\ Checkpoints = {} /\ CallEvents = {} /\ Reserved = 0
                       /\ \A t \in AllIds : results[t] = None
  <2> SUFFICES ASSUME pc' = "start" PROVE /\ Checkpoints = {} /\ CallEvents = {} /\ Reserved = 0
                                          /\ \A t \in AllIds : results[t] = None
    OBVIOUS
  <2>1. puts = <<>> /\ saved = None /\ ledger = None
    BY <1>1 DEF CallInv, NothingBeforeTheLedger, Alive
  <2>2. Checkpoints = {}
    BY <2>1 DEF Checkpoints, ToSet
  <2> QED
    BY <2>1, <2>2, FS_EmptySet DEF CallInv, NothingBeforeTheLedger, Reserved
<1>8. InWave = {} /\ Called = {} /\ \A t \in AllIds : wave[t] = "idle"
  BY <1>1, <1>2 DEF TypeOK, Executing, Called, InWave
<1>9. TypeOK'
  BY <1>1, <1>2, <1>3, <1>8 DEF TypeOK, Nodes
<1>10. WavesAreAccounted'
  <2>1. \A t \in AllIds : st.got[t] \in {None, results[t]}
    BY <1>5 DEF Honest
  <2>2. pc' = "start" => \A t \in AllIds : st.got[t] = results[t]
    BY <1>7, <2>1
  <2>3. Alive' => pc' = "start"
    BY <1>1 DEF Alive
  <2> QED
    BY <1>1, <1>8, <2>2, <2>3 DEF WavesAreAccounted
<1>11. CallsArePaid'
  <2>1. Cardinality({}) = 0 /\ st.count \in Nat /\ st.count <= Reserved
    BY <1>2, <1>5, FS_EmptySet DEF State, Honest
  <2>2. pc' = "start" => Reserved = st.count + Cardinality(Called)
    BY <1>7, <1>8, <2>1
  <2>3. Alive' => pc' = "start"
    BY <1>1 DEF Alive
  <2> QED
    BY <1>1, <1>3, <2>2, <2>3 DEF CallsArePaid, CallInv
<1>12. NothingBeforeTheLedger'
  <2>1. puts = <<>>
    BY <1>1 DEF CallInv, NothingBeforeTheLedger, Alive
  <2> QED
    BY <1>1, <1>3, <1>4, <1>7, <2>1 DEF NothingBeforeTheLedger, CallInv
<1>13. RoutesAreFollowed'
  BY <1>1 DEF RoutesAreFollowed
<1> QED
  BY <1>6, <1>9, <1>10, <1>11, <1>12, <1>13 DEF CallInv
LEMMA CallsInit ==
    ASSUME HarnessAssumption, NoneAssumption, Init
    PROVE  CallInv
<1>1. Fresh \in State /\ st = Fresh /\ pc = "start" /\ ledger = None /\ saved = None /\ puts = <<>>
  BY DEF Init, Fresh, State, HarnessAssumption
<1>2. /\ \A t \in AllIds : wave[t] = "idle" /\ calls[t] = 0 /\ results[t] = None
      /\ InWave = {} /\ Called = {}
  BY DEF Init, InWave, Called
<1>3. CallEvents = {} /\ Reserved = 0 /\ IsFiniteSet({}) /\ Cardinality({}) = 0
  <2>1. ASSUME NEW e \in CallEvents PROVE FALSE
    <3>1. PICK t \in AllIds : e \in {t} \X (1..calls[t])
      BY <2>1 DEF CallEvents
    <3> QED
      BY <1>2, <3>1
  <2> QED
    BY <2>1, FS_EmptySet DEF Reserved
<1>4. TypeOK
  <2>1. puts \in Seq(Checkpoint) /\ Len(puts) <= MaxLag
    BY <1>1 DEF HarnessAssumption
  <2>2. /\ calls \in [AllIds -> 0..MaxToolCalls] /\ crashes \in 0..MaxCrashes
        /\ results \in [AllIds -> AllKinds \cup {"late", None}]
    BY DEF Init, HarnessAssumption
  <2>3. wave \in [AllIds -> {"idle", "starting", "calling", "late", "answered"}]
    BY DEF Init
  <2> QED
    BY <1>1, <1>2, <2>1, <2>2, <2>3 DEF Init, TypeOK, Nodes
<1>5. Checkpoints = {} /\ Held = {st} /\ Honest(st)
  <2>1. Checkpoints = {} /\ st # None
    BY <1>1, <1>4 DEF Checkpoints, ToSet, NoneAssumption, TypeOK
  <2>2. Held = {st}
    BY <1>1, <2>1 DEF Held
  <2>3. Honest(st)
    BY <1>1, <1>3 DEF Honest, Fresh, StatusOf
  <2> QED
    BY <2>1, <2>2, <2>3
<1>6. WavesAreAccounted
  BY <1>1, <1>2 DEF WavesAreAccounted, Fresh
<1>7. CallsArePaid
  BY <1>1, <1>2, <1>3 DEF CallsArePaid, Fresh, HarnessAssumption
<1>8. NothingBeforeTheLedger /\ RoutesAreFollowed
  BY <1>1, <1>2, <1>3, <1>5 DEF NothingBeforeTheLedger, RoutesAreFollowed
<1> QED
  BY <1>4, <1>5, <1>6, <1>7, <1>8 DEF CallInv

LEMMA CallsStay ==
    ASSUME CallInv, UNCHANGED vars
    PROVE  CallInv'
<1>1. /\ CallEvents' = CallEvents /\ Reserved' = Reserved /\ InWave' = InWave /\ Called' = Called
      /\ Checkpoints' = Checkpoints /\ Held' = Held /\ Alive' = Alive
  BY DEF vars, CallEvents, Reserved, InWave, Called, Checkpoints, Held, Alive
<1>2. \A s \in Held : Honest(s) => Honest(s)'
  BY <1>1 DEF Honest, vars
<1>3. TypeOK'
  BY <1>1 DEF CallInv, TypeOK, vars, Executing
<1>4. WavesAreAccounted' /\ CallsArePaid' /\ NothingBeforeTheLedger'
  BY <1>1 DEF CallInv, WavesAreAccounted, CallsArePaid, NothingBeforeTheLedger, vars
<1>5. RoutesAreFollowed'
  BY DEF CallInv, RoutesAreFollowed, Route, NewSpecs, Ids, vars
<1> QED
  BY <1>1, <1>2, <1>3, <1>4, <1>5 DEF CallInv

LEMMA CallsNext ==
    ASSUME HarnessAssumption, NoneAssumption, CallInv, [Next]_vars
    PROVE  CallInv'
<1>1. CASE Node
  BY <1>1, StartKeepsCalls, GraphKeepsCalls, LateKeepsCalls DEF Node
<1>2. CASE Wave
  <2>1. ASSUME NEW t \in AllIds, RecordOverrun(t) PROVE CallInv'
    <3>1. "late" \in AllKinds \cup {"late"}
      OBVIOUS
    <3> QED
      BY <2>1, <3>1, AnsweredKeepsCalls DEF RecordOverrun
  <2> QED
    BY <1>2, <2>1, StartWaveKeepsCalls, EndWaveKeepsCalls, CallToolKeepsCalls DEF Wave
<1>3. CASE Provider
  <2>1. ASSUME NEW t \in AllIds, NEW k \in Kinds, ToolReturns(t, k) PROVE CallInv'
    <3>1. k \in AllKinds \cup {"late"}
      BY DEF HarnessAssumption
    <3> QED
      BY <2>1, <3>1, AnsweredKeepsCalls DEF ToolReturns
  <2> QED
    BY <1>3, <2>1, OverrunKeepsCalls DEF Provider
<1>4. CASE Recovery
  BY <1>4, ResumeKeepsCalls, AgainKeepsCalls DEF Recovery
<1>5. CASE SaverPut \/ Late \/ OwnerLost
  BY <1>5, SaverKeepsCalls, LateKeepsCalls, LossKeepsCalls
<1>6. CASE UNCHANGED vars
  BY <1>6, CallsStay
<1> QED
  BY <1>1, <1>2, <1>3, <1>4, <1>5, <1>6 DEF Next

LEMMA CallsAreKept == Spec => []CallInv
<1>1. Init => CallInv
  BY CallsInit, HarnessAssumption, NoneAssumption
<1>2. CallInv /\ [Next]_vars => CallInv'
  BY CallsNext, HarnessAssumption, NoneAssumption
<1> QED
  BY <1>1, <1>2, PTL DEF Spec

\* Types: no owner's count leaves the budget and no owner remediates more than it may,
\* however often a run is lost and restored (execute_ready_tasks, remediate, reconcile_checkpoint).
THEOREM HarnessTypeCorrect == Spec => []TypeOK
<1>1. CallInv => TypeOK
  BY DEF CallInv
<1> QED
  BY <1>1, CallsAreKept, PTL

\* max_tool_calls holds for the run: what a lost owner had started is paid for by the
\* next one, because every copy it can start from has counted at most the calls made and
\* reconcile_checkpoint raises its tool_call_count to all of them.
THEOREM RunBudgetHolds == Spec => []BudgetHolds
<1>1. CallInv => BudgetHolds
  BY DEF CallInv, CallsArePaid, BudgetHolds
<1> QED
  BY <1>1, CallsAreKept, PTL

\* Whoever answers knows every committed result, also one only the event log had
\* (_restore_committed_tool_results before the graph goes on).
THEOREM AnswersUseResults == Spec => []AnswerUsesResults
<1>1. CallInv => AnswerUsesResults
  <2> SUFFICES ASSUME CallInv, pc \in {"finish", "finished"}, NEW t \in AllIds
               PROVE  st.got[t] = results[t]
    BY DEF AnswerUsesResults
  <2>1. Alive /\ wave[t] = "idle"
    BY DEF CallInv, TypeOK, Executing, InWave, Alive
  <2> QED
    BY <2>1 DEF CallInv, WavesAreAccounted
<1> QED
  BY <1>1, CallsAreKept, PTL

\* A task whose result is committed is called by no later owner: execute_one commits a
\* tool_call only for a task that _select_task_wave found pending, and in a restored
\* state no task with a committed result is.
THEOREM NoAnsweredRepeat == Spec => AnsweredIsNotRepeated
<1>1. CallInv /\ [Next]_vars => [\A t \in AllIds : results[t] # None => calls'[t] = calls[t]]_vars
  <2> SUFFICES ASSUME CallInv, Next, NEW t \in AllIds, results[t] # None
               PROVE  calls'[t] = calls[t]
    OBVIOUS
  <2>1. wave[t] # "starting" /\ calls \in [AllIds -> 0..MaxToolCalls]
    BY DEF CallInv, WavesAreAccounted, TypeOK
  <2>2. ASSUME NEW u \in AllIds, CallTool(u) PROVE calls'[t] = calls[t]
    BY <2>1, <2>2 DEF CallTool
  <2>3. CASE Node
    BY <2>3 DEF Node, Start, LoadSession, ResolveTurn, BuildPlan, ExecuteReadyTasks, ValidateEvidence,
                Remediate, RenderAnswer, PersistTurn, Finish, EndNode, durable
  <2>4. CASE Wave
    BY <2>2, <2>4 DEF Wave, StartWave, EndWave, RecordOverrun, durable
  <2>5. CASE Provider \/ Recovery \/ SaverPut \/ Late \/ OwnerLost
    BY <2>5 DEF Provider, ToolOverruns, ToolReturns, Recovery, Resume, StartAgain, Refuse, SaverPut,
                Late, OwnerLost, durable
  <2> QED
    BY <2>3, <2>4, <2>5 DEF Next
<1> QED
  BY <1>1, CallsAreKept, PTL DEF Spec, AnsweredIsNotRepeated

-----------------------------------------------------------------------------
(* The invariant of the answer: a finished loop has a true reason, which    *)
(* no owner changes before the plan grows, and an answer fits its evidence. *)

Done(s) == s.reason \notin {None, "remediation_scheduled"}

\* There is a reason to stop the loop.
Stops(s, overdue) == Processed(s) \/ s.count >= MaxToolCalls \/ overdue \/ SelectWave(s) = {}

\* The reason in the state is the true one, given the event log and the clock.
TrueReason(s, res, paid, overdue) ==
    /\ s.reason = "all_tasks_processed" => Processed(s)
    /\ s.reason = "tool_budget_exhausted" => paid = MaxToolCalls /\ ~Processed(s)
    /\ s.reason = "deadline_exceeded" => overdue /\ (~Processed(s) \/ \E t \in AllIds : res[t] = "late")
    /\ s.reason = "dependency_blocked" => ~Processed(s) /\ SelectWave(s) = {}
    /\ s.reason = "iteration_budget_exhausted" => s.missing # {} /\ s.rounds = MaxRounds
    /\ s.reason = "no_remediation_spec" => s.missing # {} /\ Ids(s.specs) \subseteq Ids(s.plan)

\* A state whose loop has ended knows the whole event log, and an answer fits it.
Settled(s, res, paid, overdue) ==
    /\ Done(s) => s.got = res /\ s.count = paid /\ Stops(s, overdue) /\ TrueReason(s, res, paid, overdue)
    /\ s.reason \in {"iteration_budget_exhausted", "no_remediation_spec"} => s.answer # None
    /\ s.answer # None => /\ Done(s) /\ s.answer = AnswerStatus(s)
                          /\ s.missing = Missing(s) /\ Route(s) = "render_answer"

\* A fallback whose source has been asked is in the plan.
SpecsAreKnown(s) == \A f \in ToSet(s.specs) :
    (\E t \in ToSet(s.plan) : t.source = f.source) => f.id \in Ids(s.plan)

\* A run without a plan: recovery takes it from the saver, whatever the ledger says.
Bare(s) == s.plan = <<>> =>
    /\ s.reason \in {None, "all_tasks_processed"} /\ s.missing = {}
    /\ s.answer # None => Done(s) /\ s.answer = AnswerStatus(s)

StopIsLate ==
    /\ stop # None => Executing /\ late /\ st.plan # <<>> /\ \E t \in AllIds : results[t] = "late"
    /\ InWave # {} => st.plan # <<>>
    /\ \A t \in AllIds : wave[t] = "late" \/ results[t] = "late" => late

\* The owner's plan is the ledger's, and no checkpoint is ahead of it.
Planning == {"start", "load_session", "resolve_turn"}
Blank(s) == s.plan = <<>> /\ s.reason = None /\ s.answer = None
LedgerIds == IF ledger = None THEN {} ELSE Ids(ledger.plan)
PlansGrow ==
    /\ Alive => Ids(st.plan) = LedgerIds
    /\ \A c \in Checkpoints : Ids(c.st.plan) \subseteq LedgerIds /\ (c.node \in Planning => Blank(c.st))
    /\ pc \in Planning \cup {"build_plan"} => Blank(st) /\ \A c \in Checkpoints : c.node \in Planning
    /\ ~Alive => Blank(st)

\* Once a loop over a plan has ended, the ledger knows, and so does whoever starts
\* from a checkpoint of that plan that comes after the loop.
Executed == {"execute_ready_tasks", "validate_evidence", "render_answer", "persist_turn"}
SameAsLedger(c) == Planned /\ Ids(c.st.plan) = Ids(ledger.plan)
DoneStays ==
    /\ Alive /\ Planned /\ Done(ledger) => st = ledger
    /\ Alive /\ Done(st) => InWave = {}
    /\ pc \in {"validate_evidence", "remediate", "render_answer", "persist_turn", "finish", "finished"} => Done(st)
    /\ pc \in {"render_answer", "persist_turn", "finish", "finished"} => st.missing = Missing(st)
    /\ pc = "render_answer" => Route(st) = "render_answer"
    /\ \A c \in Checkpoints : c.node \in Executed =>
        /\ c.st.plan = <<>> => Done(c.st)
        /\ SameAsLedger(c) => /\ Done(ledger)
                              /\ c.node # "execute_ready_tasks" => ledger.missing = Missing(ledger)

AnswerInv ==
    /\ \A s \in Held : SpecsAreKnown(s) /\ Bare(s)
    /\ Alive => Settled(st, results, Reserved, late)
    /\ Planned => Settled(ledger, results, Reserved, late)
    /\ StopIsLate /\ PlansGrow /\ DoneStays

LEMMA SameWork ==
    ASSUME HarnessAssumption, NEW s \in State, NEW r \in State,
           r.plan = s.plan, r.status = s.status, r.count = s.count
    PROVE  /\ Processed(r) <=> Processed(s)
           /\ SelectWave(r) = {} <=> SelectWave(s) = {}
<1>1. CanStart(r) <=> CanStart(s)
  BY DEF CanStart, RoomFor, Ready, Ids
<1>2. SelectWave(r) = {} <=> ~CanStart(r)
  BY WaveIsSelected
<1>3. SelectWave(s) = {} <=> ~CanStart(s)
  BY WaveIsSelected
<1>4. Processed(r) <=> Processed(s)
  BY DEF Processed, Ids
<1> QED
  BY <1>1, <1>2, <1>3, <1>4

LEMMA SameEvidence ==
    ASSUME NEW s, NEW r, r.plan = s.plan, r.got = s.got
    PROVE  Missing(r) = Missing(s) /\ AnswerStatus(r) = AnswerStatus(s)
<1>1. Missing(r) = Missing(s)
  BY DEF Missing, Covers
<1>2. FinancialGap(r) <=> FinancialGap(s)
  BY DEF FinancialGap
<1>3. \A kinds : Got(r, kinds) <=> Got(s, kinds)
  BY DEF Got, Ids
<1> QED
  BY <1>1, <1>2, <1>3 DEF AnswerStatus

LEMMA SameRoute ==
    ASSUME NEW s, NEW r, r.plan = s.plan, r.specs = s.specs, r.rounds = s.rounds, r.missing = s.missing
    PROVE  Route(r) = Route(s) /\ NewSpecs(r) = NewSpecs(s)
BY DEF Route, NewSpecs, Ids

LEMMA SpecsStay ==
    ASSUME NEW s, NEW r, r.plan = s.plan, r.specs = s.specs, SpecsAreKnown(s)
    PROVE  SpecsAreKnown(r)
BY DEF SpecsAreKnown, Ids

LEMMA PlanHasIds ==
    ASSUME NEW s \in State
    PROVE  s.plan = <<>> <=> Ids(s.plan) = {}
<1>1. s.plan \in Seq(PlanTasks) /\ DOMAIN s.plan = 1..Len(s.plan) /\ Len(s.plan) \in Nat
  BY DEF State
<1>2. s.plan = <<>> => Ids(s.plan) = {}
  BY DEF Ids, ToSet
<1>3. ASSUME s.plan # <<>> PROVE s.plan[1].id \in Ids(s.plan)
  <2>1. 1 \in 1..Len(s.plan)
    BY <1>1, <1>3
  <2> QED
    BY <1>1, <2>1 DEF Ids, ToSet
<1> QED
  BY <1>2, <1>3

\* Nothing to do, nothing missing and nothing to say without a plan.
LEMMA NoPlanNoWork ==
    ASSUME NEW s \in State, s.plan = <<>>
    PROVE  Processed(s) /\ Missing(s) = {} /\ AnswerStatus(s) = "needs_review"
<1>1. Ids(s.plan) = {} /\ ToSet(s.plan) = {}
  BY PlanHasIds DEF ToSet
<1>2. \A kinds : ~Got(s, kinds)
  BY <1>1 DEF Got
<1> QED
  BY <1>1, <1>2 DEF Processed, Missing, AnswerStatus

LEMMA UnfinishedIsSettled ==
    ASSUME NoneAssumption, NEW s, ~Done(s), NEW res, NEW paid, NEW overdue
    PROVE  Settled(s, res, paid, overdue) <=> s.answer = None
BY DEF Settled, Done, NoneAssumption, Reasons

LEMMA MoreTime ==
    ASSUME NEW s, NEW res, NEW paid, NEW overdue, NEW later, overdue => later,
           Settled(s, res, paid, overdue)
    PROVE  Settled(s, res, paid, later)
<1>1. Stops(s, overdue) => Stops(s, later)
  BY DEF Stops
<1>2. TrueReason(s, res, paid, overdue) => TrueReason(s, res, paid, later)
  BY DEF TrueReason
<1> QED
  BY <1>1, <1>2 DEF Settled

-----------------------------------------------------------------------------
(* What each node makes of a settled state.                                 *)

\* A reason that holds for this state.
Justified(why, s, res, overdue) ==
    \/ why = "all_tasks_processed" /\ Processed(s)
    \/ why = "tool_budget_exhausted" /\ ~Processed(s) /\ s.count >= MaxToolCalls
    \/ why = "deadline_exceeded" /\ overdue /\ (~Processed(s) \/ (s.plan # <<>> /\ \E t \in AllIds : res[t] = "late"))
    \/ why = "dependency_blocked" /\ ~Processed(s) /\ SelectWave(s) = {}

LEMMA LoopEndIsSettled ==
    ASSUME HarnessAssumption, NoneAssumption, NEW s \in State, NEW r \in State, NEW why,
           r = Ended(s, why), NEW res, NEW overdue, Justified(why, s, res, overdue),
           s.got = res, s.count <= MaxToolCalls,
           SpecsAreKnown(s), Bare(s), Settled(s, res, s.count, overdue)
    PROVE  /\ SpecsAreKnown(r) /\ Bare(r) /\ Settled(r, res, s.count, overdue) /\ Done(r)
           /\ r.plan = s.plan /\ Missing(r) = Missing(s) /\ r.missing = s.missing
<1>1. /\ r.plan = s.plan /\ r.specs = s.specs /\ r.status = s.status /\ r.got = s.got /\ r.count = s.count
      /\ r.rounds = s.rounds /\ r.missing = s.missing /\ r.answer = s.answer /\ r.reason = why
      /\ s.count \in Nat /\ MaxToolCalls \in Nat
  BY DEF State, HarnessAssumption, Ended
<1>2. /\ Processed(r) <=> Processed(s)
      /\ SelectWave(r) = {} <=> SelectWave(s) = {}
  BY <1>1, SameWork
<1>3. Missing(r) = Missing(s) /\ AnswerStatus(r) = AnswerStatus(s)
  BY <1>1, SameEvidence
<1>4. Route(r) = Route(s)
  BY <1>1, SameRoute
<1>5. why \in {"all_tasks_processed", "tool_budget_exhausted", "deadline_exceeded", "dependency_blocked"}
  BY DEF Justified
<1>6. Done(r)
  BY <1>1, <1>5 DEF Done, NoneAssumption, Reasons
<1>7. Bare(r)
  <2>1. s.plan = <<>> => Processed(s)
    BY NoPlanNoWork
  <2>2. s.plan = <<>> => why = "all_tasks_processed"
    BY <2>1 DEF Justified
  <2> QED
    BY <1>1, <1>3, <1>6, <2>2 DEF Bare
<1>8. Stops(r, overdue)
  BY <1>1, <1>2 DEF Stops, Justified
<1>9. TrueReason(r, res, s.count, overdue)
  BY <1>1, <1>2, <1>5 DEF TrueReason, Justified
<1>10. Settled(r, res, s.count, overdue)
  BY <1>1, <1>3, <1>4, <1>5, <1>6, <1>8, <1>9 DEF Settled
<1>11. SpecsAreKnown(r)
  BY <1>1, SpecsStay
<1> QED
  BY <1>1, <1>3, <1>6, <1>7, <1>10, <1>11

LEMMA ValidatedIsSettled ==
    ASSUME HarnessAssumption, NEW s \in State, NEW r \in State,
           r = [s EXCEPT !.missing = Missing(s)], NEW res, NEW paid, NEW overdue,
           SpecsAreKnown(s), Bare(s), Settled(s, res, paid, overdue), Done(s)
    PROVE  /\ SpecsAreKnown(r) /\ Bare(r) /\ Settled(r, res, paid, overdue) /\ Done(r)
           /\ r.plan = s.plan /\ r.missing = Missing(r)
<1>1. /\ r.plan = s.plan /\ r.specs = s.specs /\ r.status = s.status /\ r.got = s.got /\ r.count = s.count
      /\ r.rounds = s.rounds /\ r.missing = Missing(s) /\ r.answer = s.answer /\ r.reason = s.reason
  BY DEF State
<1>2. /\ Processed(r) <=> Processed(s)
      /\ SelectWave(r) = {} <=> SelectWave(s) = {}
  BY <1>1, SameWork
<1>3. Missing(r) = Missing(s) /\ AnswerStatus(r) = AnswerStatus(s)
  BY <1>1, SameEvidence
<1>4. s.answer # None => r.missing = s.missing /\ Route(r) = Route(s)
  BY <1>1, SameRoute DEF Settled
<1>5. Done(r)
  BY <1>1 DEF Done
<1>6. Bare(r)
  BY <1>1, <1>3, <1>5, NoPlanNoWork DEF Bare
<1>7. Stops(r, overdue)
  BY <1>1, <1>2 DEF Stops, Settled
<1>8. TrueReason(r, res, paid, overdue)
  BY <1>1, <1>2, <1>4 DEF TrueReason, Settled
<1>9. Settled(r, res, paid, overdue)
  BY <1>1, <1>3, <1>4, <1>5, <1>7, <1>8 DEF Settled
<1>10. SpecsAreKnown(r)
  BY <1>1, SpecsStay
<1> QED
  BY <1>1, <1>3, <1>5, <1>6, <1>9, <1>10

Rendered(s) == [s EXCEPT !.answer = AnswerStatus(s), !.reason = FinalReason(s)]

LEMMA RenderedIsSettled ==
    ASSUME HarnessAssumption, NoneAssumption, NEW s \in State, NEW r \in State,
           r = Rendered(s),
           NEW res, NEW paid, NEW overdue,
           SpecsAreKnown(s), Bare(s), Settled(s, res, paid, overdue), Done(s),
           s.missing = Missing(s), Route(s) = "render_answer"
    PROVE  /\ SpecsAreKnown(r) /\ Bare(r) /\ Settled(r, res, paid, overdue) /\ Done(r)
           /\ r.plan = s.plan /\ r.missing = Missing(r)
<1>1. /\ r.plan = s.plan /\ r.specs = s.specs /\ r.status = s.status /\ r.got = s.got /\ r.count = s.count
      /\ r.rounds = s.rounds /\ r.missing = s.missing /\ r.answer = AnswerStatus(s) /\ r.reason = FinalReason(s)
      /\ s.rounds \in Nat /\ s.rounds <= MaxRounds /\ MaxRounds \in Nat
  BY DEF State, HarnessAssumption, Rendered
<1>2. /\ Processed(r) <=> Processed(s)
      /\ SelectWave(r) = {} <=> SelectWave(s) = {}
  BY <1>1, SameWork
<1>3. Missing(r) = Missing(s) /\ AnswerStatus(r) = AnswerStatus(s)
  BY <1>1, SameEvidence
<1>4. Route(r) = Route(s)
  BY <1>1, SameRoute
<1>5. \/ FinalReason(s) = s.reason
      \/ FinalReason(s) = "iteration_budget_exhausted" /\ s.missing # {} /\ s.rounds = MaxRounds
      \/ FinalReason(s) = "no_remediation_spec" /\ s.missing # {} /\ NewSpecs(s) = <<>>
  BY <1>1 DEF FinalReason
<1>6. Done(r)
  BY <1>1, <1>5 DEF Done, NoneAssumption, Reasons
<1>7. NewSpecs(s) = <<>> => Ids(s.specs) \subseteq Ids(s.plan)
  <2> SUFFICES ASSUME NewSpecs(s) = <<>>, NEW f \in ToSet(s.specs) PROVE f.id \in Ids(s.plan)
    BY DEF Ids
  <2>1. ToSet(NewSpecs(s)) = {}
    BY DEF ToSet
  <2>2. ~(f.source \notin {t.source : t \in ToSet(s.plan)} /\ f.id \notin Ids(s.plan))
    BY <2>1, PlansAreTyped
  <2> QED
    BY <2>2 DEF SpecsAreKnown
<1>8. Bare(r)
  BY <1>1, <1>3, <1>5, <1>6 DEF Bare
<1>9. Stops(r, overdue)
  BY <1>1, <1>2 DEF Stops, Settled
<1>10. TrueReason(r, res, paid, overdue)
  BY <1>1, <1>2, <1>5, <1>7 DEF TrueReason, Settled
<1>11. r.answer # None
  BY <1>1 DEF AnswerStatus, NoneAssumption, Verdicts
<1>12. Settled(r, res, paid, overdue)
  BY <1>1, <1>3, <1>4, <1>6, <1>9, <1>10, <1>11 DEF Settled
<1>13. SpecsAreKnown(r)
  BY <1>1, SpecsStay
<1> QED
  BY <1>1, <1>3, <1>6, <1>8, <1>12, <1>13

\* A remediation asks something new, and answers nothing.
LEMMA RemediatedIsSettled ==
    ASSUME HarnessAssumption, NoneAssumption, NEW s \in State, NEW r \in State,
           r = Remediated(s), NEW res, NEW paid, NEW overdue,
           SpecsAreKnown(s), Settled(s, res, paid, overdue), Route(s) = "remediate"
    PROVE  /\ SpecsAreKnown(r) /\ Bare(r) /\ Settled(r, res, paid, overdue) /\ ~Done(r)
           /\ Ids(s.plan) \subseteq Ids(r.plan) /\ ~(Ids(r.plan) \subseteq Ids(s.plan))
<1> DEFINE new == NewSpecs(s)
<1>1. /\ r.plan = s.plan \o new /\ r.specs = s.specs /\ r.answer = s.answer
      /\ r.reason = "remediation_scheduled" /\ s.plan \in Seq(PlanTasks)
  BY DEF State, Remediated
<1>2. /\ new \in Seq(PlanTasks)
      /\ \A f : f \in ToSet(new) <=> /\ f \in ToSet(s.specs) /\ f.id \notin Ids(s.plan)
                                     /\ f.source \notin {t.source : t \in ToSet(s.plan)}
  BY PlansAreTyped
<1>3. new # <<>>
  BY DEF Route
<1> HIDE DEF new
<1>4. ToSet(r.plan) = ToSet(s.plan) \cup ToSet(new)
  <2>1. s.plan \in Seq(PlanTasks) /\ new \in Seq(PlanTasks)
    BY <1>1, <1>2
  <2>2. ToSet(s.plan \o new) = ToSet(s.plan) \cup ToSet(new)
    BY <2>1, JoinedList
  <2> QED
    BY <1>1, <2>2
<1>5. PICK f \in ToSet(new) : TRUE
  <2>1. DOMAIN new = 1..Len(new) /\ 1 \in 1..Len(new)
    BY <1>2, <1>3
  <2> QED
    BY <2>1 DEF ToSet
<1>6. Ids(s.plan) \subseteq Ids(r.plan) /\ f.id \in Ids(r.plan) /\ f.id \notin Ids(s.plan)
  BY <1>2, <1>4, <1>5 DEF Ids
<1>7. SpecsAreKnown(r)
  <2> SUFFICES ASSUME NEW g \in ToSet(s.specs), NEW t \in ToSet(r.plan), t.source = g.source
               PROVE  g.id \in Ids(r.plan)
    BY <1>1 DEF SpecsAreKnown
  <2>1. CASE t \in ToSet(s.plan)
    BY <1>6, <2>1 DEF SpecsAreKnown
  <2>2. CASE t \in ToSet(new) /\ g.id \notin Ids(s.plan)
    <3>1. g \in ToSet(new)
      BY <1>2, <2>2
    <3> QED
      BY <1>4, <3>1 DEF Ids
  <2> QED
    BY <1>4, <1>6, <2>1, <2>2
<1>8. s.answer = None /\ ~Done(r)
  BY <1>1 DEF Settled, Done
<1>9. Settled(r, res, paid, overdue)
  BY <1>1, <1>8, UnfinishedIsSettled
<1>10. r.plan # <<>>
  BY <1>6, PlanHasIds
<1> QED
  BY <1>6, <1>7, <1>8, <1>9, <1>10 DEF Bare

\* Recovery leaves a state whose loop has ended as it is.
LEMMA EndedCopyIsKept ==
    ASSUME HarnessAssumption, NoneAssumption, CallInv, NEW s \in State, Honest(s),
           Done(s), Settled(s, results, Reserved, late)
    PROVE  Restored([s EXCEPT !.count = Larger(@, Reserved)]) = s
<1>1. PICK r : r = Restored([s EXCEPT !.count = Larger(@, Reserved)])
  OBVIOUS
<1>2. /\ r \in State /\ r.count = Reserved
      /\ \A t \in AllIds : r.got[t] = results[t] /\ r.status[t] = StatusOf(results[t])
      /\ r = [s EXCEPT !.got = r.got, !.status = r.status, !.count = r.count]
  BY <1>1, CopyIsRestored
<1>3. s.got = results /\ s.count = Reserved
  BY DEF Settled
<1>4. \A t \in AllIds : s.status[t] = StatusOf(results[t])
  BY <1>3 DEF Honest
<1>5. r.got = s.got
  BY <1>2, <1>3 DEF State
<1>6. r.status = s.status
  BY <1>2, <1>4 DEF State
<1>7. r = [s EXCEPT !.got = s.got, !.status = s.status, !.count = s.count]
  BY <1>2, <1>3, <1>5, <1>6
<1>8. r = s
  BY <1>7 DEF State
<1> QED
  BY <1>1, <1>8

-----------------------------------------------------------------------------
(* The steps keep the invariant of the answer.                              *)

LEMMA AnswersAreCopied ==
    ASSUME AnswerInv, SpecsAreKnown(st'), Bare(st'), \A s \in Held' : s \in Held \/ s = st'
    PROVE  \A s \in Held' : SpecsAreKnown(s) /\ Bare(s)
BY DEF AnswerInv

LEMMA NodeKeepsAnswers ==
    ASSUME HarnessAssumption, NoneAssumption, CallInv, AnswerInv,
           NEW node \in Nodes \ {"start"}, NEW s \in State, EndNode(node, s), InWave = {},
           SpecsAreKnown(s), Bare(s), Settled(s, results, Reserved, late), Ids(st.plan) \subseteq Ids(s.plan),
           \/ node \in Planning /\ s = st
           \/ node = "build_plan"
           \/ /\ node \in Executed /\ Done(s) /\ Ids(s.plan) = Ids(st.plan)
              /\ IF node = "execute_ready_tasks" THEN st.missing = Missing(st) => s.missing = Missing(s)
                 ELSE s.missing = Missing(s)
           \/ node = "remediate" /\ ~(Ids(s.plan) \subseteq Ids(st.plan))
    PROVE  AnswerInv'
<1>1. /\ pc = node /\ st' = s /\ ledger' = s /\ pc' = After(node, s) /\ stop' = None
      /\ puts' = Append(puts, [node |-> node, st |-> s])
      /\ UNCHANGED <<request, wave, late, calls, results, saved, crashes>>
  BY DEF EndNode
<1>2. TypeOK /\ st \in State /\ s # None /\ Alive
  BY <1>1 DEF CallInv, TypeOK, Nodes, NoneAssumption, Alive
<1>3. PICK new : new = [node |-> node, st |-> s]
  OBVIOUS
<1>4. Checkpoints' = Checkpoints \cup {new} /\ new.node = node /\ new.st = s
  BY <1>1, <1>2, <1>3, NodeCopies
<1>5. \A x \in Held' : x \in Held \/ x = st'
  BY <1>1, <1>4 DEF Held
<1>6. Reserved' = Reserved /\ InWave' = InWave
  BY <1>1, QuietResults DEF InWave
<1>7. LedgerIds' = Ids(s.plan) /\ LedgerIds = Ids(st.plan) /\ Planned' = (s.plan # <<>>)
  BY <1>1, <1>2 DEF LedgerIds, Planned, AnswerInv, PlansGrow
<1>8. /\ Route(s) \in {"remediate", "render_answer"}
      /\ pc' = "render_answer" => node = "validate_evidence" /\ Route(s) = "render_answer"
      /\ pc' \in {"validate_evidence", "remediate", "render_answer", "persist_turn", "finish", "finished"}
            => node \in Executed
      /\ pc' \in {"render_answer", "persist_turn", "finish", "finished"} => node \in Executed \ {"execute_ready_tasks"}
      /\ pc' \in Planning \cup {"build_plan"} => node \in Planning
      /\ pc' \notin {"down", "refused"}
  <2>1. Route(s) \in {"remediate", "render_answer"}
    BY DEF Route
  <2> QED
    BY <1>1, <2>1 DEF After, Nodes, Planning, Executed
<1>9. Settled(st, results, Reserved, late)' /\ Settled(ledger, results, Reserved, late)'
  BY <1>1, <1>6
<1>10. StopIsLate'
  BY <1>1, <1>6 DEF StopIsLate, AnswerInv
<1>11. PlansGrow'
  <2>1. Alive' /\ Ids(st'.plan) = LedgerIds'
    BY <1>1, <1>7, <1>8 DEF Alive
  <2>2. node \in Planning => Blank(s) /\ \A c \in Checkpoints : c.node \in Planning
    BY <1>1 DEF AnswerInv, PlansGrow, Planning, Executed
  <2>3. ASSUME NEW c \in Checkpoints' PROVE Ids(c.st.plan) \subseteq LedgerIds' /\ (c.node \in Planning => Blank(c.st))
    BY <1>4, <1>7, <2>2 DEF AnswerInv, PlansGrow
  <2>4. pc' \in Planning \cup {"build_plan"} => Blank(st') /\ \A c \in Checkpoints' : c.node \in Planning
    BY <1>1, <1>4, <1>8, <2>2
  <2> QED
    BY <2>1, <2>3, <2>4 DEF PlansGrow
<1>12. DoneStays'
  <2>1. node \in Executed => Done(s) /\ Ids(s.plan) = Ids(st.plan)
    BY DEF Executed, Planning
  <2>2. node \in Executed \ {"execute_ready_tasks"} => s.missing = Missing(s)
    BY DEF Executed, Planning
  <2>3. ASSUME NEW c \in Checkpoints', c.node \in Executed
        PROVE  /\ c.st.plan = <<>> => Done(c.st)
               /\ SameAsLedger(c)' => Done(s) /\ (c.node # "execute_ready_tasks" => s.missing = Missing(s))
    <3>1. CASE c = new
      BY <1>4, <2>1, <2>2, <2>3, <3>1
    <3>2. CASE c \in Checkpoints
      <4>1. c.st.plan = <<>> => Done(c.st)
        BY <2>3, <3>2 DEF AnswerInv, DoneStays
      <4>2. SameAsLedger(c)' => s.plan # <<>> /\ Ids(c.st.plan) = Ids(s.plan)
        BY <1>1, <1>7 DEF SameAsLedger
      <4>3. Ids(c.st.plan) \subseteq Ids(st.plan)
        BY <1>7, <3>2 DEF AnswerInv, PlansGrow
      <4>4. CASE node \in Planning \cup {"build_plan"}
        <5>1. c.node \in Planning
          BY <1>1, <3>2, <4>4 DEF AnswerInv, PlansGrow
        <5> QED
          BY <2>3, <5>1 DEF Planning, Executed
      <4>5. CASE node = "remediate"
        BY <4>1, <4>2, <4>3, <4>5 DEF Planning, Executed
      <4>6. CASE node \in Executed
        <5>1. ledger # None /\ ledger \in State
          BY <1>1, <1>2, <4>6 DEF CallInv, NothingBeforeTheLedger, Executed, TypeOK
        <5>2. SameAsLedger(c)' => SameAsLedger(c)
          <6>1. Ids(ledger.plan) = Ids(s.plan)
            BY <1>7, <2>1, <4>6, <5>1 DEF LedgerIds
          <6>2. s.plan # <<>> => ledger.plan # <<>>
            BY <5>1, <6>1, PlanHasIds
          <6> QED
            BY <4>2, <5>1, <6>1, <6>2 DEF SameAsLedger, Planned
        <5>3. SameAsLedger(c) => /\ Done(ledger) /\ st = ledger
                                 /\ c.node # "execute_ready_tasks" => ledger.missing = Missing(ledger)
          BY <1>2, <2>3, <3>2 DEF AnswerInv, DoneStays, SameAsLedger
        <5>4. SameAsLedger(c)' /\ c.node # "execute_ready_tasks" => s.missing = Missing(s)
          BY <2>2, <4>6, <5>2, <5>3 DEF Planning
        <5> QED
          BY <2>1, <4>1, <4>6, <5>4
      <4> QED
        BY <4>4, <4>5, <4>6
    <3> QED
      BY <1>4, <3>1, <3>2
  <2> QED
    BY <1>1, <1>6, <1>8, <2>1, <2>2, <2>3 DEF DoneStays
<1>13. \A x \in Held' : SpecsAreKnown(x) /\ Bare(x)
  BY <1>1, <1>5, AnswersAreCopied
<1> QED
  BY <1>9, <1>10, <1>11, <1>12, <1>13 DEF AnswerInv

LEMMA StartKeepsAnswers ==
    ASSUME HarnessAssumption, NoneAssumption, CallInv, AnswerInv, Start
    PROVE  AnswerInv'
<1>1. /\ pc = "start" /\ st' = Fresh /\ pc' = "load_session"
      /\ puts' = Append(puts, [node |-> "start", st |-> Fresh])
      /\ UNCHANGED <<request, wave, stop, late, calls, results, ledger, saved, crashes>>
  BY DEF Start
<1>2. /\ TypeOK /\ ledger = None /\ Checkpoints = {} /\ stop = None /\ InWave = {}
      /\ Fresh \in State /\ "start" \in Nodes
  BY <1>1 DEF CallInv, TypeOK, NothingBeforeTheLedger, AnswerInv, StopIsLate, Executing,
              Fresh, State, HarnessAssumption, Nodes
<1>3. PICK new : new = [node |-> "start", st |-> Fresh]
  OBVIOUS
<1>4. Checkpoints' = {new} /\ new.node = "start" /\ new.st = Fresh
  BY <1>1, <1>2, <1>3, NodeCopies
<1>5. \A x \in Held' : x \in Held \/ x = st'
  BY <1>1, <1>4 DEF Held
<1>6. Blank(Fresh) /\ ~Done(Fresh) /\ SpecsAreKnown(Fresh) /\ Bare(Fresh)
  BY DEF Fresh, Blank, Done, SpecsAreKnown, Bare, ToSet
<1>7. Settled(st, results, Reserved, late)'
  BY <1>1, <1>6, UnfinishedIsSettled DEF Blank
<1>8. StopIsLate'
  BY <1>1, <1>2 DEF AnswerInv, StopIsLate, InWave
<1>9. PlansGrow' /\ DoneStays' /\ ~Planned'
  <2>1. Ids(<<>>) = {}
    BY DEF Ids, ToSet
  <2> QED
    BY <1>1, <1>2, <1>4, <1>6, <2>1 DEF PlansGrow, DoneStays, Planned, LedgerIds, Alive, Planning, Executed,
        SameAsLedger, Blank
<1>10. \A x \in Held' : SpecsAreKnown(x) /\ Bare(x)
  BY <1>1, <1>5, <1>6, AnswersAreCopied
<1> QED
  BY <1>7, <1>8, <1>9, <1>10 DEF AnswerInv

\* The reason execute_ready_tasks stops for.
LEMMA StopIsJustified ==
    ASSUME NoneAssumption, AnswerInv, NEW why, why = IF stop # None THEN stop ELSE StopReason(st), why # None,
           stop \in {None, "deadline_exceeded"}
    PROVE  Justified(why, st, results, late)
<1>1. CASE stop # None
  <2>1. why = "deadline_exceeded" /\ late /\ st.plan # <<>> /\ \E t \in AllIds : results[t] = "late"
    BY <1>1 DEF AnswerInv, StopIsLate
  <2> QED
    BY <2>1 DEF Justified
<1>2. CASE stop = None
  <2>1. \/ why = "all_tasks_processed" /\ Processed(st)
        \/ why = "tool_budget_exhausted" /\ ~Processed(st) /\ st.count >= MaxToolCalls
        \/ why = "deadline_exceeded" /\ late /\ ~Processed(st)
        \/ why = "dependency_blocked" /\ ~Processed(st) /\ SelectWave(st) = {}
    BY <1>2 DEF StopReason
  <2> QED
    BY <2>1 DEF Justified
<1> QED
  BY <1>1, <1>2

LEMMA GraphKeepsAnswers ==
    ASSUME HarnessAssumption, NoneAssumption, CallInv, AnswerInv,
           LoadSession \/ ResolveTurn \/ BuildPlan \/ ExecuteReadyTasks \/ ValidateEvidence
           \/ Remediate \/ RenderAnswer \/ PersistTurn
    PROVE  AnswerInv'
<1>1. TypeOK /\ st \in State /\ request \in Requests /\ stop \in {None, "deadline_exceeded"}
  BY DEF CallInv, TypeOK
<1>2. st \in Held
  BY <1>1, CopiesAreTyped
<1>3. SpecsAreKnown(st) /\ Bare(st) /\ (Alive => Settled(st, results, Reserved, late))
  BY <1>2 DEF AnswerInv
<1>4. pc # "execute_ready_tasks" => InWave = {}
  BY <1>1 DEF TypeOK, Executing
<1>5. CASE LoadSession
  BY <1>1, <1>3, <1>4, <1>5, NodeKeepsAnswers DEF LoadSession, EndNode, Nodes, Planning, Alive
<1>6. CASE ResolveTurn
  BY <1>1, <1>3, <1>4, <1>6, NodeKeepsAnswers DEF ResolveTurn, EndNode, Nodes, Planning, Alive
<1>7. CASE BuildPlan
  <2>1. PICK s : s = [st EXCEPT !.plan = Plan(request), !.specs = Fallbacks(Plan(request))]
    OBVIOUS
  <2>2. s \in State /\ EndNode("build_plan", s) /\ pc = "build_plan"
    BY <1>7, <2>1, NodesAreTyped DEF BuildPlan, EndNode
  <2>3. Blank(st) /\ st.missing = {}
    BY <1>3, <2>2 DEF AnswerInv, PlansGrow, Blank, Bare
  <2>4. /\ s.plan = Plan(request) /\ s.specs = Fallbacks(Plan(request)) /\ s.reason = None
        /\ s.answer = None /\ s.missing = {}
    BY <1>1, <2>1, <2>3 DEF State, Blank
  <2>5. SpecsAreKnown(s)
    BY <1>1, <2>4, PlanIsTyped DEF SpecsAreKnown
  <2>6. Bare(s) /\ ~Done(s)
    BY <2>4 DEF Bare, Done
  <2>7. Settled(s, results, Reserved, late)
    BY <2>4, <2>6, UnfinishedIsSettled
  <2>8. Ids(st.plan) = {}
    BY <1>1, <2>3, PlanHasIds DEF Blank
  <2>9. InWave = {} /\ "build_plan" \in Nodes \ {"start"}
    BY <1>4, <2>2 DEF Nodes
  <2> QED
    BY <2>2, <2>5, <2>6, <2>7, <2>8, <2>9, NodeKeepsAnswers
<1>8. CASE ExecuteReadyTasks
  <2>1. PICK why : why = IF stop # None THEN stop ELSE StopReason(st)
    OBVIOUS
  <2>2. PICK s : s = Ended(st, why)
    OBVIOUS
  <2>3. EndNode("execute_ready_tasks", s) /\ pc = "execute_ready_tasks" /\ InWave = {} /\ why # None
    BY <1>8, <2>1, <2>2 DEF ExecuteReadyTasks, EndNode, Ended
  <2>4. Justified(why, st, results, late)
    BY <1>1, <2>1, <2>3, StopIsJustified
  <2>5. s \in State
    <3>1. why \in Reasons
      BY <2>4 DEF Justified, Reasons
    <3> QED
      BY <2>2, <3>1, NodesAreTyped
  <2>6. st.got = results /\ st.count = Reserved /\ st.count <= MaxToolCalls
    <3>1. Alive /\ Called = {} /\ Cardinality({}) = 0
      BY <2>3, FS_EmptySet DEF Alive, Called
    <3>2. st.count = Reserved /\ st.count <= MaxToolCalls
      BY <1>1, <2>3, <3>1 DEF CallInv, CallsArePaid, State
    <3>3. \A t \in AllIds : st.got[t] = results[t]
      BY <2>3, <3>1 DEF CallInv, WavesAreAccounted, InWave
    <3>4. st.got = results
      BY <1>1, <3>3 DEF State, TypeOK
    <3> QED
      BY <3>2, <3>4
  <2>7. /\ SpecsAreKnown(s) /\ Bare(s) /\ Settled(s, results, Reserved, late) /\ Done(s)
        /\ s.plan = st.plan /\ Missing(s) = Missing(st) /\ s.missing = st.missing
    <3>1. Settled(st, results, st.count, late)
      BY <1>3, <2>3, <2>6 DEF Alive
    <3> QED
      BY <1>1, <1>3, <2>2, <2>4, <2>5, <2>6, <3>1, LoopEndIsSettled
  <2> QED
    BY <2>3, <2>5, <2>7, NodeKeepsAnswers DEF Nodes, Executed
<1>9. CASE ValidateEvidence
  <2>1. PICK s : s = [st EXCEPT !.missing = Missing(st)]
    OBVIOUS
  <2>2. s \in State /\ EndNode("validate_evidence", s) /\ pc = "validate_evidence"
    BY <1>9, <2>1, NodesAreTyped DEF ValidateEvidence, EndNode
  <2>3. Done(st) /\ Settled(st, results, Reserved, late) /\ InWave = {}
    BY <1>3, <1>4, <2>2 DEF AnswerInv, DoneStays, Alive
  <2>4. /\ SpecsAreKnown(s) /\ Bare(s) /\ Settled(s, results, Reserved, late) /\ Done(s)
        /\ s.plan = st.plan /\ s.missing = Missing(s)
    BY <1>1, <1>3, <2>1, <2>2, <2>3, ValidatedIsSettled
  <2> QED
    BY <2>2, <2>3, <2>4, NodeKeepsAnswers DEF Nodes, Executed
<1>10. CASE Remediate
  <2>1. PICK s : s = Remediated(st)
    OBVIOUS
  <2>2. s \in State /\ EndNode("remediate", s) /\ pc = "remediate"
    BY <1>10, <2>1, NodesAreTyped DEF Remediate, Remediated, EndNode
  <2>3. Settled(st, results, Reserved, late) /\ InWave = {} /\ Route(st) = "remediate"
    BY <1>3, <1>4, <2>2 DEF CallInv, RoutesAreFollowed, Alive
  <2>4. /\ SpecsAreKnown(s) /\ Bare(s) /\ Settled(s, results, Reserved, late)
        /\ Ids(st.plan) \subseteq Ids(s.plan) /\ ~(Ids(s.plan) \subseteq Ids(st.plan))
    BY <1>1, <1>3, <2>1, <2>2, <2>3, RemediatedIsSettled
  <2> QED
    BY <2>2, <2>3, <2>4, NodeKeepsAnswers DEF Nodes
<1>11. CASE RenderAnswer
  <2>1. PICK s : s = Rendered(st)
    OBVIOUS
  <2>2. s \in State /\ EndNode("render_answer", s) /\ pc = "render_answer"
    BY <1>11, <2>1, NodesAreTyped DEF RenderAnswer, EndNode, Rendered
  <2>3. /\ Done(st) /\ Settled(st, results, Reserved, late) /\ InWave = {}
        /\ st.missing = Missing(st) /\ Route(st) = "render_answer"
    BY <1>3, <1>4, <2>2 DEF AnswerInv, DoneStays, Alive
  <2>4. /\ SpecsAreKnown(s) /\ Bare(s) /\ Settled(s, results, Reserved, late) /\ Done(s)
        /\ s.plan = st.plan /\ s.missing = Missing(s)
    BY <1>1, <1>3, <2>1, <2>2, <2>3, RenderedIsSettled
  <2> QED
    BY <2>2, <2>3, <2>4, NodeKeepsAnswers DEF Nodes, Executed
<1>12. CASE PersistTurn
  <2>1. EndNode("persist_turn", st) /\ pc = "persist_turn"
    BY <1>12 DEF PersistTurn, EndNode
  <2>2. /\ Done(st) /\ Settled(st, results, Reserved, late) /\ InWave = {} /\ st.missing = Missing(st)
    BY <1>3, <1>4, <2>1 DEF AnswerInv, DoneStays, Alive
  <2> QED
    BY <1>1, <1>3, <2>1, <2>2, NodeKeepsAnswers DEF Nodes, Executed
<1> QED
  BY <1>5, <1>6, <1>7, <1>8, <1>9, <1>10, <1>11, <1>12

\* While calls are out, the loop has not ended and the ledger does not say so.
LEMMA WaveKeepsAnswers ==
    ASSUME NoneAssumption, CallInv, AnswerInv, pc = "execute_ready_tasks", ~Done(st),
           UNCHANGED <<pc, st, stop, ledger, saved, puts>>,
           \A t \in AllIds : results[t] # None => results'[t] = results[t],
           \A t \in AllIds : wave'[t] = "late" \/ results'[t] = "late" => late',
           late' = late, st.plan # <<>>
    PROVE  AnswerInv'
<1>1. Checkpoints' = Checkpoints /\ (\A x \in Held' : x \in Held \/ x = st') /\ st \in Held
  BY SameStores, CopiesAreTyped DEF CallInv
<1>2. \A x \in Held' : SpecsAreKnown(x) /\ Bare(x)
  BY <1>1, AnswersAreCopied DEF AnswerInv
<1>3. Alive /\ Alive' /\ Planned' = Planned /\ LedgerIds' = LedgerIds
  BY DEF Alive, Planned, LedgerIds
<1>4. Planned => ~Done(ledger)
  BY <1>3 DEF AnswerInv, DoneStays
<1>5. st.answer = None /\ (Planned => ledger.answer = None)
  BY <1>3, <1>4, UnfinishedIsSettled DEF AnswerInv
<1>6. Settled(st, results, Reserved, late)' /\ (Planned => Settled(ledger, results, Reserved, late)')
  BY <1>4, <1>5, UnfinishedIsSettled
<1>7. StopIsLate'
  BY DEF StopIsLate, AnswerInv, Executing
<1>8. PlansGrow'
  BY <1>1, <1>3 DEF PlansGrow, AnswerInv
<1>9. DoneStays'
  BY <1>1, <1>3, <1>4 DEF DoneStays, AnswerInv, SameAsLedger
<1> QED
  BY <1>2, <1>3, <1>6, <1>7, <1>8, <1>9 DEF AnswerInv

\* The calls of a wave.
LEMMA CallsKeepAnswers ==
    ASSUME HarnessAssumption, NoneAssumption, CallInv, AnswerInv, NEW t \in AllIds,
           CallTool(t) \/ ToolOverruns(t) \/ RecordOverrun(t) \/ \E k \in Kinds : ToolReturns(t, k)
    PROVE  AnswerInv'
<1>1. /\ wave[t] \in {"starting", "calling", "late"}
      /\ UNCHANGED <<pc, st, stop, late, ledger, saved, puts>>
  BY DEF CallTool, ToolOverruns, RecordOverrun, ToolReturns, durable
<1>2. /\ TypeOK /\ t \in InWave /\ InWave # {} /\ pc = "execute_ready_tasks" /\ results[t] = None
      /\ late \in BOOLEAN /\ wave \in [AllIds -> {"idle", "starting", "calling", "late", "answered"}]
      /\ results \in [AllIds -> AllKinds \cup {"late", None}]
  BY <1>1 DEF CallInv, TypeOK, InWave, Executing, WavesAreAccounted
<1>3. ~Done(st) /\ st.plan # <<>>
  BY <1>2 DEF AnswerInv, DoneStays, StopIsLate, Alive
<1>4. \A u \in AllIds : results[u] # None => results'[u] = results[u]
  BY <1>2 DEF CallTool, ToolOverruns, RecordOverrun, ToolReturns, durable
<1>5. \A u \in AllIds : wave'[u] = "late" \/ results'[u] = "late" => late'
  <2>1. \A u \in AllIds : wave[u] = "late" \/ results[u] = "late" => late
    BY DEF AnswerInv, StopIsLate
  <2>2. CASE CallTool(t)
    BY <1>2, <2>1, <2>2 DEF CallTool, Move
  <2>3. CASE ToolOverruns(t)
    BY <1>2, <2>1, <2>3 DEF ToolOverruns, Move, durable
  <2>4. CASE RecordOverrun(t)
    BY <1>2, <2>1, <2>4 DEF RecordOverrun, Move
  <2>5. CASE \E k \in Kinds : ToolReturns(t, k)
    <3>1. "late" \notin Kinds
      BY DEF HarnessAssumption, AllKinds
    <3> QED
      BY <1>2, <2>1, <2>5, <3>1 DEF ToolReturns, Move
  <2> QED
    BY <2>2, <2>3, <2>4, <2>5
<1> QED
  BY <1>1, <1>2, <1>3, <1>4, <1>5, WaveKeepsAnswers

LEMMA StartWaveKeepsAnswers ==
    ASSUME HarnessAssumption, NoneAssumption, CallInv, AnswerInv, StartWave
    PROVE  AnswerInv'
<1>1. /\ pc = "execute_ready_tasks" /\ StopReason(st) = None
      /\ wave' = [t \in AllIds |-> IF t \in {u.id : u \in SelectWave(st)} THEN "starting" ELSE "idle"]
      /\ UNCHANGED <<pc, st, stop, late, calls, results, ledger, saved, puts>>
  BY DEF StartWave, Executing, durable
<1>2. st \in State /\ Alive
  BY <1>1 DEF CallInv, TypeOK, Alive
<1>3. ~Stops(st, late)
  BY <1>1 DEF StopReason, Stops, NoneAssumption, Reasons
<1>4. ~Done(st)
  BY <1>2, <1>3 DEF AnswerInv, Settled
<1>5. st.plan # <<>>
  BY <1>2, <1>3, NoPlanNoWork DEF Stops
<1>6. \A u \in AllIds : wave'[u] = "late" \/ results'[u] = "late" => late'
  BY <1>1 DEF AnswerInv, StopIsLate
<1> QED
  BY <1>1, <1>4, <1>5, <1>6, WaveKeepsAnswers

LEMMA EndWaveKeepsAnswers ==
    ASSUME HarnessAssumption, NoneAssumption, CallInv, AnswerInv, CallInv', EndWave
    PROVE  AnswerInv'
<1>1. /\ InWave # {} /\ \A t \in InWave : wave[t] = "answered"
      /\ st' = [WithResults(st, InWave) EXCEPT !.count = @ + Cardinality(InWave)]
      /\ stop' = IF \E t \in InWave : results[t] = "late" THEN "deadline_exceeded" ELSE None
      /\ wave' = [t \in AllIds |-> "idle"]
      /\ UNCHANGED <<pc, late, calls, results, ledger, saved, puts>>
  BY DEF EndWave, durable
<1>2. /\ TypeOK /\ st \in State /\ st' \in State /\ pc = "execute_ready_tasks" /\ Alive /\ Alive'
      /\ InWave' = {} /\ InWave \in SUBSET AllIds
  BY <1>1 DEF CallInv, TypeOK, Executing, Alive, InWave
<1>3. ~Done(st) /\ st.plan # <<>>
  BY <1>1, <1>2 DEF AnswerInv, DoneStays, StopIsLate
<1>4. /\ st'.plan = st.plan /\ st'.specs = st.specs /\ st'.missing = st.missing
      /\ st'.reason = st.reason /\ st'.answer = st.answer
  <2>1. \A t \in InWave : results[t] # None
    BY <1>1, <1>2 DEF CallInv, WavesAreAccounted
  <2>2. PICK r : r = WithResults(st, InWave)
    OBVIOUS
  <2>3. r \in State /\ r = [st EXCEPT !.got = r.got, !.status = r.status]
    BY <1>2, <2>1, <2>2, ResultsAreTaken
  <2>4. st' = [r EXCEPT !.count = @ + Cardinality(InWave)]
    BY <1>1, <2>2
  <2> QED
    BY <1>2, <2>3, <2>4 DEF State
<1>5. Checkpoints' = Checkpoints /\ (\A x \in Held' : x \in Held \/ x = st') /\ st \in Held
  BY <1>1, <1>2, SameStores, CopiesAreTyped
<1>6. SpecsAreKnown(st') /\ Bare(st') /\ ~Done(st')
  <2>1. SpecsAreKnown(st)
    BY <1>5 DEF AnswerInv
  <2> QED
    BY <1>3, <1>4, <2>1, SpecsStay DEF Bare, Done
<1>7. \A x \in Held' : SpecsAreKnown(x) /\ Bare(x)
  BY <1>5, <1>6, AnswersAreCopied
<1>8. Planned' = Planned /\ LedgerIds' = LedgerIds /\ (Planned => ~Done(ledger))
  BY <1>1, <1>2, <1>3 DEF Planned, LedgerIds, AnswerInv, DoneStays
<1>9. st.answer = None /\ (Planned => ledger.answer = None)
  BY <1>2, <1>3, <1>8, UnfinishedIsSettled DEF AnswerInv
<1>10. Settled(st, results, Reserved, late)' /\ (Planned => Settled(ledger, results, Reserved, late)')
  BY <1>1, <1>4, <1>6, <1>8, <1>9, UnfinishedIsSettled
<1>11. StopIsLate'
  <2>1. \A t \in AllIds : results[t] = "late" => late
    BY DEF AnswerInv, StopIsLate
  <2>2. stop' # None => late /\ \E t \in AllIds : results[t] = "late"
    BY <1>1, <1>2, <2>1
  <2> QED
    BY <1>1, <1>2, <1>3, <1>4, <2>1, <2>2 DEF StopIsLate, Executing
<1>12. PlansGrow'
  BY <1>1, <1>2, <1>4, <1>5, <1>8 DEF PlansGrow, AnswerInv, Planning
<1>13. DoneStays'
  BY <1>1, <1>2, <1>5, <1>6, <1>8 DEF DoneStays, AnswerInv, SameAsLedger
<1> QED
  BY <1>7, <1>8, <1>10, <1>11, <1>12, <1>13 DEF AnswerInv

\* Steps that change neither the state of the run nor its event log.
LEMMA QuietKeepsAnswers ==
    ASSUME NoneAssumption, CallInv, AnswerInv, UNCHANGED <<st, ledger, calls, results, wave, stop>>,
           late => late', Checkpoints' \subseteq Checkpoints,
           \/ pc' = pc
           \/ pc = "finish" /\ pc' = "finished"
           \/ pc = "down" /\ pc' = "refused"
           \/ pc = "down" /\ pc' = "start" /\ ledger = None /\ Checkpoints = {}
    PROVE  AnswerInv'
<1>1. (\A x \in Held' : x \in Held \/ x = st') /\ st \in Held
  BY StoresStay, CopiesAreTyped DEF CallInv
<1>2. \A x \in Held' : SpecsAreKnown(x) /\ Bare(x)
  BY <1>1, AnswersAreCopied DEF AnswerInv
<1>3. Reserved' = Reserved /\ InWave' = InWave
  BY QuietResults DEF InWave
<1>4. Planned' = Planned /\ LedgerIds' = LedgerIds
  BY DEF Planned, LedgerIds
<1>5. Alive => Settled(st, results, Reserved, late)'
  BY <1>3, MoreTime DEF AnswerInv
<1>6. Planned => Settled(ledger, results, Reserved, late)'
  BY <1>3, MoreTime DEF AnswerInv
<1>7. StopIsLate'
  <2>1. stop # None \/ InWave # {} => pc = "execute_ready_tasks"
    BY DEF CallInv, TypeOK, AnswerInv, StopIsLate, Executing
  <2> QED
    BY <1>3, <2>1 DEF StopIsLate, AnswerInv, Executing
<1>8. CASE pc' = "start" /\ pc = "down" /\ ledger = None /\ Checkpoints = {}
  <2>1. Blank(st) /\ ~Done(st) /\ ~Planned /\ LedgerIds = {} /\ Ids(<<>>) = {}
    BY <1>8 DEF AnswerInv, PlansGrow, Alive, Done, Blank, Planned, LedgerIds, Ids, ToSet
  <2>2. Settled(st, results, Reserved, late)'
    BY <2>1, UnfinishedIsSettled DEF Blank
  <2>3. PlansGrow' /\ DoneStays'
    BY <1>4, <1>8, <2>1 DEF PlansGrow, DoneStays, Alive, Blank
  <2> QED
    BY <1>2, <1>4, <2>1, <2>2, <2>3, <1>7 DEF AnswerInv
<1>9. CASE pc' # "start" \/ pc' = pc
  <2>1. PlansGrow'
    BY <1>4, <1>9 DEF PlansGrow, AnswerInv, Alive, Planning
  <2>2. DoneStays'
    BY <1>3, <1>4, <1>9 DEF DoneStays, AnswerInv, Alive, SameAsLedger
  <2>3. Alive' => Alive
    BY <1>9 DEF Alive
  <2> QED
    BY <1>2, <1>4, <1>5, <1>6, <1>7, <2>1, <2>2, <2>3 DEF AnswerInv
<1> QED
  BY <1>8, <1>9

LEMMA LossKeepsAnswers ==
    ASSUME HarnessAssumption, NoneAssumption, CallInv, AnswerInv, OwnerLost
    PROVE  AnswerInv'
<1>1. /\ pc' = "down" /\ st' = Fresh /\ wave' = [t \in AllIds |-> "idle"] /\ stop' = None
      /\ UNCHANGED <<late, calls, results, ledger>>
  BY DEF OwnerLost
<1>2. Checkpoints' \subseteq Checkpoints /\ \A x \in Held' : x \in Held \/ x = st'
  BY <1>1, LossKeepsCalls, StoresStay
<1>3. SpecsAreKnown(Fresh) /\ Bare(Fresh) /\ Blank(Fresh)
  BY DEF Fresh, Blank, SpecsAreKnown, Bare, ToSet
<1>4. \A x \in Held' : SpecsAreKnown(x) /\ Bare(x)
  BY <1>1, <1>2, <1>3, AnswersAreCopied
<1>5. Reserved' = Reserved /\ InWave' = {} /\ ~Alive'
  BY <1>1, QuietResults DEF InWave, Alive
<1>6. Planned' = Planned /\ LedgerIds' = LedgerIds
  BY <1>1 DEF Planned, LedgerIds
<1>7. Planned => Settled(ledger, results, Reserved, late)'
  BY <1>1, <1>5 DEF AnswerInv
<1>8. StopIsLate'
  BY <1>1, <1>5 DEF StopIsLate, AnswerInv
<1>9. PlansGrow'
  BY <1>1, <1>2, <1>3, <1>5, <1>6 DEF PlansGrow, AnswerInv, Planning
<1>10. DoneStays'
  BY <1>1, <1>2, <1>5, <1>6 DEF DoneStays, AnswerInv, SameAsLedger
<1> QED
  BY <1>4, <1>5, <1>6, <1>7, <1>8, <1>9, <1>10 DEF AnswerInv

LEMMA ResumeKeepsAnswers ==
    ASSUME HarnessAssumption, NoneAssumption, CallInv, AnswerInv, Resume
    PROVE  AnswerInv'
<1>1. /\ pc = "down" /\ saved # None /\ SamePlan /\ st' = Restored(Merged) /\ pc' = After(saved.node, st')
      /\ UNCHANGED <<wave, stop, late, calls, results, ledger, saved, puts>>
  BY DEF Resume, Recoverable, durable
<1>2. PICK s : s = LedgerState
  OBVIOUS
<1>3. s \in State /\ Honest(s) /\ s \in Held /\ saved \in Checkpoints /\ saved \in Checkpoint /\ saved.st \in State
  BY <1>1, <1>2, RecoverySource DEF Honest
<1>4. Merged = [s EXCEPT !.count = Larger(@, Reserved)]
  BY <1>2 DEF Merged
<1>5. /\ st' \in State /\ st'.count = Reserved /\ st'.got = results
      /\ st'.plan = s.plan /\ st'.specs = s.specs /\ st'.reason = s.reason /\ st'.answer = s.answer
      /\ st'.missing = s.missing /\ st'.rounds = s.rounds
  <2>1. PICK r : r = st'
    OBVIOUS
  <2>2. /\ r \in State /\ r.count = Reserved /\ \A t \in AllIds : r.got[t] = results[t]
        /\ r = [s EXCEPT !.got = r.got, !.status = r.status, !.count = r.count]
    BY <1>1, <1>3, <1>4, <2>1, CopyIsRestored
  <2>3. r.got = results
    BY <2>2 DEF State, CallInv, TypeOK
  <2> QED
    BY <1>3, <2>1, <2>2, <2>3 DEF State
<1>6. SpecsAreKnown(s) /\ Bare(s)
  BY <1>3 DEF AnswerInv
<1>7. Done(st') <=> Done(s)
  BY <1>5 DEF Done
<1>8. SpecsAreKnown(st') /\ Bare(st')
  <2>1. SpecsAreKnown(st')
    BY <1>5, <1>6, SpecsStay
  <2>2. s.plan = <<>> => AnswerStatus(st') = AnswerStatus(s)
    BY <1>3, <1>5, NoPlanNoWork
  <2> QED
    BY <1>5, <1>6, <1>7, <2>1, <2>2 DEF Bare
<1>9. Checkpoints' = Checkpoints /\ (\A x \in Held' : x \in Held \/ x = st')
  BY <1>1, SameStores
<1>10. \A x \in Held' : SpecsAreKnown(x) /\ Bare(x)
  BY <1>8, <1>9, AnswersAreCopied
<1>11. /\ Reserved' = Reserved /\ InWave = {} /\ InWave' = {} /\ stop = None /\ ~Alive
       /\ Checkpoints = {saved}
  <2>1. puts = <<>> /\ InWave = {} /\ stop = None /\ ~Alive
    BY <1>1 DEF CallInv, NothingBeforeTheLedger, TypeOK, Executing, Alive, AnswerInv, StopIsLate
  <2> QED
    BY <1>1, <2>1, QuietResults DEF InWave, Checkpoints, ToSet
<1>12. Planned' = Planned /\ LedgerIds' = LedgerIds
  BY <1>1 DEF Planned, LedgerIds
<1>13. Planned => Settled(ledger, results, Reserved, late)'
  BY <1>1, <1>11 DEF AnswerInv
<1>14. StopIsLate'
  BY <1>1, <1>11 DEF StopIsLate, AnswerInv
<1>15. /\ Route(st') \in {"remediate", "render_answer"} /\ Alive'
       /\ pc' \in Planning \cup {"build_plan"} => saved.node \in Planning
       /\ pc' \in {"validate_evidence", "remediate", "render_answer", "persist_turn", "finish", "finished"}
            => saved.node \in Executed
       /\ pc' \in {"render_answer", "persist_turn", "finish", "finished"}
            => saved.node \in Executed \ {"execute_ready_tasks"}
       /\ pc' = "render_answer" => Route(st') = "render_answer"
  <2>1. Route(st') \in {"remediate", "render_answer"}
    BY DEF Route
  <2>2. saved.node \in Nodes
    BY <1>3 DEF Checkpoint
  <2> QED
    BY <1>1, <2>1, <2>2 DEF After, Nodes, Planning, Executed, Alive
<1>16. CASE Planned
  <2>1. s = ledger /\ SameAsLedger(saved) /\ LedgerIds = Ids(s.plan) /\ s.plan # <<>>
    BY <1>1, <1>2, <1>16 DEF LedgerState, SameAsLedger, SamePlan, Planned, LedgerIds, Ids
  <2>2. saved.node \notin Planning
    <3>1. Ids(saved.st.plan) # {}
      BY <1>3, <2>1, PlanHasIds DEF SameAsLedger
    <3>2. saved.st.plan # <<>>
      BY <1>3, <3>1, PlanHasIds
    <3> QED
      BY <1>3, <3>2 DEF AnswerInv, PlansGrow, Blank
  <2>3. Settled(s, results, Reserved, late)
    BY <1>16, <2>1 DEF AnswerInv
  <2>4. Done(s) => st' = ledger
    BY <1>1, <1>3, <1>4, <2>1, <2>3, EndedCopyIsKept
  <2>5. Settled(st, results, Reserved, late)'
    <3>1. CASE Done(s)
      BY <1>1, <1>11, <2>1, <2>3, <2>4, <3>1
    <3>2. CASE ~Done(s)
      BY <1>5, <1>7, <2>3, <3>2, UnfinishedIsSettled
    <3> QED
      BY <3>1, <3>2
  <2>6. PlansGrow'
    BY <1>5, <1>9, <1>12, <1>15, <2>1, <2>2 DEF PlansGrow, AnswerInv
  <2>7. saved.node \in Executed => /\ Done(s) /\ st' = s
                                   /\ saved.node # "execute_ready_tasks" => s.missing = Missing(s)
    BY <1>3, <2>1, <2>4 DEF AnswerInv, DoneStays
  <2>8. DoneStays'
    BY <1>1, <1>7, <1>9, <1>11, <1>12, <1>15, <2>1, <2>4, <2>7 DEF DoneStays, AnswerInv, SameAsLedger
  <2> QED
    BY <1>10, <1>12, <1>13, <1>14, <1>16, <2>5, <2>6, <2>8 DEF AnswerInv
<1>17. CASE ~Planned
  <2>1. s = saved.st /\ LedgerIds = {}
    BY <1>2, <1>17 DEF LedgerState, Planned, LedgerIds, Ids, ToSet
  <2>2. s.plan = <<>>
    <3>1. Ids(s.plan) = {}
      BY <1>3, <2>1 DEF AnswerInv, PlansGrow
    <3> QED
      BY <1>3, <3>1, PlanHasIds
  <2>3. /\ Processed(st') /\ Missing(st') = {} /\ AnswerStatus(st') = "needs_review" /\ Ids(st'.plan) = {}
        /\ AnswerStatus(s) = "needs_review"
    BY <1>3, <1>5, <2>2, NoPlanNoWork, PlanHasIds
  <2>4. s.missing = {} /\ s.reason \in {None, "all_tasks_processed"} /\ Route(st') = "render_answer"
    BY <1>5, <1>6, <2>2 DEF Bare, Route
  <2>5. Settled(st, results, Reserved, late)'
    <3>1. Stops(st', late)
      BY <2>3 DEF Stops
    <3>2. Done(st') => TrueReason(st', results, Reserved, late)
      BY <1>5, <2>3, <2>4 DEF TrueReason, Done
    <3>3. s.reason \notin {"iteration_budget_exhausted", "no_remediation_spec"}
      BY <2>4 DEF NoneAssumption, Reasons
    <3>4. s.answer # None => Done(st') /\ s.answer = AnswerStatus(st')
      BY <1>6, <1>7, <2>2, <2>3 DEF Bare
    <3>5. Settled(st', results, Reserved, late)
      BY <1>5, <2>3, <2>4, <3>1, <3>2, <3>3, <3>4 DEF Settled
    <3> QED
      BY <1>1, <1>11, <3>5
  <2>6. PlansGrow'
    <3>1. saved.node \in Planning => Blank(s)
      BY <1>3, <2>1 DEF AnswerInv, PlansGrow
    <3>2. Blank(s) => Blank(st')
      BY <1>5 DEF Blank
    <3> QED
      BY <1>9, <1>11, <1>12, <1>15, <2>1, <2>3, <3>1, <3>2 DEF PlansGrow, AnswerInv
  <2>7. saved.node \in Executed => Done(st')
    BY <1>3, <1>7, <2>1, <2>2 DEF AnswerInv, DoneStays
  <2>8. DoneStays'
    BY <1>5, <1>9, <1>11, <1>12, <1>15, <1>17, <2>3, <2>4, <2>7 DEF DoneStays, SameAsLedger, AnswerInv
  <2> QED
    BY <1>10, <1>12, <1>14, <1>17, <2>5, <2>6, <2>8 DEF AnswerInv
<1> QED
  BY <1>16, <1>17

-----------------------------------------------------------------------------

LEMMA AnswersInit ==
    ASSUME HarnessAssumption, NoneAssumption, Init
    PROVE  AnswerInv
<1>1. /\ st = Fresh /\ pc = "start" /\ ledger = None /\ saved = None /\ puts = <<>> /\ stop = None
      /\ \A t \in AllIds : wave[t] = "idle" /\ results[t] = None
  BY DEF Init
<1>2. Fresh # None /\ InWave = {} /\ None # "late" /\ Ids(<<>>) = {}
  <2>1. TypeOK
    BY CallsInit DEF CallInv
  <2>2. Fresh # None /\ None # "late"
    BY <1>1, <2>1 DEF TypeOK, NoneAssumption
  <2> QED
    BY <1>1, <2>2 DEF InWave, Ids, ToSet
<1>3. Checkpoints = {} /\ Held = {Fresh}
  BY <1>1, <1>2 DEF Checkpoints, Held, ToSet
<1>4. Blank(Fresh) /\ ~Done(Fresh) /\ SpecsAreKnown(Fresh) /\ Bare(Fresh)
  BY DEF Fresh, Blank, Done, SpecsAreKnown, Bare, ToSet
<1>5. Settled(st, results, Reserved, late)
  BY <1>1, <1>4, UnfinishedIsSettled DEF Blank
<1>6. StopIsLate /\ PlansGrow /\ DoneStays /\ ~Planned
  BY <1>1, <1>2, <1>3, <1>4 DEF StopIsLate, PlansGrow, DoneStays, LedgerIds, Planned, Alive, Blank, Planning
<1> QED
  BY <1>3, <1>4, <1>5, <1>6 DEF AnswerInv

LEMMA AnswersNext ==
    ASSUME HarnessAssumption, NoneAssumption, CallInv, AnswerInv, [Next]_vars
    PROVE  AnswerInv'
<1>1. CASE Node /\ ~Finish
  BY <1>1, StartKeepsAnswers, GraphKeepsAnswers DEF Node
<1>2. CASE Wave
  <2>1. CallInv'
    BY <1>2, CallsNext DEF Next
  <2> QED
    BY <1>2, <2>1, StartWaveKeepsAnswers, EndWaveKeepsAnswers, CallsKeepAnswers DEF Wave
<1>3. CASE Provider
  BY <1>3, CallsKeepAnswers DEF Provider
<1>4. CASE Resume
  BY <1>4, ResumeKeepsAnswers
<1>5. CASE Finish \/ Late \/ StartAgain \/ Refuse
  <2>1. /\ UNCHANGED <<st, ledger, calls, results, wave, stop, saved, puts>> /\ (late => late')
        /\ \/ pc' = pc
           \/ pc = "finish" /\ pc' = "finished"
           \/ pc = "down" /\ pc' = "refused"
           \/ pc = "down" /\ pc' = "start" /\ ledger = None /\ saved = None
    BY <1>5 DEF Finish, Late, StartAgain, Refuse, durable
  <2>2. Checkpoints' = Checkpoints
    BY <2>1, SameStores
  <2>3. pc = "down" /\ saved = None => Checkpoints = {}
    BY DEF CallInv, NothingBeforeTheLedger, Alive, Checkpoints, ToSet
  <2> QED
    BY <2>1, <2>2, <2>3, QuietKeepsAnswers
<1>6. CASE SaverPut
  BY <1>6, SaverKeepsCalls, QuietKeepsAnswers DEF SaverPut
<1>7. CASE OwnerLost
  BY <1>7, LossKeepsAnswers
<1>8. CASE UNCHANGED vars
  <2>1. Checkpoints' = Checkpoints
    BY <1>8, SameStores DEF vars
  <2> QED
    BY <1>8, <2>1, QuietKeepsAnswers DEF vars
<1> QED
  BY <1>1, <1>2, <1>3, <1>4, <1>5, <1>6, <1>7, <1>8 DEF Next, Node, Recovery

LEMMA AnswersAreKept == Spec => [](CallInv /\ AnswerInv)
<1>1. Init => CallInv /\ AnswerInv
  BY CallsInit, AnswersInit, HarnessAssumption, NoneAssumption
<1>2. (CallInv /\ AnswerInv) /\ [Next]_vars => (CallInv /\ AnswerInv)'
  BY CallsNext, AnswersNext, HarnessAssumption, NoneAssumption
<1> QED
  BY <1>1, <1>2, PTL DEF Spec

\* "completed" is only said of a run whose committed results are formal evidence for each
\* supplier in each required dimension, none of them demo data or unfounded: the answer an
\* owner kept from a lost one included (build_agent_answer over the restored evidence).
THEOREM CompletedIsEarned == Spec => []CompletedIsCovered
<1>1. CallInv /\ AnswerInv => CompletedIsCovered
  <2> SUFFICES ASSUME CallInv, AnswerInv, pc = "finished", st.answer = "completed", NEW t \in ToSet(st.plan)
               PROVE  /\ results[t.id] \notin {"synthetic", "unfounded"}
                      /\ t.required => \E u \in ToSet(st.plan) :
                             <<u.entity, u.dim>> = <<t.entity, t.dim>> /\ results[u.id] = "supported"
    BY DEF CompletedIsCovered
  <2>1. st.answer # None /\ st.got = results /\ AnswerStatus(st) = "completed"
    BY NoneAssumption DEF AnswerInv, Settled, Alive, NoneAssumption, Verdicts
  <2>2. ~Got(st, {"unfounded"}) /\ ~Got(st, {"synthetic"}) /\ Missing(st) = {}
    BY <2>1 DEF AnswerStatus
  <2>3. results[t.id] \notin {"synthetic", "unfounded"}
    BY <2>1, <2>2 DEF Got, Ids
  <2>4. t.required => Covers(st, t.entity, t.dim)
    BY <2>2 DEF Missing
  <2> QED
    BY <2>1, <2>3, <2>4 DEF Covers
<1> QED
  BY <1>1, AnswersAreKept, PTL

\* The exit reason that is published is the true one, also when the owner that found it
\* was lost and another one published it (execute_ready_tasks, render_answer).
THEOREM PublishedReasonIsTrue == Spec => []ExitReasonIsTrue
<1>1. CallInv /\ AnswerInv => ExitReasonIsTrue
  <2> SUFFICES ASSUME CallInv, AnswerInv, pc = "finished"
               PROVE  TrueReason(st, results, Reserved, late) /\ st.reason # None
                      /\ st.reason # "remediation_scheduled"
    BY DEF ExitReasonIsTrue, TrueReason
  <2>1. Done(st) /\ Settled(st, results, Reserved, late)
    BY DEF AnswerInv, DoneStays, Alive
  <2> QED
    BY <2>1 DEF Settled, Done
<1> QED
  BY <1>1, AnswersAreKept, PTL

-----------------------------------------------------------------------------
(* What recovery can be refused for.                                        *)

LedgerRounds == IF ledger = None THEN 0 ELSE ledger.rounds
LedgerRaw == IF ledger = None THEN {} ELSE ledger.raw

\* What was asked is in the plan of the ledger, and no copy has remediated more often; a copy
\* with the ledger's tasks has them as the ledger has, or as they were before it executed them.
RecoveryInv ==
    /\ \A t \in AllIds : results[t] # None \/ wave[t] # "idle" => t \in LedgerIds
    /\ \A s \in Held : s.plan = <<>> => s.rounds = 0 /\ s.raw = {}
    /\ \A c \in Checkpoints : /\ c.st.rounds <= LedgerRounds
                              /\ Ids(c.st.plan) = LedgerIds => LedgerRaw \in {{}, c.st.raw}
    /\ Alive => st.rounds = LedgerRounds /\ st.raw = LedgerRaw
    /\ ~Alive => st.rounds = 0

LEMMA RoundsAreNumbers ==
    ASSUME HarnessAssumption, NoneAssumption, TypeOK
    PROVE  /\ LedgerRounds \in Nat /\ st.rounds \in Nat
           /\ \A c \in Checkpoints : c.st \in State /\ c.st.rounds \in Nat /\ c.st \in Held
<1>1. \A s \in State : s.rounds \in Nat
  BY DEF State, HarnessAssumption
<1>2. st \in State /\ ledger \in State \cup {None}
  BY DEF TypeOK
<1>3. \A c \in Checkpoints : c.st \in State /\ c.st \in Held
  BY CopiesAreTyped DEF Checkpoint, Held
<1> QED
  BY <1>1, <1>2, <1>3 DEF LedgerRounds

LEMMA NodeKeepsRecovery ==
    ASSUME HarnessAssumption, NoneAssumption, CallInv, AnswerInv, RecoveryInv,
           NEW node \in Nodes \ {"start"}, NEW s \in State, EndNode(node, s),
           Ids(st.plan) \subseteq Ids(s.plan), st.rounds <= s.rounds,
           s.plan = <<>> => s.rounds = 0 /\ s.raw = {},
           Ids(s.plan) = Ids(st.plan) => s.raw \in {{}, st.raw}
    PROVE  RecoveryInv'
<1>1. /\ pc = node /\ st' = s /\ ledger' = s /\ pc' = After(node, s)
      /\ puts' = Append(puts, [node |-> node, st |-> s])
      /\ UNCHANGED <<wave, results, saved>>
  BY DEF EndNode
<1>2. TypeOK /\ st \in State /\ s # None /\ Alive
  BY <1>1 DEF CallInv, TypeOK, Nodes, NoneAssumption, Alive
<1>3. PICK new : new = [node |-> node, st |-> s]
  OBVIOUS
<1>4. Checkpoints' = Checkpoints \cup {new} /\ new.st = s
  BY <1>1, <1>2, <1>3, NodeCopies
<1>5. \A x \in Held' : x \in Held \/ x = st'
  BY <1>1, <1>4 DEF Held
<1>6. /\ LedgerIds' = Ids(s.plan) /\ LedgerRounds' = s.rounds /\ LedgerRaw' = s.raw
      /\ LedgerIds = Ids(st.plan) /\ LedgerRounds = st.rounds /\ LedgerRaw = st.raw
  BY <1>1, <1>2 DEF LedgerIds, LedgerRounds, LedgerRaw, AnswerInv, PlansGrow, RecoveryInv
<1>7. Alive'
  <2>1. Route(s) \in {"remediate", "render_answer"}
    BY DEF Route
  <2> QED
    BY <1>1, <2>1 DEF After, Nodes, Alive
<1>8. \A c \in Checkpoints' : c.st.rounds <= LedgerRounds'
  <2>1. s.rounds \in Nat /\ \A c \in Checkpoints : c.st.rounds \in Nat /\ c.st.rounds <= st.rounds
    BY <1>2, <1>6, RoundsAreNumbers DEF RecoveryInv, State, HarnessAssumption
  <2>2. st.rounds \in Nat
    BY <1>2, RoundsAreNumbers
  <2> QED
    BY <1>4, <1>6, <2>1, <2>2
<1>9. \A t \in AllIds : results'[t] # None \/ wave'[t] # "idle" => t \in LedgerIds'
  BY <1>1, <1>6 DEF RecoveryInv
<1>10. \A x \in Held' : x.plan = <<>> => x.rounds = 0 /\ x.raw = {}
  BY <1>1, <1>5 DEF RecoveryInv
<1>11. \A c \in Checkpoints' : Ids(c.st.plan) = LedgerIds' => LedgerRaw' \in {{}, c.st.raw}
  <2>1. ASSUME NEW c \in Checkpoints, Ids(c.st.plan) = Ids(s.plan) PROVE s.raw \in {{}, c.st.raw}
    <3>1. Ids(c.st.plan) \subseteq Ids(st.plan)
      BY <1>6 DEF AnswerInv, PlansGrow
    <3>2. Ids(c.st.plan) = Ids(st.plan)
      BY <2>1, <3>1
    <3>3. st.raw \in {{}, c.st.raw}
      BY <1>6, <3>2 DEF RecoveryInv
    <3> QED
      BY <2>1, <3>2, <3>3
  <2> QED
    BY <1>4, <1>6, <2>1
<1> QED
  BY <1>1, <1>6, <1>7, <1>8, <1>9, <1>10, <1>11 DEF RecoveryInv

LEMMA GraphKeepsRecovery ==
    ASSUME HarnessAssumption, NoneAssumption, CallInv, AnswerInv, RecoveryInv,
           LoadSession \/ ResolveTurn \/ BuildPlan \/ ExecuteReadyTasks \/ ValidateEvidence
           \/ Remediate \/ RenderAnswer \/ PersistTurn
    PROVE  RecoveryInv'
<1>1. /\ st \in State /\ st \in Held /\ st.rounds \in Nat
      /\ st.plan = <<>> => st.rounds = 0 /\ st.raw = {}
  BY CopiesAreTyped, RoundsAreNumbers DEF CallInv, TypeOK, RecoveryInv
<1>2. ASSUME NEW node \in Nodes \ {"start"}, NEW s \in State, EndNode(node, s),
             s.plan = st.plan, s.rounds = st.rounds, s.raw \in {{}, st.raw}
      PROVE  RecoveryInv'
  <2>1. Ids(st.plan) \subseteq Ids(s.plan) /\ st.rounds <= s.rounds
    BY <1>1, <1>2
  <2> QED
    BY <1>1, <1>2, <2>1, NodeKeepsRecovery
<1>3. CASE LoadSession \/ ResolveTurn \/ PersistTurn
  BY <1>1, <1>2, <1>3 DEF LoadSession, ResolveTurn, PersistTurn, Nodes
<1>4. CASE BuildPlan
  <2>1. PICK s : s = [st EXCEPT !.plan = Plan(request), !.specs = Fallbacks(Plan(request))]
    OBVIOUS
  <2>2. s \in State /\ EndNode("build_plan", s) /\ pc = "build_plan" /\ "build_plan" \in Nodes \ {"start"}
    BY <1>4, <2>1, NodesAreTyped DEF BuildPlan, EndNode, Nodes
  <2>3. s.rounds = st.rounds /\ s.raw = st.raw
    BY <1>1, <2>1 DEF State
  <2>4. st.plan = <<>>
    BY <2>2 DEF AnswerInv, PlansGrow, Blank
  <2>5. Ids(st.plan) = {} /\ st.rounds = 0 /\ st.raw = {}
    BY <1>1, <2>4, PlanHasIds
  <2> QED
    BY <2>2, <2>3, <2>5, NodeKeepsRecovery
<1>5. CASE ExecuteReadyTasks
  <2>1. PICK why : ExecuteReadyTasks /\ why = IF stop # None THEN stop ELSE StopReason(st)
    BY <1>5
  <2>2. PICK s : s = Ended(st, why)
    OBVIOUS
  <2>3. EndNode("execute_ready_tasks", s) /\ why # None
    BY <2>1, <2>2 DEF ExecuteReadyTasks, Ended
  <2>4. why \in Reasons
    BY <2>1, <2>3 DEF CallInv, TypeOK, StopReason, Reasons
  <2>5. s \in State /\ s.plan = st.plan /\ s.rounds = st.rounds /\ s.raw = {}
    BY <1>1, <2>2, <2>4, NodesAreTyped DEF State, Ended
  <2> QED
    BY <1>2, <2>3, <2>5 DEF Nodes
<1>6. CASE ValidateEvidence
  <2>1. PICK s : s = [st EXCEPT !.missing = Missing(st)]
    OBVIOUS
  <2>2. s \in State /\ EndNode("validate_evidence", s)
    BY <1>6, <2>1, NodesAreTyped DEF ValidateEvidence
  <2>3. s.plan = st.plan /\ s.rounds = st.rounds /\ s.raw = st.raw
    BY <1>1, <2>1 DEF State
  <2> QED
    BY <1>2, <2>2, <2>3 DEF Nodes
<1>7. CASE Remediate
  <2>1. PICK s : s = Remediated(st)
    OBVIOUS
  <2>2. s \in State /\ EndNode("remediate", s) /\ pc = "remediate" /\ "remediate" \in Nodes \ {"start"}
    BY <1>7, <2>1, NodesAreTyped DEF Remediate, Remediated, EndNode, Nodes
  <2>3. s.rounds = st.rounds + 1
    BY <1>1, <2>1 DEF State, Remediated
  <2>4. Ids(st.plan) \subseteq Ids(s.plan) /\ ~(Ids(s.plan) \subseteq Ids(st.plan))
    <3>1. SpecsAreKnown(st) /\ Settled(st, results, Reserved, late) /\ Route(st) = "remediate"
      BY <1>1, <2>2 DEF AnswerInv, Alive, CallInv, RoutesAreFollowed
    <3> QED
      BY <1>1, <2>1, <2>2, <3>1, RemediatedIsSettled
  <2>5. s.plan # <<>>
    BY <2>2, <2>4, PlanHasIds
  <2>6. st.rounds <= s.rounds
    BY <1>1, <2>3
  <2> QED
    BY <2>2, <2>4, <2>5, <2>6, NodeKeepsRecovery
<1>8. CASE RenderAnswer
  <2>1. PICK s : s = Rendered(st)
    OBVIOUS
  <2>2. s \in State /\ EndNode("render_answer", s)
    BY <1>8, <2>1, NodesAreTyped DEF RenderAnswer, Rendered
  <2>3. s.plan = st.plan /\ s.rounds = st.rounds /\ s.raw = st.raw
    BY <1>1, <2>1 DEF State, Rendered
  <2> QED
    BY <1>2, <2>2, <2>3 DEF Nodes
<1> QED
  BY <1>3, <1>4, <1>5, <1>6, <1>7, <1>8

\* Steps that leave the plan and the rounds as they are.
LEMMA PlanKeepsRecovery ==
    ASSUME NoneAssumption, CallInv, AnswerInv, RecoveryInv, ledger' = ledger, Checkpoints' \subseteq Checkpoints,
           st'.plan = st.plan, st'.rounds = st.rounds, st'.raw = st.raw,
           Alive' => Alive, ~Alive' => ~Alive \/ st'.rounds = 0,
           \A t \in AllIds : results'[t] # None \/ wave'[t] # "idle"
                                => results[t] # None \/ wave[t] # "idle" \/ t \in LedgerIds
    PROVE  RecoveryInv'
<1>1. LedgerIds' = LedgerIds /\ LedgerRounds' = LedgerRounds /\ LedgerRaw' = LedgerRaw
  BY DEF LedgerIds, LedgerRounds, LedgerRaw
<1>2. \A x \in Held' : x \in Held \/ x = st'
  BY StoresStay
<1>3. st \in Held
  BY CopiesAreTyped DEF CallInv
<1>4. \A x \in Held' : x.plan = <<>> => x.rounds = 0 /\ x.raw = {}
  BY <1>2, <1>3 DEF RecoveryInv
<1> QED
  BY <1>1, <1>4 DEF RecoveryInv

LEMMA WaveKeepsRecovery ==
    ASSUME HarnessAssumption, NoneAssumption, CallInv, AnswerInv, RecoveryInv, Wave \/ Provider
    PROVE  RecoveryInv'
<1>1. TypeOK /\ st \in State
  BY DEF CallInv, TypeOK
<1>2. ASSUME NEW t \in AllIds,
             CallTool(t) \/ ToolOverruns(t) \/ RecordOverrun(t) \/ \E k \in Kinds : ToolReturns(t, k)
      PROVE  RecoveryInv'
  <2>1. UNCHANGED <<pc, st, ledger, saved, puts>> /\ wave[t] # "idle"
    BY <1>2 DEF CallTool, ToolOverruns, RecordOverrun, ToolReturns, durable
  <2>2. \A u \in AllIds : results'[u] # None \/ wave'[u] # "idle" => results[u] # None \/ wave[u] # "idle"
    BY <1>1, <1>2, <2>1 DEF CallTool, ToolOverruns, RecordOverrun, ToolReturns, Move, durable, TypeOK
  <2>3. Checkpoints' = Checkpoints /\ Alive' = Alive
    BY <2>1, SameStores DEF Alive
  <2> QED
    BY <2>1, <2>2, <2>3, PlanKeepsRecovery
<1>3. CASE StartWave
  <2>1. /\ wave' = [t \in AllIds |-> IF t \in {u.id : u \in SelectWave(st)} THEN "starting" ELSE "idle"]
        /\ UNCHANGED <<pc, st, results, ledger, saved, puts>> /\ Alive
    BY <1>3 DEF StartWave, durable, Executing, Alive
  <2>2. {u.id : u \in SelectWave(st)} \subseteq Ids(st.plan)
    <3>1. SelectWave(st) \subseteq ToSet(st.plan)
      BY <1>1, WaveIsSelected
    <3> QED
      BY <3>1 DEF Ids
  <2>3. Ids(st.plan) = LedgerIds
    BY <2>1 DEF AnswerInv, PlansGrow
  <2>4. Checkpoints' = Checkpoints /\ Alive' = Alive
    BY <2>1, SameStores DEF Alive
  <2> QED
    BY <2>1, <2>2, <2>3, <2>4, PlanKeepsRecovery
<1>4. CASE EndWave
  <2>1. /\ st' = [WithResults(st, InWave) EXCEPT !.count = @ + Cardinality(InWave)]
        /\ wave' = [t \in AllIds |-> "idle"] /\ \A t \in InWave : wave[t] = "answered"
        /\ UNCHANGED <<pc, results, ledger, saved, puts>>
    BY <1>4 DEF EndWave, durable
  <2>2. InWave \in SUBSET AllIds /\ \A t \in InWave : results[t] # None
    BY <2>1 DEF InWave, CallInv, WavesAreAccounted
  <2>3. PICK r : r = WithResults(st, InWave)
    OBVIOUS
  <2>4. r \in State /\ r = [st EXCEPT !.got = r.got, !.status = r.status]
    BY <1>1, <2>2, <2>3, ResultsAreTaken
  <2>5. st'.plan = st.plan /\ st'.rounds = st.rounds /\ st'.raw = st.raw
    BY <1>1, <2>1, <2>3, <2>4 DEF State
  <2>6. Checkpoints' = Checkpoints /\ Alive' = Alive
    BY <2>1, SameStores DEF Alive
  <2> QED
    BY <2>1, <2>5, <2>6, PlanKeepsRecovery
<1> QED
  BY <1>2, <1>3, <1>4 DEF Wave, Provider

LEMMA OwnersKeepRecovery ==
    ASSUME HarnessAssumption, NoneAssumption, CallInv, AnswerInv, RecoveryInv,
           Start \/ Finish \/ Late \/ SaverPut \/ OwnerLost \/ StartAgain \/ Refuse \/ UNCHANGED vars
    PROVE  RecoveryInv'
<1>1. TypeOK /\ st \in State
  BY DEF CallInv, TypeOK
<1>2. CASE Finish \/ Late \/ SaverPut \/ Refuse \/ UNCHANGED vars
  <2>1. UNCHANGED <<st, wave, results, ledger>> /\ Alive' = Alive
    BY <1>2 DEF Finish, Late, SaverPut, Refuse, vars, durable, Alive
  <2>2. Checkpoints' \subseteq Checkpoints
    <3>1. CASE SaverPut
      BY <3>1, SaverKeepsCalls
    <3>2. CASE Finish \/ Late \/ Refuse \/ UNCHANGED vars
      BY <3>2, SameStores DEF Finish, Late, Refuse, vars, durable
    <3> QED
      BY <1>2, <3>1, <3>2
  <2> QED
    BY <2>1, <2>2, PlanKeepsRecovery
<1>3. CASE OwnerLost
  <2>1. st' = Fresh /\ wave' = [t \in AllIds |-> "idle"] /\ UNCHANGED <<results, ledger>> /\ ~Alive'
    BY <1>3 DEF OwnerLost, Alive
  <2>2. Checkpoints' \subseteq Checkpoints /\ \A x \in Held' : x \in Held \/ x = st'
    BY <1>3, <2>1, LossKeepsCalls, StoresStay
  <2>3. /\ LedgerIds' = LedgerIds /\ LedgerRounds' = LedgerRounds /\ LedgerRaw' = LedgerRaw
        /\ Fresh.rounds = 0 /\ Fresh.raw = {}
    BY <2>1 DEF LedgerIds, LedgerRounds, LedgerRaw, Fresh
  <2> QED
    BY <2>1, <2>2, <2>3 DEF RecoveryInv
<1>4. CASE StartAgain
  <2>1. /\ UNCHANGED <<st, wave, results, ledger, saved, puts>> /\ ~Alive /\ ledger = None
    BY <1>4 DEF StartAgain, durable, Alive
  <2>2. Checkpoints' = Checkpoints /\ \A x \in Held' : x \in Held \/ x = st'
    BY <2>1, SameStores
  <2>3. /\ st \in Held /\ LedgerIds' = LedgerIds /\ LedgerRounds' = LedgerRounds /\ LedgerRounds = 0
        /\ LedgerRaw' = LedgerRaw /\ LedgerRaw = {} /\ st.plan = <<>>
    BY <1>1, <2>1, CopiesAreTyped DEF LedgerIds, LedgerRounds, LedgerRaw, AnswerInv, PlansGrow, Blank
  <2> QED
    BY <2>1, <2>2, <2>3 DEF RecoveryInv
<1>5. CASE Start
  <2>1. /\ st' = Fresh /\ UNCHANGED <<wave, results, ledger, saved>> /\ ledger = None /\ Checkpoints = {}
        /\ puts' = Append(puts, [node |-> "start", st |-> Fresh]) /\ Alive'
    BY <1>5 DEF Start, CallInv, NothingBeforeTheLedger, Alive
  <2>2. PICK new : new = [node |-> "start", st |-> Fresh]
    OBVIOUS
  <2>3. Fresh \in State /\ "start" \in Nodes
    BY DEF Fresh, State, HarnessAssumption, Nodes
  <2>4. Checkpoints' = {new} /\ new.st = Fresh
    BY <1>1, <2>1, <2>2, <2>3, NodeCopies
  <2>5. \A x \in Held' : x \in Held \/ x = st'
    BY <2>1, <2>4 DEF Held
  <2>6. /\ LedgerIds' = LedgerIds /\ LedgerRounds' = 0 /\ LedgerRaw' = {}
        /\ Fresh.rounds = 0 /\ Fresh.raw = {}
    BY <2>1 DEF LedgerIds, LedgerRounds, LedgerRaw, Fresh
  <2> QED
    BY <2>1, <2>4, <2>5, <2>6 DEF RecoveryInv
<1> QED
  BY <1>2, <1>3, <1>4, <1>5

\* A run that is taken over is alive again.
LEMMA ResumeGoesOn ==
    ASSUME NoneAssumption, CallInv, Resume
    PROVE  Alive'
<1>1. saved.node \in Nodes /\ pc' = After(saved.node, st')
  BY RecoverySource DEF Resume, Checkpoint
<1>2. Route(st') \in {"remediate", "render_answer"}
  BY DEF Route
<1> QED
  BY <1>1, <1>2 DEF After, Nodes, Alive

\* Only a refusal ends in "refused".
LEMMA RefusedIsRefuse ==
    ASSUME NoneAssumption, CallInv, Next, pc' = "refused", pc # "refused"
    PROVE  Refuse
<1>1. \A node, s : EndNode(node, s) => pc' = After(node, s) /\ pc = node
  BY DEF EndNode
<1>2. Route(st) \in {"remediate", "render_answer"} /\ \A s : Route(s) \in {"remediate", "render_answer"}
  BY DEF Route
<1>3. \A node \in Nodes : \A s : After(node, s) # "refused"
  BY <1>2 DEF After, Nodes
<1>4. ~Node
  <2>1. \A node \in Nodes : \A s : ~EndNode(node, s)
    BY <1>1, <1>3
  <2>2. ~Start /\ ~Finish
    BY DEF Start, Finish
  <2> QED
    BY <2>1, <2>2 DEF Node, LoadSession, ResolveTurn, BuildPlan, ExecuteReadyTasks, ValidateEvidence,
                      Remediate, RenderAnswer, PersistTurn, Nodes
<1>5. ~Wave /\ ~Provider
  BY DEF Wave, Provider, StartWave, EndWave, CallTool, RecordOverrun, ToolOverruns, ToolReturns
<1>6. ~Resume
  BY ResumeGoesOn DEF Alive
<1>7. ~StartAgain /\ ~SaverPut /\ ~Late /\ ~OwnerLost
  BY DEF StartAgain, SaverPut, Late, OwnerLost
<1> QED
  BY <1>4, <1>5, <1>6, <1>7 DEF Next, Recovery

LEMMA ResumeKeepsRecovery ==
    ASSUME HarnessAssumption, NoneAssumption, CallInv, AnswerInv, RecoveryInv, Resume
    PROVE  RecoveryInv'
<1>1. /\ pc = "down" /\ saved # None /\ st' = Restored(Merged)
      /\ UNCHANGED <<wave, calls, results, ledger, saved, puts>>
  BY DEF Resume, durable
<1>2. PICK s : s = LedgerState
  OBVIOUS
<1>3. s \in State /\ Honest(s) /\ s \in Held /\ saved \in Checkpoints /\ saved.st \in State
  BY <1>1, <1>2, RecoverySource DEF Honest
<1>4. st'.plan = s.plan /\ st'.rounds = s.rounds /\ st'.raw = s.raw
  <2>1. Merged = [s EXCEPT !.count = Larger(@, Reserved)]
    BY <1>2 DEF Merged
  <2>2. PICK r : r = st'
    OBVIOUS
  <2>3. r \in State /\ r = [s EXCEPT !.got = r.got, !.status = r.status, !.count = r.count]
    BY <1>1, <1>3, <2>1, <2>2, CopyIsRestored
  <2> QED
    BY <1>3, <2>2, <2>3 DEF State
<1>5. s.rounds = LedgerRounds /\ s.raw = LedgerRaw
  <2>1. CASE Planned
    BY <1>2, <2>1 DEF Planned, LedgerState, LedgerRounds, LedgerRaw
  <2>2. CASE ~Planned
    <3>1. s = saved.st /\ LedgerIds = {}
      BY <1>2, <2>2 DEF LedgerState, Planned, LedgerIds, Ids, ToSet
    <3>2. Ids(s.plan) = {}
      BY <1>3, <3>1 DEF AnswerInv, PlansGrow
    <3>3. s.rounds = 0 /\ s.raw = {}
      BY <1>3, <3>2, PlanHasIds DEF RecoveryInv
    <3>4. ledger # None => ledger \in Held
      BY CopiesAreTyped DEF CallInv
    <3>5. LedgerRounds = 0 /\ LedgerRaw = {}
      BY <2>2, <3>4 DEF RecoveryInv, LedgerRounds, LedgerRaw, Planned
    <3> QED
      BY <3>3, <3>5
  <2> QED
    BY <2>1, <2>2
<1>6. Checkpoints' = Checkpoints /\ \A x \in Held' : x \in Held \/ x = st'
  BY <1>1, SameStores
<1>7. LedgerIds' = LedgerIds /\ LedgerRounds' = LedgerRounds /\ LedgerRaw' = LedgerRaw
  BY <1>1 DEF LedgerIds, LedgerRounds, LedgerRaw
<1>8. Alive'
  BY ResumeGoesOn
<1> QED
  BY <1>1, <1>3, <1>4, <1>5, <1>6, <1>7, <1>8 DEF RecoveryInv

LEMMA RecoveryIsKept == Spec => [](CallInv /\ AnswerInv /\ RecoveryInv)
<1>1. Init => RecoveryInv
  <2> SUFFICES ASSUME Init PROVE RecoveryInv
    OBVIOUS
  <2>1. /\ st = Fresh /\ pc = "start" /\ ledger = None /\ saved = None /\ puts = <<>>
        /\ \A t \in AllIds : wave[t] = "idle" /\ results[t] = None
    BY DEF Init
  <2>2. Checkpoints = {} /\ (\A s \in Held : s = Fresh) /\ Fresh.rounds = 0 /\ Fresh.raw = {}
    BY <2>1 DEF Checkpoints, Held, ToSet, Fresh
  <2> QED
    BY <2>1, <2>2 DEF RecoveryInv, LedgerRounds, LedgerRaw, Alive
<1>2. CallInv /\ AnswerInv /\ RecoveryInv /\ [Next]_vars => RecoveryInv'
  BY HarnessAssumption, NoneAssumption, GraphKeepsRecovery, WaveKeepsRecovery, OwnersKeepRecovery,
     ResumeKeepsRecovery DEF Next, Node, Recovery
<1> QED
  BY <1>1, <1>2, AnswersAreKept, PTL DEF Spec

\* The saver has only the plan as it was before its last growth was committed.
SaverTrails == Ids(saved.st.plan) \subseteq Ids(ledger.plan) /\ ToSet(saved.st.plan) # ToSet(ledger.plan)

\* The saver stopped at a remediation, whose tasks it has as bare specs, while the run went
\* on: their execution has been committed, or a result of one of them.
SaverIsRaw == saved.st.raw # {} /\ (ledger.raw = {} \/ \E t \in saved.st.raw : results[t] # None)

\* Whoever takes a run over is turned away only where the saver has no checkpoint, where it
\* has an earlier plan than the committed one, or where it stopped at a remediation whose
\* tasks have been executed since, or answered in part.  A lagging saver alone is no reason:
\* its checkpoint never holds more calls or rounds than were committed, no committed result
\* is foreign to the plan or meets a processed task, and results of tasks that build_plan
\* made are always taken (reconcile_checkpoint, _restore_committed_tool_results).
RefusedForItsPlan ==
    [][pc' = "refused" => pc = "refused" \/ saved = None \/ (Planned /\ (SaverTrails \/ SaverIsRaw))]_vars

THEOREM RefusalsAreExplained == Spec => RefusedForItsPlan
<1>1. CallInv /\ AnswerInv /\ RecoveryInv /\ [Next]_vars
        => [pc' = "refused" => pc = "refused" \/ saved = None \/ (Planned /\ (SaverTrails \/ SaverIsRaw))]_vars
  <2> SUFFICES ASSUME CallInv, AnswerInv, RecoveryInv, Next, pc' = "refused", pc # "refused",
                      saved # None, ~(Planned /\ (SaverTrails \/ SaverIsRaw))
               PROVE  FALSE
    OBVIOUS
  <2>1. pc = "down" /\ ~Recoverable
    BY NoneAssumption, RefusedIsRefuse DEF Refuse
  <2>2. PICK s : s = LedgerState
    OBVIOUS
  <2>3. /\ s \in State /\ Honest(s) /\ s \in Held /\ saved \in Checkpoints
        /\ saved.st \in State /\ saved.st \in Held
    BY <2>2, NoneAssumption, RecoverySource DEF Honest, Held
  <2>4. Merged = [s EXCEPT !.count = Larger(@, Reserved)]
    BY <2>2 DEF Merged
  <2>5. /\ s.count \in Nat /\ Reserved \in Nat /\ s.count <= Reserved /\ saved.st.count \in Nat
        /\ saved.st.count <= Reserved
    <3>1. Honest(saved.st)
      BY <2>3 DEF CallInv
    <3>2. s.count \in 0..MaxToolCalls /\ saved.st.count \in 0..MaxToolCalls
      BY <2>3 DEF State
    <3> QED
      BY <2>3, <3>1, <3>2, FS_CardinalityType DEF Honest, Reserved, CallInv, CallsArePaid
  <2>6. /\ Merged.count = Reserved /\ Merged.rounds = s.rounds /\ Merged.plan = s.plan
        /\ Merged.got = s.got /\ Merged.status = s.status /\ Merged.raw = s.raw
    BY <2>3, <2>4, <2>5 DEF State, Larger
  <2>7. ~Overspent
    <3>1. Planned => s.rounds = LedgerRounds
      BY <2>2 DEF Planned, LedgerState, LedgerRounds
    <3>2. saved.st.rounds <= LedgerRounds /\ LedgerRounds \in Nat /\ saved.st.rounds \in Nat
      BY <2>3, HarnessAssumption, NoneAssumption, RoundsAreNumbers DEF RecoveryInv, CallInv
    <3> QED
      BY <2>5, <2>6, <3>1, <3>2 DEF Overspent
  <2>8. Ids(s.plan) = LedgerIds
    <3>1. CASE Planned
      BY <2>2, <3>1 DEF Planned, LedgerState, LedgerIds
    <3>2. CASE ~Planned
      <4>1. s = saved.st /\ LedgerIds = {}
        BY <2>2, <3>2 DEF LedgerState, Planned, LedgerIds, Ids, ToSet
      <4> QED
        BY <2>3, <4>1 DEF AnswerInv, PlansGrow
    <3> QED
      BY <3>1, <3>2
  <2>9. Planned => /\ s = ledger /\ ToSet(ledger.plan) = ToSet(saved.st.plan)
                   /\ ledger.raw \in {{}, saved.st.raw}
    <3>1. Planned => s = ledger /\ LedgerIds = Ids(ledger.plan) /\ LedgerRaw = ledger.raw
      BY <2>2 DEF Planned, LedgerState, LedgerIds, LedgerRaw
    <3>2. Planned => Ids(saved.st.plan) \subseteq Ids(ledger.plan)
      BY <2>3, <3>1 DEF AnswerInv, PlansGrow
    <3>3. Planned => ToSet(ledger.plan) = ToSet(saved.st.plan)
      BY <3>2 DEF SaverTrails
    <3> QED
      BY <2>3, <3>1, <3>3 DEF RecoveryInv, Ids
  <2>10. SamePlan
    BY <2>9 DEF SamePlan, SaverIsRaw
  <2>11. Restorable(Merged)
    <3> SUFFICES ASSUME NEW t \in AllIds, results[t] # None, s.got[t] = None
                 PROVE  t \in Ids(s.plan) \ s.raw /\ s.status[t] = "pending"
      BY <2>6 DEF Restorable, Unmerged
    <3>1. t \in LedgerIds
      BY DEF RecoveryInv
    <3>2. s.status[t] = "pending"
      BY <2>3 DEF Honest, StatusOf
    <3>3. Planned
      BY <3>1 DEF LedgerIds, Planned, Ids, ToSet
    <3>4. t \notin s.raw
      BY <2>9, <3>3 DEF SaverIsRaw
    <3> QED
      BY <2>8, <3>1, <3>2, <3>4
  <2> QED
    BY <2>1, <2>7, <2>10, <2>11 DEF Recoverable
<1> QED
  BY <1>1, RecoveryIsKept, PTL DEF Spec, RefusedForItsPlan
=============================================================================
