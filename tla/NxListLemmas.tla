---------------------------- MODULE NxListLemmas ----------------------------
(***************************************************************************)
(* The dq_queue lists of tasks that the scheduler and the semaphores keep  *)
(* in order of priority: what inserting and removing a task does to the    *)
(* members and to the order, for lists of every length.                    *)
(***************************************************************************)
EXTENDS Naturals, Sequences, FiniteSets, SequencesExt, NxTask,
        SequenceTheorems, WellFoundedInduction, FiniteSetTheorems, TLAPS

-----------------------------------------------------------------------------
(* Sets of numbers. *)

\* A set of natural numbers has a least element.
LEMMA LeastNatural ==
    ASSUME NEW S \in SUBSET Nat, S # {}
    PROVE  Min(S) \in S /\ \A y \in S : Min(S) <= y
<1> DEFINE T == {1 .. n : n \in S}
<1>1. \A n \in Nat : 1 .. n \in FiniteSubsetsOf(Nat)
    <2> SUFFICES ASSUME NEW n \in Nat
                 PROVE  IsFiniteSet(1 .. n) /\ 1 .. n \in SUBSET Nat
        BY DEF FiniteSubsetsOf
    <2>1. IsFiniteSet(1 .. n)
        BY FS_Interval
    <2> QED
        BY <2>1
<1>2. T \subseteq FiniteSubsetsOf(Nat) /\ T # {}
    BY <1>1
<1>3. PICK I \in T : \A J \in T : ~ (<<J, I>> \in StrictSubsetOrdering(Nat))
    BY <1>2, WFMin, FS_StrictSubsetOrderingWellFounded
<1>4. PICK x \in S : I = 1 .. x
    OBVIOUS
<1>5. ASSUME NEW y \in S, y < x
      PROVE  FALSE
    <2>1. 1 .. y \in T /\ 1 .. y \in SUBSET Nat /\ 1 .. x \in SUBSET Nat
        OBVIOUS
    <2>2. ~ (<<1 .. y, 1 .. x>> \in StrictSubsetOrdering(Nat))
        BY <2>1, <1>3, <1>4
    <2>3. (1 .. y) \subseteq (1 .. x) /\ x \in 1 .. x /\ x \notin 1 .. y
        BY <1>5
    <2> QED
        BY <2>1, <2>2, <2>3 DEF StrictSubsetOrdering
<1>6. \A y \in S : x <= y
    BY <1>5
<1> QED
    BY <1>6 DEF Min

\* A bounded set of natural numbers has a greatest element.
LEMMA GreatestNatural ==
    ASSUME NEW n \in Nat, NEW S \in SUBSET (0 .. n), S # {}
    PROVE  Max(S) \in S /\ \A y \in S : y <= Max(S)
<1> DEFINE T == {n - x : x \in S}
<1>1. T \in SUBSET Nat /\ T # {}
    <2>1. \A x \in S : x \in 0 .. n /\ n - x \in Nat
        OBVIOUS
    <2> QED
        BY <2>1
<1>2. Min(T) \in T /\ \A y \in T : Min(T) <= y
    BY <1>1, LeastNatural
<1>3. PICK x \in S : Min(T) = n - x
    BY <1>2
<1> HIDE DEF T
<1>4. ASSUME NEW y \in S
      PROVE  x >= y
    <2>1. n - y \in T
        BY DEF T
    <2>2. n - x <= n - y
        BY <2>1, <1>2, <1>3
    <2> QED
        BY <2>2
<1>5. Max(S) \in S /\ \A y \in S : Max(S) >= y
    BY <1>4 DEF Max
<1> QED
    BY <1>5

-----------------------------------------------------------------------------
(* Lists. *)

OnceEach(q) == \A i, j \in 1 .. Len(q) : q[i] = q[j] => i = j
Occurs(t, q) == \E i \in 1 .. Len(q) : q[i] = t
Descends(q, pr) == \A i, j \in 1 .. Len(q) : i < j => pr[q[i]] >= pr[q[j]]

LEMMA InsertAtFacts ==
    ASSUME NEW q \in Seq(Task), NEW t \in Task, NEW k \in 1 .. Len(q) + 1
    PROVE  /\ InsertAt(q, k, t) \in Seq(Task)
           /\ Len(InsertAt(q, k, t)) = Len(q) + 1
           /\ \A i \in 1 .. Len(q) + 1 :
                InsertAt(q, k, t)[i] = IF i < k THEN q[i] ELSE IF i = k THEN t ELSE q[i - 1]
<1> DEFINE a == SubSeq(q, 1, k - 1)
           b == SubSeq(q, k, Len(q))
<1>1. a \in Seq(Task) /\ Len(a) = k - 1 /\ \A i \in 1 .. k - 1 : a[i] = q[i]
    BY SubSeqProperties
<1>2. /\ b \in Seq(Task) /\ Len(b) = Len(q) - k + 1
      /\ \A i \in 1 .. Len(q) - k + 1 : b[i] = q[k + i - 1]
    BY SubSeqProperties
<1>3. <<t>> \in Seq(Task) /\ Len(<<t>>) = 1 /\ <<t>>[1] = t
    OBVIOUS
<1> HIDE DEF a, b
<1> DEFINE ab == a \o <<t>>
<1>4. /\ ab \in Seq(Task) /\ Len(ab) = k
      /\ \A i \in 1 .. k : ab[i] = IF i < k THEN q[i] ELSE t
    BY <1>1, <1>3, ConcatProperties
<1> HIDE DEF ab
<1>5. /\ ab \o b \in Seq(Task) /\ Len(ab \o b) = Len(q) + 1
      /\ \A i \in 1 .. Len(q) + 1 : (ab \o b)[i] = IF i <= k THEN ab[i] ELSE b[i - k]
    <2>1. /\ ab \o b \in Seq(Task) /\ Len(ab \o b) = Len(ab) + Len(b)
          /\ \A i \in 1 .. Len(ab) + Len(b) :
                (ab \o b)[i] = IF i <= Len(ab) THEN ab[i] ELSE b[i - Len(ab)]
        BY <1>2, <1>4, ConcatProperties
    <2>2. Len(ab) = k /\ Len(ab) + Len(b) = Len(q) + 1
        BY <1>2, <1>4
    <2> QED
        BY <2>1, <2>2
<1>6. InsertAt(q, k, t) = ab \o b
    BY DEF InsertAt, ab, a, b
<1> QED
    BY <1>2, <1>4, <1>5, <1>6

LEMMA RemoveAtFacts ==
    ASSUME NEW q \in Seq(Task), NEW k \in 1 .. Len(q)
    PROVE  /\ RemoveAt(q, k) \in Seq(Task)
           /\ Len(RemoveAt(q, k)) = Len(q) - 1
           /\ \A i \in 1 .. Len(q) - 1 :
                RemoveAt(q, k)[i] = IF i < k THEN q[i] ELSE q[i + 1]
<1> DEFINE a == SubSeq(q, 1, k - 1)
           b == SubSeq(q, k + 1, Len(q))
<1>1. a \in Seq(Task) /\ Len(a) = k - 1 /\ \A i \in 1 .. k - 1 : a[i] = q[i]
    BY SubSeqProperties
<1>2. b \in Seq(Task) /\ Len(b) = Len(q) - k /\ \A i \in 1 .. Len(q) - k : b[i] = q[k + i]
    BY SubSeqProperties
<1> HIDE DEF a, b
<1>3. /\ a \o b \in Seq(Task) /\ Len(a \o b) = Len(q) - 1
      /\ \A i \in 1 .. Len(q) - 1 : (a \o b)[i] = IF i <= k - 1 THEN a[i] ELSE b[i - k + 1]
    BY <1>1, <1>2, ConcatProperties
<1>4. RemoveAt(q, k) = a \o b
    BY DEF RemoveAt, a, b
<1>5. ASSUME NEW i \in 1 .. Len(q) - 1
      PROVE  (a \o b)[i] = IF i < k THEN q[i] ELSE q[i + 1]
    <2>1. CASE i < k
        <3>1. i <= k - 1 /\ i \in 1 .. k - 1
            BY <2>1
        <3> QED
            BY <2>1, <3>1, <1>1, <1>3
    <2>2. CASE ~(i < k)
        <3>1. i - k + 1 \in 1 .. Len(q) - k /\ k + (i - k + 1) = i + 1 /\ ~(i <= k - 1)
            BY <2>2
        <3>2. b[i - k + 1] = q[i + 1]
            BY <3>1, <1>2
        <3> QED
            BY <2>2, <3>1, <3>2, <1>3
    <2> QED
        BY <2>1, <2>2
<1> QED
    BY <1>3, <1>4, <1>5

\* The list without the k-th task.
LEMMA RemoveAtMembers ==
    ASSUME NEW q \in Seq(Task), NEW k \in 1 .. Len(q), OnceEach(q)
    PROVE  /\ RemoveAt(q, k) \in Seq(Task)
           /\ OnceEach(RemoveAt(q, k))
           /\ \A u \in Task : Occurs(u, RemoveAt(q, k)) <=> Occurs(u, q) /\ u # q[k]
           /\ \A pr : Descends(q, pr) => Descends(RemoveAt(q, k), pr)
<1> DEFINE d == RemoveAt(q, k)
           up(n) == IF n < k THEN n ELSE n + 1
<1>1. /\ d \in Seq(Task) /\ Len(d) = Len(q) - 1 /\ Len(q) \in Nat
      /\ \A i \in 1 .. Len(q) - 1 : d[i] = IF i < k THEN q[i] ELSE q[i + 1]
    BY RemoveAtFacts
<1> HIDE DEF d
<1>2. /\ \A i \in 1 .. Len(d) : up(i) \in 1 .. Len(q) /\ up(i) # k /\ d[i] = q[up(i)]
      /\ \A i, j \in 1 .. Len(d) : i < j <=> up(i) < up(j)
    BY <1>1
<1>3. \A j \in 1 .. Len(q) : j # k => \E i \in 1 .. Len(d) : up(i) = j
    <2> SUFFICES ASSUME NEW j \in 1 .. Len(q), j # k
                 PROVE  \E i \in 1 .. Len(d) : up(i) = j
        OBVIOUS
    <2>1. CASE j < k
        BY <2>1, <1>1
    <2>2. CASE j > k
        <3>1. j - 1 \in 1 .. Len(d) /\ up(j - 1) = j
            BY <2>2, <1>1
        <3> QED
            BY <3>1
    <2> QED
        BY <2>1, <2>2
<1> HIDE DEF up
<1>4. OnceEach(d)
    <2> SUFFICES ASSUME NEW i \in 1 .. Len(d), NEW j \in 1 .. Len(d), d[i] = d[j]
                 PROVE  i = j
        BY DEF OnceEach
    <2>1. up(i) = up(j)
        BY <1>2 DEF OnceEach
    <2>2. ~(i < j) /\ ~(j < i)
        BY <2>1, <1>2
    <2> QED
        BY <2>2, <1>1
<1>5. \A u \in Task : Occurs(u, d) => Occurs(u, q) /\ u # q[k]
    BY <1>2 DEF Occurs, OnceEach
<1>6. \A u \in Task : Occurs(u, q) /\ u # q[k] => Occurs(u, d)
    BY <1>2, <1>3 DEF Occurs
<1>7. \A pr : Descends(q, pr) => Descends(d, pr)
    BY <1>2 DEF Descends
<1> QED
    BY <1>1, <1>4, <1>5, <1>6, <1>7 DEF d

\* dq_rem() of a node: the list without that task.
LEMMA RemoveFirstMembers ==
    ASSUME NEW q \in Seq(Task), NEW t \in Task, Occurs(t, q), OnceEach(q)
    PROVE  /\ RemoveFirst(q, t) \in Seq(Task)
           /\ OnceEach(RemoveFirst(q, t))
           /\ \A u \in Task : Occurs(u, RemoveFirst(q, t)) <=> Occurs(u, q) /\ u # t
           /\ \A pr : Descends(q, pr) => Descends(RemoveFirst(q, t), pr)
<1> DEFINE I == {i \in 1 .. Len(q) : q[i] = t}
<1>1. I # {} /\ I \in SUBSET Nat
    BY DEF Occurs
<1>2. SelectInSeq(q, LAMBDA v : v = t) = Min(I)
    BY <1>1 DEF SelectInSeq
<1>3. RemoveFirst(q, t) = RemoveAt(q, Min(I))
    BY <1>1, <1>2 DEF RemoveFirst
<1>4. Min(I) \in 1 .. Len(q) /\ q[Min(I)] = t
    BY <1>1, LeastNatural
<1> HIDE DEF I
<1>5. PICK k \in 1 .. Len(q) : RemoveFirst(q, t) = RemoveAt(q, k) /\ q[k] = t
    BY <1>3, <1>4
<1> QED
    BY <1>5, RemoveAtMembers

LEMMA RemoveFirstLen ==
    ASSUME NEW q \in Seq(Task), NEW t \in Task, Occurs(t, q)
    PROVE  Len(RemoveFirst(q, t)) = Len(q) - 1
<1> DEFINE I == {i \in 1 .. Len(q) : q[i] = t}
<1>1. I # {} /\ I \in SUBSET Nat
    BY DEF Occurs
<1>2. SelectInSeq(q, LAMBDA v : v = t) = Min(I)
    BY <1>1 DEF SelectInSeq
<1>3. RemoveFirst(q, t) = RemoveAt(q, Min(I))
    BY <1>1, <1>2 DEF RemoveFirst
<1>4. Min(I) \in 1 .. Len(q)
    BY <1>1, LeastNatural
<1> QED
    BY <1>3, <1>4, RemoveAtFacts

\* dq_remfirst(): the head of a list in order is the most urgent task.
LEMMA TailMembers ==
    ASSUME NEW q \in Seq(Task), q # << >>, OnceEach(q)
    PROVE  /\ Tail(q) \in Seq(Task) /\ Len(Tail(q)) = Len(q) - 1
           /\ Head(q) \in Task /\ Occurs(Head(q), q)
           /\ OnceEach(Tail(q))
           /\ \A u \in Task : Occurs(u, Tail(q)) <=> Occurs(u, q) /\ u # Head(q)
           /\ \A pr : Descends(q, pr) => Descends(Tail(q), pr)
           /\ \A pr : Descends(q, pr) =>
                \A u \in Task : Occurs(u, Tail(q)) => pr[Head(q)] >= pr[u]
<1>1. /\ Len(q) \in Nat /\ Len(q) >= 1 /\ Head(q) = q[1] /\ q[1] \in Task
      /\ Tail(q) \in Seq(Task) /\ Len(Tail(q)) = Len(q) - 1
      /\ \A i \in 1 .. Len(q) - 1 : Tail(q)[i] = q[i + 1]
    BY HeadTailProperties
<1>2. OnceEach(Tail(q))
    BY <1>1 DEF OnceEach
<1>3. ASSUME NEW u \in Task
      PROVE  Occurs(u, Tail(q)) <=> Occurs(u, q) /\ u # Head(q)
    <2>1. Occurs(u, Tail(q)) => Occurs(u, q) /\ u # Head(q)
        BY <1>1 DEF Occurs, OnceEach
    <2>2. ASSUME NEW i \in 1 .. Len(q), q[i] = u, u # q[1]
          PROVE  Occurs(u, Tail(q))
        <3>1. i - 1 \in 1 .. Len(q) - 1 /\ (i - 1) + 1 = i
            BY <1>1, <2>2
        <3>2. Tail(q)[i - 1] = u
            BY <1>1, <2>2, <3>1
        <3> QED
            BY <1>1, <3>1, <3>2 DEF Occurs
    <2> QED
        BY <1>1, <2>1, <2>2 DEF Occurs
<1>4. \A pr : Descends(q, pr) => Descends(Tail(q), pr)
    BY <1>1 DEF Descends
<1>5. ASSUME NEW pr, Descends(q, pr), NEW u \in Task, Occurs(u, Tail(q))
      PROVE  pr[Head(q)] >= pr[u]
    <2>1. PICK i \in 1 .. Len(q) - 1 : q[i + 1] = u
        BY <1>1, <1>5 DEF Occurs
    <2> QED
        BY <1>1, <1>5, <2>1 DEF Descends
<1> QED
    BY <1>1, <1>2, <1>3, <1>4, <1>5 DEF Occurs

\* The list with t at the k-th place, where it is not out of order.
LEMMA InsertAtMembers ==
    ASSUME NEW q \in Seq(Task), NEW t \in Task, ~Occurs(t, q), OnceEach(q),
           NEW k \in 1 .. Len(q) + 1
    PROVE  /\ InsertAt(q, k, t) \in Seq(Task)
           /\ OnceEach(InsertAt(q, k, t))
           /\ \A u \in Task : Occurs(u, InsertAt(q, k, t)) <=> Occurs(u, q) \/ u = t
           /\ \A pr : /\ pr \in [Task -> Nat] /\ Descends(q, pr)
                      /\ \A i \in 1 .. Len(q) : i < k <=> pr[q[i]] >= pr[t]
                      => Descends(InsertAt(q, k, t), pr)
<1> DEFINE d == InsertAt(q, k, t)
           down(n) == IF n < k THEN n ELSE n - 1
<1>1. /\ d \in Seq(Task) /\ Len(d) = Len(q) + 1 /\ Len(q) \in Nat
      /\ \A i \in 1 .. Len(q) + 1 : d[i] = IF i < k THEN q[i] ELSE IF i = k THEN t ELSE q[i - 1]
    <2>1. Len(q) \in Nat
        OBVIOUS
    <2> QED
        BY <2>1, InsertAtFacts
<1> HIDE DEF d
<1>2. /\ d[k] = t
      /\ \A i \in 1 .. Len(d) : i # k =>
            down(i) \in 1 .. Len(q) /\ d[i] = q[down(i)] /\ (down(i) < k <=> i < k)
      /\ \A i, j \in 1 .. Len(d) : i # k /\ j # k => (i < j <=> down(i) < down(j))
    BY <1>1
<1>3. \A j \in 1 .. Len(q) : \E i \in 1 .. Len(d) : i # k /\ down(i) = j
    <2> SUFFICES ASSUME NEW j \in 1 .. Len(q)
                 PROVE  \E i \in 1 .. Len(d) : i # k /\ down(i) = j
        OBVIOUS
    <2>1. CASE j < k
        <3>1. j \in 1 .. Len(d) /\ j # k /\ down(j) = j
            BY <2>1, <1>1
        <3> QED
            BY <3>1
    <2>2. CASE ~(j < k)
        <3>1. j + 1 \in 1 .. Len(d) /\ j + 1 # k /\ down(j + 1) = j
            BY <2>2, <1>1
        <3> QED
            BY <3>1
    <2> QED
        BY <2>1, <2>2
<1>4. k \in 1 .. Len(d) /\ \A i \in 1 .. Len(d) : i \in Int
    BY <1>1
<1> HIDE DEF down
<1>5. OnceEach(d)
    <2> SUFFICES ASSUME NEW i \in 1 .. Len(d), NEW j \in 1 .. Len(d), d[i] = d[j]
                 PROVE  i = j
        BY DEF OnceEach
    <2>1. CASE i = k \/ j = k
        BY <2>1, <1>2 DEF Occurs
    <2>2. CASE i # k /\ j # k
        <3>1. down(i) = down(j)
            BY <2>2, <1>2 DEF OnceEach
        <3>2. ~(i < j) /\ ~(j < i)
            BY <2>2, <3>1, <1>2
        <3> QED
            BY <3>2, <1>1
    <2> QED
        BY <2>1, <2>2
<1>6. \A u \in Task : Occurs(u, d) => Occurs(u, q) \/ u = t
    BY <1>2 DEF Occurs
<1>7. \A u \in Task : Occurs(u, q) \/ u = t => Occurs(u, d)
    BY <1>2, <1>3, <1>4 DEF Occurs
<1>8. ASSUME NEW pr \in [Task -> Nat], Descends(q, pr),
             \A i \in 1 .. Len(q) : i < k <=> pr[q[i]] >= pr[t]
      PROVE  Descends(d, pr)
    <2> SUFFICES ASSUME NEW i \in 1 .. Len(d), NEW j \in 1 .. Len(d), i < j
                 PROVE  pr[d[i]] >= pr[d[j]]
        BY DEF Descends
    <2>1. CASE i = k
        <3>1. ~(j < k) /\ j # k
            BY <2>1, <1>4
        <3>2. down(j) \in 1 .. Len(q) /\ d[j] = q[down(j)] /\ ~(pr[q[down(j)]] >= pr[t])
            BY <3>1, <1>2, <1>8
        <3>3. q[down(j)] \in Task
            BY <3>2
        <3> QED
            BY <2>1, <3>2, <3>3, <1>2
    <2>2. CASE j = k
        <3>1. i < k /\ i # k
            BY <2>2, <1>4
        <3>2. down(i) \in 1 .. Len(q) /\ d[i] = q[down(i)] /\ pr[q[down(i)]] >= pr[t]
            BY <3>1, <1>2, <1>8
        <3> QED
            BY <2>2, <3>2, <1>2
    <2>3. CASE i # k /\ j # k
        BY <2>3, <1>2, <1>8 DEF Descends
    <2> QED
        BY <2>1, <2>2, <2>3
<1> QED
    BY <1>1, <1>5, <1>6, <1>7, <1>8 DEF d

=============================================================================
