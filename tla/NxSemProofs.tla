---------------------------- MODULE NxSemProofs -----------------------------
(***************************************************************************)
(* Semaphores, mutexes and priority inheritance, for every number of tasks *)
(* and semaphores, all priorities and all bounds on the calls.             *)
(*                                                                         *)
(* The proofs have two layers.  Counts, wait lists and holder entries stay *)
(* consistent whatever ends a wait (CountLayer).  The mutex word, the      *)
(* priorities and the order of the wait lists need that no wait for a      *)
(* mutex is ended by a timeout or a signal (OwnerLayer): MCNxSemTimeout    *)
(* shows what a timeout does to a mutex.                                   *)
(*                                                                         *)
(* Both need CarefulDelete: nxtask_terminate() takes a waiter twice from   *)
(* its list, which loses the other waiters, and gives back the counts of a *)
(* holder without waking anybody.                                          *)
(***************************************************************************)
EXTENDS NxSem, NxListLemmas

-----------------------------------------------------------------------------
(* The first layer of the inductive invariant. *)

\* The types of TypeOK.
Word == [tid : Task \cup {Null}, blocking : BOOLEAN]
SemType ==
    /\ count \in [Counting -> Int]
    /\ mholder \in [Mutex -> Word]
    /\ waitlist \in [Sem -> Seq(Task)]
    /\ holder \in [Sem -> [Task -> Nat]]
    /\ prio \in [Task -> 1 .. 255]
    /\ errcode \in [Task -> {"OK", "EINTR", "ETIMEDOUT"}]
    /\ waitdog \in [Task -> BOOLEAN]
    /\ alive \subseteq Task
    /\ irqlock \in alive \cup {Null}
    /\ pc \in [Task -> Label]
    /\ sem \in [Task -> Sem \cup {Null}]
    /\ held \in [Task -> Sem \cup {Null}]

\* What a program point says about the fields of a task.
Shape(t) ==
    /\ pc[t] = "run" => sem[t] = Null
    /\ pc[t] \in {"wait", "blocked", "resumed"} => sem[t] \in Sem /\ held[t] = Null
    /\ pc[t] = "post" => sem[t] \in Sem /\ held[t] = IF sem[t] \in Event THEN Null ELSE sem[t]
    /\ held[t] \in Inherit \cup {Null}
    /\ t \notin alive => pc[t] = "run" /\ held[t] = Null
    /\ waitdog[t] => pc[t] \in {"wait", "blocked", "resumed"} /\ sem[t] \in Timed
    /\ pc[t] = "blocked" => errcode[t] = "OK"

ShapeInv == \A t \in Task : Shape(t)

\* A wait list has every waiter once.
ListInv ==
    \A s \in Sem :
        /\ OnceEach(waitlist[s])
        /\ \A t \in Task : Occurs(t, waitlist[s]) <=> Waits(t, s)

\* A pool has one holder entry for each owner, an event none.
EntryInv ==
    /\ \A s \in Pool : \A t \in Task : holder[s][t] = IF Owns(t, s) THEN 1 ELSE 0
    /\ \A s \in Event : \A t \in Task : holder[s][t] = 0

\* CountsConserved, with the maximum spelled out.
Held(s) == Cardinality({t \in Task : Owns(t, s)})
CountInv ==
    /\ \A s \in Counting : /\ count[s] >= 0 => Len(waitlist[s]) = 0
                           /\ count[s] < 0 => Len(waitlist[s]) = -count[s]
    /\ \A s \in Pool : count[s] + Len(waitlist[s]) + Held(s) = Value0[s]

CountLayer == SemType /\ ShapeInv /\ ListInv /\ EntryInv /\ CountInv

-----------------------------------------------------------------------------
(* Owners. *)

LEMMA SemFacts ==
    /\ \A s \in Sem : s # Null
    /\ Counting \subseteq Sem /\ Mutex \subseteq Sem /\ Inherit \subseteq Sem
    /\ \A s \in Sem : s \in Mutex <=> s \notin Counting
    /\ \A s \in Sem : s \in Event <=> s \notin Inherit
    /\ Pool \subseteq Counting /\ Event \subseteq Counting /\ Pool \subseteq Inherit
    /\ \A s \in Counting : s \in Pool <=> s \notin Event
    /\ \A s \in Pool : s \notin Mutex /\ s \notin Event
    /\ \A s \in Event : s \notin Mutex /\ s \notin Pool /\ s \notin Inherit
    /\ \A s \in Mutex : s \notin Pool /\ s \notin Event /\ s \in Inherit
    /\ Null \notin Task
BY SemAssumption DEF Sem, Counting, Inherit

LEMMA WordFacts ==
    /\ Free \in Word
    /\ \A t \in Task \cup {Null} : \A b \in BOOLEAN : [tid |-> t, blocking |-> b] \in Word
    /\ \A w \in Word : /\ w.tid \in Task \cup {Null} /\ w.blocking \in BOOLEAN
                       /\ [w EXCEPT !.blocking = TRUE] \in Word
                       /\ [w EXCEPT !.blocking = FALSE] \in Word
BY DEF Word, Free

LEMMA WordOf ==
    ASSUME NEW t, NEW b \in BOOLEAN
    PROVE  [tid |-> t, blocking |-> b].tid = t /\ [tid |-> t, blocking |-> b].blocking = b
OBVIOUS

\* The value TakeMutex() stores.
LEMMA TakeMutexFacts ==
    ASSUME SemType, NEW t \in Task, NEW s \in Mutex, TakeMutex(t, s)
    PROVE  /\ mholder' \in [Mutex -> Word]
           /\ mholder'[s] = [tid |-> t, blocking |-> waitlist[s] # << >>]
           /\ \A r \in Mutex \ {s} : mholder'[r] = mholder[r]
<1> DEFINE w == [tid |-> t, blocking |-> waitlist[s] # << >>]
<1>1. w \in Word
    BY WordFacts
<1>2. mholder' = [mholder EXCEPT ![s] = w]
    BY DEF TakeMutex
<1> HIDE DEF w
<1>3. mholder' \in [Mutex -> Word] /\ mholder'[s] = w /\ \A r \in Mutex \ {s} : mholder'[r] = mholder[r]
    BY <1>1, <1>2 DEF SemType
<1> QED
    BY <1>3 DEF w

\* nxsem_add_holder_tcb()
LEMMA AddHolderFacts ==
    ASSUME SemType, NEW t \in Task, NEW s \in Sem
    PROVE  /\ AddHolder(s, t) \in [Sem -> [Task -> Nat]]
           /\ s \notin Inherit => AddHolder(s, t) = holder
           /\ \A q \in Sem \ {s} : AddHolder(s, t)[q] = holder[q]
           /\ s \in Inherit => /\ AddHolder(s, t)[s][t] = holder[s][t] + 1
                               /\ \A u \in Task \ {t} : AddHolder(s, t)[s][u] = holder[s][u]
BY DEF SemType, AddHolder

\* Who owns what, by program point.
LEMMA OwnsFacts ==
    ASSUME ShapeInv, NEW t \in Task, NEW s \in Sem
    PROVE  /\ pc[t] \in {"wait", "blocked"} => ~Owns(t, s)
           /\ held[t] = Null /\ pc[t] # "resumed" => ~Owns(t, s)
           /\ pc[t] = "resumed" => (Owns(t, s) <=> sem[t] = s /\ errcode[t] = "OK")
           /\ pc[t] # "resumed" => (Owns(t, s) <=> held[t] = s)
           /\ Owns(t, s) => t \in alive /\ ~Waits(t, s)
           /\ Waits(t, s) => t \in alive
           /\ \A r \in Sem : Owns(t, s) /\ Owns(t, r) => s = r
BY SemFacts DEF ShapeInv, Shape, Owns, Waits

LEMMA OwnersFinite ==
    \A s \in Sem : IsFiniteSet({t \in Task : Owns(t, s)}) /\ Held(s) \in Nat
<1> SUFFICES ASSUME NEW s \in Sem
             PROVE  IsFiniteSet({t \in Task : Owns(t, s)}) /\ Held(s) \in Nat
    OBVIOUS
<1>1. IsFiniteSet({t \in Task : Owns(t, s)})
    BY SemAssumption, FS_Subset
<1> QED
    BY <1>1, FS_CardinalityType DEF Held

LEMMA CountTypes ==
    ASSUME SemType, NEW q \in Pool
    PROVE  Held(q) \in Nat /\ count[q] \in Int /\ Len(waitlist[q]) \in Nat /\ Value0[q] \in Nat
<1>1. q \in Sem /\ q \in Counting
    BY SemFacts
<1>2. waitlist[q] \in Seq(Task) /\ count[q] \in Int
    BY <1>1 DEF SemType
<1>3. Value0[q] \in Nat
    BY <1>1, SemAssumption
<1>4. Held(q) \in Nat
    BY <1>1, OwnersFinite
<1> QED
    BY <1>2, <1>3, <1>4

LEMMA HeldSame ==
    ASSUME NEW s \in Sem, \A u \in Task : Owns(u, s)' <=> Owns(u, s)
    PROVE  Held(s)' = Held(s)
<1>1. {u \in Task : Owns(u, s)'} = {u \in Task : Owns(u, s)}
    OBVIOUS
<1> QED
    BY <1>1 DEF Held

LEMMA HeldPlus ==
    ASSUME NEW s \in Sem, NEW t \in Task, ~Owns(t, s), Owns(t, s)',
           \A u \in Task \ {t} : Owns(u, s)' <=> Owns(u, s)
    PROVE  Held(s)' = Held(s) + 1
<1> DEFINE S == {u \in Task : Owns(u, s)}
<1>1. {u \in Task : Owns(u, s)'} = S \cup {t}
    OBVIOUS
<1>2. IsFiniteSet(S) /\ t \notin S
    BY OwnersFinite
<1>3. Cardinality(S \cup {t}) = Cardinality(S) + 1
    BY <1>2, FS_AddElement
<1> QED
    BY <1>1, <1>3 DEF Held

LEMMA HeldMinus ==
    ASSUME NEW s \in Sem, NEW t \in Task, Owns(t, s), ~Owns(t, s)',
           \A u \in Task \ {t} : Owns(u, s)' <=> Owns(u, s)
    PROVE  Held(s)' = Held(s) - 1
<1> DEFINE S == {u \in Task : Owns(u, s)}
<1>1. {u \in Task : Owns(u, s)'} = S \ {t}
    OBVIOUS
<1>2. IsFiniteSet(S) /\ t \in S
    BY OwnersFinite
<1>3. Cardinality(S \ {t}) = Cardinality(S) - 1
    BY <1>2, FS_RemoveElement
<1> QED
    BY <1>1, <1>3 DEF Held

\* A count passes from t to w.
LEMMA HeldMoves ==
    ASSUME NEW s \in Sem, NEW t \in Task, NEW w \in Task, t # w,
           Owns(t, s), ~Owns(t, s)', ~Owns(w, s), Owns(w, s)',
           \A u \in Task \ {t, w} : Owns(u, s)' <=> Owns(u, s)
    PROVE  Held(s)' = Held(s)
<1> DEFINE S == {u \in Task : Owns(u, s)}
<1>1. {u \in Task : Owns(u, s)'} = (S \ {t}) \cup {w}
    OBVIOUS
<1>2. IsFiniteSet(S) /\ t \in S /\ w \notin S \ {t} /\ Cardinality(S) \in Nat
    BY OwnersFinite, FS_CardinalityType
<1>3. IsFiniteSet(S \ {t}) /\ Cardinality(S \ {t}) = Cardinality(S) - 1
    BY <1>2, FS_RemoveElement
<1>4. Cardinality((S \ {t}) \cup {w}) = Cardinality(S \ {t}) + 1
    BY <1>2, <1>3, FS_AddElement
<1>5. Held(s)' = Cardinality((S \ {t}) \cup {w}) /\ Held(s) = Cardinality(S)
    BY <1>1 DEF Held
<1> HIDE DEF S
<1> QED
    BY <1>2, <1>3, <1>4, <1>5

-----------------------------------------------------------------------------
(* A step changes the fields of one task. *)

Same(t) ==
    \A u \in Task \ {t} :
        /\ pc'[u] = pc[u] /\ sem'[u] = sem[u] /\ held'[u] = held[u]
        /\ errcode'[u] = errcode[u] /\ (u \in alive' <=> u \in alive)
        /\ waitdog'[u] = waitdog[u]

LEMMA Others ==
    ASSUME NEW t, Same(t), NEW u \in Task \ {t}, NEW s
    PROVE  (Owns(u, s)' <=> Owns(u, s)) /\ (Waits(u, s)' <=> Waits(u, s))
BY DEF Same, Owns, Waits

LEMMA ShapeKept ==
    ASSUME ShapeInv, NEW t, Same(t), t \in Task => Shape(t)'
    PROVE  ShapeInv'
<1> SUFFICES ASSUME NEW u \in Task
             PROVE  Shape(u)'
    BY DEF ShapeInv
<1>1. CASE u = t
    BY <1>1
<1>2. CASE u # t
    BY <1>2 DEF ShapeInv, Same, Shape
<1> QED
    BY <1>1, <1>2

\* Nothing the first layer speaks of moves.
LEMMA QuietStep ==
    ASSUME CountLayer, SemType', NEW t \in Task, Same(t), Shape(t)',
           UNCHANGED <<count, waitlist>>, \A q \in Counting : holder'[q] = holder[q],
           \A q \in Sem : Waits(t, q)' <=> Waits(t, q),
           \A q \in Pool : Owns(t, q)' <=> Owns(t, q)
    PROVE  CountLayer'
<1>1. /\ \A u \in Task : \A q \in Sem : Waits(u, q)' <=> Waits(u, q)
      /\ \A u \in Task : \A q \in Pool : Owns(u, q)' <=> Owns(u, q)
    BY Others
<1>2. ShapeInv'
    BY ShapeKept DEF CountLayer
<1>3. ListInv'
    BY <1>1 DEF CountLayer, ListInv
<1>4. EntryInv'
    BY <1>1, SemFacts DEF CountLayer, EntryInv
<1>5. \A q \in Pool : Held(q)' = Held(q)
    BY <1>1, SemFacts, HeldSame
<1>6. CountInv'
    BY <1>5 DEF CountLayer, CountInv
<1> QED
    BY <1>2, <1>3, <1>4, <1>6 DEF CountLayer

\* t takes a count that is there.
LEMMA TakeStep ==
    ASSUME CountLayer, SemType', NEW t \in Task, Same(t), Shape(t)',
           NEW s \in Counting, count[s] > 0,
           count' = [count EXCEPT ![s] = @ - 1], waitlist' = waitlist,
           holder' = AddHolder(s, t),
           \A q \in Sem : ~Waits(t, q) /\ ~Waits(t, q)',
           \A q \in Pool : ~Owns(t, q) /\ (Owns(t, q)' <=> q = s)
    PROVE  CountLayer'
<1>0. SemType /\ ShapeInv /\ ListInv /\ EntryInv /\ CountInv
    BY DEF CountLayer
<1>1. \A u \in Task : \A q \in Sem : Waits(u, q)' <=> Waits(u, q)
    BY Others
<1>2. ShapeInv'
    BY <1>0, ShapeKept
<1>3. ListInv'
    BY <1>0, <1>1 DEF ListInv
<1>4. /\ count'[s] = count[s] - 1 /\ count[s] \in Int
      /\ \A q \in Counting \ {s} : count'[q] = count[q]
    BY <1>0 DEF SemType
<1>5. /\ \A q \in Sem \ {s} : holder'[q] = holder[q]
      /\ s \in Event => holder' = holder
      /\ s \in Pool => /\ holder'[s][t] = holder[s][t] + 1
                       /\ \A u \in Task \ {t} : holder'[s][u] = holder[s][u]
    BY <1>0, SemFacts DEF SemType, AddHolder
<1>6. EntryInv'
    <2>1. ASSUME NEW q \in Pool, NEW u \in Task
          PROVE  holder'[q][u] = IF Owns(u, q)' THEN 1 ELSE 0
        <3>1. holder[q][u] = IF Owns(u, q) THEN 1 ELSE 0
            BY <1>0 DEF EntryInv
        <3>2. CASE u = t /\ q = s
            BY <1>5, <3>1, <3>2
        <3>3. CASE u = t /\ q # s
            BY <1>5, <3>1, <3>3, SemFacts
        <3>4. CASE u # t
            BY <1>5, <3>1, <3>4, SemFacts, Others
        <3> QED
            BY <3>2, <3>3, <3>4
    <2>2. \A q \in Event : \A u \in Task : holder'[q][u] = 0
        BY <1>0, <1>5, SemFacts DEF EntryInv
    <2> QED
        BY <2>1, <2>2 DEF EntryInv
<1>7. \A q \in Pool : Held(q)' = IF q = s THEN Held(q) + 1 ELSE Held(q)
    <2> SUFFICES ASSUME NEW q \in Pool
                 PROVE  Held(q)' = IF q = s THEN Held(q) + 1 ELSE Held(q)
        OBVIOUS
    <2>1. q \in Sem /\ \A u \in Task \ {t} : Owns(u, q)' <=> Owns(u, q)
        BY SemFacts, Others
    <2>2. CASE q = s
        BY <2>1, <2>2, HeldPlus
    <2>3. CASE q # s
        BY <2>1, <2>3, HeldSame
    <2> QED
        BY <2>2, <2>3
<1>8. CountInv'
    <2>1. \A q \in Counting : /\ count'[q] >= 0 => Len(waitlist'[q]) = 0
                              /\ count'[q] < 0 => Len(waitlist'[q]) = -count'[q]
        BY <1>0, <1>4 DEF CountInv
    <2>2. ASSUME NEW q \in Pool
          PROVE  count'[q] + Len(waitlist'[q]) + Held(q)' = Value0[q]
        <3>1. count[q] + Len(waitlist[q]) + Held(q) = Value0[q]
            BY <1>0 DEF CountInv
        <3>2. Held(q) \in Nat /\ count[q] \in Int /\ Len(waitlist[q]) \in Nat
            BY <1>0, CountTypes
        <3> QED
            BY <1>4, <1>7, <3>1, <3>2, SemFacts
    <2> QED
        BY <2>1, <2>2 DEF CountInv
<1> QED
    BY <1>2, <1>3, <1>6, <1>8 DEF CountLayer

\* The priority inserted among the waiters, wherever it falls.
LEMMA AddPrioritizedMembers ==
    ASSUME NEW q \in Seq(Task), NEW t \in Task, ~Occurs(t, q), OnceEach(q)
    PROVE  LET d == AddPrioritized(q, t) IN
           /\ d \in Seq(Task) /\ Len(d) = Len(q) + 1 /\ OnceEach(d)
           /\ \A u \in Task : Occurs(u, d) <=> Occurs(u, q) \/ u = t
<1> DEFINE S == {i \in DOMAIN q : prio[q[i]] >= prio[t]}
<1>1. S \subseteq 1 .. Len(q) /\ Len(q) \in Nat
    OBVIOUS
<1>2. IsFiniteSet(1 .. Len(q)) /\ Cardinality(1 .. Len(q)) = Len(q)
    BY <1>1, FS_Interval
<1>3. Cardinality(S) \in Nat /\ Cardinality(S) <= Len(q)
    BY <1>1, <1>2, FS_Subset, FS_CardinalityType
<1> HIDE DEF S
<1>4. Cardinality(S) + 1 \in 1 .. Len(q) + 1
    BY <1>1, <1>3
<1>5. AddPrioritized(q, t) = InsertAt(q, Cardinality(S) + 1, t)
    BY DEF AddPrioritized, S
<1> QED
    BY <1>4, <1>5, InsertAtFacts, InsertAtMembers

\* t blocks: it joins the wait list and takes a count that is not there.
LEMMA BlockStep ==
    ASSUME CountLayer, SemType', NEW t \in Task, Same(t), Shape(t)',
           NEW s \in Sem, waitlist' = [waitlist EXCEPT ![s] = AddPrioritized(@, t)],
           s \in Counting => count[s] <= 0,
           count' = IF s \in Mutex THEN count ELSE [count EXCEPT ![s] = @ - 1],
           \A q \in Counting : holder'[q] = holder[q],
           \A q \in Sem : ~Waits(t, q) /\ (Waits(t, q)' <=> q = s),
           \A q \in Pool : ~Owns(t, q) /\ ~Owns(t, q)'
    PROVE  CountLayer'
<1>0. SemType /\ ShapeInv /\ ListInv /\ EntryInv /\ CountInv
    BY DEF CountLayer
<1>1. /\ \A u \in Task \ {t} : \A q \in Sem : Waits(u, q)' <=> Waits(u, q)
      /\ \A u \in Task : \A q \in Pool : Owns(u, q)' <=> Owns(u, q)
    BY Others
<1>2. ShapeInv'
    BY <1>0, ShapeKept
<1> DEFINE d == AddPrioritized(waitlist[s], t)
<1>3. waitlist[s] \in Seq(Task) /\ OnceEach(waitlist[s]) /\ ~Occurs(t, waitlist[s])
    BY <1>0 DEF SemType, ListInv
<1>4. /\ d \in Seq(Task) /\ Len(d) = Len(waitlist[s]) + 1 /\ OnceEach(d)
      /\ \A u \in Task : Occurs(u, d) <=> Occurs(u, waitlist[s]) \/ u = t
    BY <1>3, AddPrioritizedMembers
<1>5. waitlist'[s] = d /\ \A q \in Sem \ {s} : waitlist'[q] = waitlist[q]
    BY <1>0 DEF SemType
<1> HIDE DEF d
<1>6. ListInv'
    BY <1>0, <1>1, <1>4, <1>5 DEF ListInv
<1>7. EntryInv'
    BY <1>0, <1>1, SemFacts DEF EntryInv
<1>8. \A q \in Pool : Held(q)' = Held(q)
    BY <1>1, SemFacts, HeldSame
<1>9. /\ \A q \in Counting \ {s} : count'[q] = count[q]
      /\ s \in Counting => count'[s] = count[s] - 1 /\ count[s] \in Int /\ count[s] <= 0
    BY <1>0, SemFacts DEF SemType
<1>10. CountInv'
    <2>1. ASSUME NEW q \in Counting
          PROVE  /\ count'[q] >= 0 => Len(waitlist'[q]) = 0
                 /\ count'[q] < 0 => Len(waitlist'[q]) = -count'[q]
        <3>1. /\ count[q] >= 0 => Len(waitlist[q]) = 0
              /\ count[q] < 0 => Len(waitlist[q]) = -count[q]
            BY <1>0 DEF CountInv
        <3>2. CASE q = s
            BY <1>4, <1>5, <1>9, <3>1, <3>2
        <3>3. CASE q # s
            BY <1>5, <1>9, <3>1, <3>3, SemFacts
        <3> QED
            BY <3>2, <3>3
    <2>2. ASSUME NEW q \in Pool
          PROVE  count'[q] + Len(waitlist'[q]) + Held(q)' = Value0[q]
        <3>1. count[q] + Len(waitlist[q]) + Held(q) = Value0[q]
            BY <1>0 DEF CountInv
        <3>2. Held(q) \in Nat /\ count[q] \in Int /\ Len(waitlist[q]) \in Nat
            BY <1>0, CountTypes
        <3>3. CASE q = s
            BY <1>4, <1>5, <1>8, <1>9, <3>1, <3>2, <3>3, SemFacts
        <3>4. CASE q # s
            BY <1>5, <1>8, <1>9, <3>1, <3>2, <3>4, SemFacts
        <3> QED
            BY <3>3, <3>4
    <2> QED
        BY <2>1, <2>2 DEF CountInv
<1> QED
    BY <1>2, <1>6, <1>7, <1>10 DEF CountLayer

\* The wait of t ends without the semaphore: it leaves the list and gives the
\* count back.
LEMMA CancelStep ==
    ASSUME CountLayer, SemType', NEW t \in Task, Same(t), Shape(t)',
           NEW s \in Sem, waitlist' = [waitlist EXCEPT ![s] = RemoveFirst(@, t)],
           count' = IF s \in Mutex THEN count ELSE [count EXCEPT ![s] = @ + 1],
           \A q \in Counting : holder'[q] = holder[q],
           \A q \in Sem : (Waits(t, q) <=> q = s) /\ ~Waits(t, q)',
           \A q \in Pool : ~Owns(t, q) /\ ~Owns(t, q)'
    PROVE  CountLayer'
<1>0. SemType /\ ShapeInv /\ ListInv /\ EntryInv /\ CountInv
    BY DEF CountLayer
<1>1. /\ \A u \in Task \ {t} : \A q \in Sem : Waits(u, q)' <=> Waits(u, q)
      /\ \A u \in Task : \A q \in Pool : Owns(u, q)' <=> Owns(u, q)
    BY Others
<1>2. ShapeInv'
    BY <1>0, ShapeKept
<1> DEFINE d == RemoveFirst(waitlist[s], t)
<1>3. waitlist[s] \in Seq(Task) /\ OnceEach(waitlist[s]) /\ Occurs(t, waitlist[s])
    BY <1>0 DEF SemType, ListInv
<1>4. /\ d \in Seq(Task) /\ OnceEach(d)
      /\ \A u \in Task : Occurs(u, d) <=> Occurs(u, waitlist[s]) /\ u # t
    BY <1>3, RemoveFirstMembers
<1>5. Len(d) = Len(waitlist[s]) - 1 /\ Len(waitlist[s]) \in Nat /\ Len(waitlist[s]) # 0
    BY <1>3, RemoveFirstLen DEF Occurs
<1>6. waitlist'[s] = d /\ \A q \in Sem \ {s} : waitlist'[q] = waitlist[q]
    BY <1>0 DEF SemType
<1> HIDE DEF d
<1>7. ListInv'
    BY <1>0, <1>1, <1>4, <1>6 DEF ListInv
<1>8. EntryInv'
    BY <1>0, <1>1, SemFacts DEF EntryInv
<1>9. \A q \in Pool : Held(q)' = Held(q)
    BY <1>1, SemFacts, HeldSame
<1>10. /\ \A q \in Counting \ {s} : count'[q] = count[q]
       /\ s \in Counting => count'[s] = count[s] + 1 /\ count[s] \in Int
    BY <1>0, SemFacts DEF SemType
<1>11. CountInv'
    <2>1. ASSUME NEW q \in Counting
          PROVE  /\ count'[q] >= 0 => Len(waitlist'[q]) = 0
                 /\ count'[q] < 0 => Len(waitlist'[q]) = -count'[q]
        <3>1. /\ count[q] >= 0 => Len(waitlist[q]) = 0
              /\ count[q] < 0 => Len(waitlist[q]) = -count[q]
            BY <1>0 DEF CountInv
        <3>2. CASE q = s
            BY <1>5, <1>6, <1>10, <3>1, <3>2
        <3>3. CASE q # s
            BY <1>6, <1>10, <3>1, <3>3, SemFacts
        <3> QED
            BY <3>2, <3>3
    <2>2. ASSUME NEW q \in Pool
          PROVE  count'[q] + Len(waitlist'[q]) + Held(q)' = Value0[q]
        <3>1. count[q] + Len(waitlist[q]) + Held(q) = Value0[q]
            BY <1>0 DEF CountInv
        <3>2. Held(q) \in Nat /\ count[q] \in Int /\ Len(waitlist[q]) \in Nat
            BY <1>0, CountTypes
        <3>3. CASE q = s
            BY <1>5, <1>6, <1>9, <1>10, <3>1, <3>2, <3>3, SemFacts
        <3>4. CASE q # s
            BY <1>6, <1>9, <1>10, <3>1, <3>2, <3>4, SemFacts
        <3> QED
            BY <3>3, <3>4
    <2> QED
        BY <2>1, <2>2 DEF CountInv
<1> QED
    BY <1>2, <1>7, <1>8, <1>11 DEF CountLayer

\* t, or an interrupt handler, gives a count that nobody waits for.
LEMMA GiveStep ==
    ASSUME CountLayer, SemType', NEW t \in Task \cup {Null}, Same(t), t \in Task => Shape(t)',
           NEW s \in Counting, count[s] >= 0,
           count' = [count EXCEPT ![s] = @ + 1], waitlist' = waitlist,
           \A q \in Counting : \A u \in Task :
               holder'[q][u] = IF q = s /\ q \in Pool /\ u = t THEN 0 ELSE holder[q][u],
           t \in Task => \A q \in Sem : Waits(t, q)' <=> Waits(t, q),
           t \in Task => \A q \in Pool : (Owns(t, q) <=> q = s) /\ ~Owns(t, q)',
           s \in Pool => t \in Task
    PROVE  CountLayer'
<1>0. SemType /\ ShapeInv /\ ListInv /\ EntryInv /\ CountInv
    BY DEF CountLayer
<1>1. /\ \A u \in Task : \A q \in Sem : Waits(u, q)' <=> Waits(u, q)
      /\ \A u \in Task \ {t} : \A q \in Pool : Owns(u, q)' <=> Owns(u, q)
    BY Others
<1>2. ShapeInv'
    BY <1>0, ShapeKept
<1>3. ListInv'
    BY <1>0, <1>1 DEF ListInv
<1>4. /\ count'[s] = count[s] + 1 /\ count[s] \in Int
      /\ \A q \in Counting \ {s} : count'[q] = count[q]
    BY <1>0 DEF SemType
<1>5. EntryInv'
    <2>1. ASSUME NEW q \in Pool, NEW u \in Task
          PROVE  holder'[q][u] = IF Owns(u, q)' THEN 1 ELSE 0
        <3>1. holder[q][u] = (IF Owns(u, q) THEN 1 ELSE 0) /\ q \in Counting
            BY <1>0, SemFacts DEF EntryInv
        <3>2. CASE u = t
            BY <3>1, <3>2
        <3>3. CASE u # t
            BY <1>1, <3>1, <3>3
        <3> QED
            BY <3>2, <3>3
    <2>2. \A q \in Event : \A u \in Task : holder'[q][u] = 0
        BY <1>0, SemFacts DEF EntryInv
    <2> QED
        BY <2>1, <2>2 DEF EntryInv
<1>6. \A q \in Pool : Held(q)' = IF q = s THEN Held(q) - 1 ELSE Held(q)
    <2> SUFFICES ASSUME NEW q \in Pool
                 PROVE  Held(q)' = IF q = s THEN Held(q) - 1 ELSE Held(q)
        OBVIOUS
    <2>1. q \in Sem
        BY SemFacts
    <2>2. CASE q = s
        BY <1>1, <2>1, <2>2, HeldMinus
    <2>3. CASE q # s
        <3>1. \A u \in Task : Owns(u, q)' <=> Owns(u, q)
            BY <1>1, <2>3
        <3> QED
            BY <2>1, <2>3, <3>1, HeldSame
    <2> QED
        BY <2>2, <2>3
<1>7. CountInv'
    <2>1. \A q \in Counting : /\ count'[q] >= 0 => Len(waitlist'[q]) = 0
                              /\ count'[q] < 0 => Len(waitlist'[q]) = -count'[q]
        BY <1>0, <1>4 DEF CountInv
    <2>2. ASSUME NEW q \in Pool
          PROVE  count'[q] + Len(waitlist'[q]) + Held(q)' = Value0[q]
        <3>1. count[q] + Len(waitlist[q]) + Held(q) = Value0[q]
            BY <1>0 DEF CountInv
        <3>2. Held(q) \in Nat /\ count[q] \in Int /\ Len(waitlist[q]) \in Nat
            BY <1>0, CountTypes
        <3> QED
            BY <1>4, <1>6, <3>1, <3>2, SemFacts
    <2> QED
        BY <2>1, <2>2 DEF CountInv
<1> QED
    BY <1>2, <1>3, <1>5, <1>7 DEF CountLayer

\* t, or an interrupt handler, hands the semaphore to the waiter w.
LEMMA HandStep ==
    ASSUME CountLayer, SemType', NEW t \in Task \cup {Null}, NEW w \in Task, t # w,
           \A u \in Task \ {t, w} :
               /\ pc'[u] = pc[u] /\ sem'[u] = sem[u] /\ held'[u] = held[u]
               /\ errcode'[u] = errcode[u] /\ (u \in alive' <=> u \in alive)
               /\ waitdog'[u] = waitdog[u],
           t \in Task => Shape(t)', Shape(w)',
           NEW s \in Sem, waitlist[s] # << >>, w = Head(waitlist[s]),
           count' = IF s \in Mutex THEN count ELSE [count EXCEPT ![s] = @ + 1],
           waitlist' = [waitlist EXCEPT ![s] = Tail(@)],
           \A q \in Counting : \A u \in Task :
               holder'[q][u] = IF q = s /\ q \in Pool
                               THEN IF u = t THEN 0 ELSE IF u = w THEN 1 ELSE holder[q][u]
                               ELSE holder[q][u],
           t \in Task => \A q \in Sem : ~Waits(t, q)' /\ ~Waits(t, q),
           \A q \in Sem : (Waits(w, q) <=> q = s) /\ ~Waits(w, q)',
           t \in Task => \A q \in Pool : (Owns(t, q) <=> q = s) /\ ~Owns(t, q)',
           \A q \in Pool : ~Owns(w, q) /\ (Owns(w, q)' <=> q = s),
           s \in Pool => t \in Task
    PROVE  CountLayer'
<1>0. SemType /\ ShapeInv /\ ListInv /\ EntryInv /\ CountInv
    BY DEF CountLayer
<1>1. /\ \A u \in Task \ {t, w} : \A q \in Sem : Waits(u, q)' <=> Waits(u, q)
      /\ \A u \in Task \ {t, w} : \A q \in Pool : Owns(u, q)' <=> Owns(u, q)
    BY DEF Owns, Waits
<1>2. ShapeInv'
    <2> SUFFICES ASSUME NEW u \in Task
                 PROVE  Shape(u)'
        BY DEF ShapeInv
    <2>1. CASE u \in {t, w}
        BY <2>1
    <2>2. CASE u \notin {t, w}
        BY <1>0, <2>2 DEF ShapeInv, Shape
    <2> QED
        BY <2>1, <2>2
<1> DEFINE d == Tail(waitlist[s])
<1>3. waitlist[s] \in Seq(Task) /\ OnceEach(waitlist[s])
    BY <1>0 DEF SemType, ListInv
<1>4. /\ d \in Seq(Task) /\ Len(d) = Len(waitlist[s]) - 1 /\ OnceEach(d)
      /\ \A u \in Task : Occurs(u, d) <=> Occurs(u, waitlist[s]) /\ u # w
    BY <1>3, TailMembers
<1>5. Len(waitlist[s]) \in Nat /\ Len(waitlist[s]) # 0
    BY <1>3
<1>6. waitlist'[s] = d /\ \A q \in Sem \ {s} : waitlist'[q] = waitlist[q]
    BY <1>0 DEF SemType
<1> HIDE DEF d
<1>7. ListInv'
    <2>1. ASSUME NEW q \in Sem
          PROVE  OnceEach(waitlist'[q])
        BY <1>0, <1>4, <1>6 DEF ListInv
    <2>2. ASSUME NEW q \in Sem, NEW u \in Task
          PROVE  Occurs(u, waitlist'[q]) <=> Waits(u, q)'
        <3>1. Occurs(u, waitlist[q]) <=> Waits(u, q)
            BY <1>0 DEF ListInv
        <3>2. Waits(u, q)' <=> Waits(u, q) /\ ~(q = s /\ u = w)
            BY <1>1
        <3>3. CASE q = s
            BY <1>4, <1>6, <3>1, <3>2, <3>3
        <3>4. CASE q # s
            BY <1>6, <3>1, <3>2, <3>4
        <3> QED
            BY <3>3, <3>4
    <2> QED
        BY <2>1, <2>2 DEF ListInv
<1>8. EntryInv'
    <2>1. ASSUME NEW q \in Pool, NEW u \in Task
          PROVE  holder'[q][u] = IF Owns(u, q)' THEN 1 ELSE 0
        <3>1. holder[q][u] = (IF Owns(u, q) THEN 1 ELSE 0) /\ q \in Counting
            BY <1>0, SemFacts DEF EntryInv
        <3>2. CASE u = t
            BY <3>1, <3>2
        <3>3. CASE u = w
            BY <3>1, <3>3
        <3>4. CASE u # t /\ u # w
            BY <1>1, <3>1, <3>4
        <3> QED
            BY <3>2, <3>3, <3>4
    <2>2. \A q \in Event : \A u \in Task : holder'[q][u] = 0
        BY <1>0, SemFacts DEF EntryInv
    <2> QED
        BY <2>1, <2>2 DEF EntryInv
<1>9. ASSUME NEW q \in Pool
      PROVE  Held(q)' = Held(q)
    <2>1. q \in Sem
        BY SemFacts
    <2>2. CASE q = s
        BY <1>1, <2>1, <2>2, HeldMoves
    <2>3. CASE q # s
        <3>1. \A u \in Task : Owns(u, q)' <=> Owns(u, q)
            BY <1>1, <2>3
        <3> QED
            BY <2>1, <3>1, HeldSame
    <2> QED
        BY <2>2, <2>3
<1>10. /\ \A q \in Counting \ {s} : count'[q] = count[q]
       /\ s \in Counting => count'[s] = count[s] + 1 /\ count[s] \in Int
    BY <1>0, SemFacts DEF SemType
<1>11. CountInv'
    <2>1. ASSUME NEW q \in Counting
          PROVE  /\ count'[q] >= 0 => Len(waitlist'[q]) = 0
                 /\ count'[q] < 0 => Len(waitlist'[q]) = -count'[q]
        <3>1. /\ count[q] >= 0 => Len(waitlist[q]) = 0
              /\ count[q] < 0 => Len(waitlist[q]) = -count[q]
            BY <1>0 DEF CountInv
        <3>2. CASE q = s
            <4>1. count[q] < 0 /\ Len(waitlist[q]) = -count[q] /\ count[q] \in Int
                BY <1>5, <1>10, <3>1, <3>2
            <4>2. Len(waitlist'[q]) = Len(waitlist[q]) - 1 /\ count'[q] = count[q] + 1
                BY <1>4, <1>6, <1>10, <3>2
            <4> DEFINE c == count[q]
                       n == count'[q]
                       k == Len(waitlist[q])
                       l == Len(waitlist'[q])
            <4>3. c < 0 /\ c \in Int /\ k = -c /\ l = k - 1 /\ n = c + 1
                BY <4>1, <4>2
            <4> HIDE DEF c, n, k, l
            <4>4. (n >= 0 => l = 0) /\ (n < 0 => l = -n)
                BY <4>3
            <4> QED
                BY <4>4 DEF n, l
        <3>3. CASE q # s
            BY <1>6, <1>10, <3>1, <3>3, SemFacts
        <3> QED
            BY <3>2, <3>3
    <2>2. ASSUME NEW q \in Pool
          PROVE  count'[q] + Len(waitlist'[q]) + Held(q)' = Value0[q]
        <3>1. count[q] + Len(waitlist[q]) + Held(q) = Value0[q]
            BY <1>0 DEF CountInv
        <3>2. Held(q) \in Nat /\ count[q] \in Int /\ Len(waitlist[q]) \in Nat
            BY <1>0, CountTypes
        <3>3. CASE q = s
            BY <1>4, <1>5, <1>6, <1>9, <1>10, <3>1, <3>2, <3>3, SemFacts
        <3>4. CASE q # s
            BY <1>6, <1>9, <1>10, <3>1, <3>2, <3>4, SemFacts
        <3> QED
            BY <3>3, <3>4
    <2> QED
        BY <2>1, <2>2 DEF CountInv
<1> QED
    BY <1>2, <1>7, <1>8, <1>11 DEF CountLayer

-----------------------------------------------------------------------------
(* The actions preserve the first layer. *)

LEMMA RestoredType ==
    ASSUME SemType, NEW us, NEW hold, NEW lists \in [Sem -> Seq(Task)]
    PROVE  Restored(us, hold, lists) \in [Task -> 1 .. 255]
<1> SUFFICES ASSUME NEW u \in Task
             PROVE  Max({BasePrio[u]} \cup
                        {prio[lists[s][1]] : s \in {r \in Sem : hold[r][u] > 0 /\ lists[r] # << >>}})
                    \in 1 .. 255
    BY DEF Restored, SemType
<1> DEFINE H == {r \in Sem : hold[r][u] > 0 /\ lists[r] # << >>}
           S == {BasePrio[u]} \cup {prio[lists[s][1]] : s \in H}
<1>1. BasePrio[u] \in 1 .. 255
    BY SemAssumption
<1>2. \A s \in H : prio[lists[s][1]] \in 1 .. 255
    <2> SUFFICES ASSUME NEW s \in H
                 PROVE  prio[lists[s][1]] \in 1 .. 255
        OBVIOUS
    <2>1. lists[s] \in Seq(Task) /\ lists[s] # << >>
        OBVIOUS
    <2>2. lists[s][1] \in Task
        BY <2>1
    <2> QED
        BY <2>2 DEF SemType
<1>3. S \in SUBSET (1 .. 255) /\ S # {}
    BY <1>1, <1>2
<1> HIDE DEF S
<1>4. S \in SUBSET (0 .. 255)
    BY <1>3
<1>5. 255 \in Nat
    OBVIOUS
<1>6. Max(S) \in S
    BY <1>3, <1>4, <1>5, GreatestNatural
<1> QED
    BY <1>3, <1>6 DEF S

LEMMA WaitStep ==
    ASSUME CountLayer, NEW t \in Task, NEW s \in Sem, Wait(t, s) \/ TickWait(t, s)
    PROVE  CountLayer'
<1>0. SemType /\ ShapeInv /\ Shape(t)
    BY DEF CountLayer, ShapeInv
<1>1. t \in alive /\ pc[t] = "run" /\ held[t] = Null /\ sem[t] = Null /\ ~waitdog[t]
    BY <1>0 DEF Wait, TickWait, CanWait, Shape
<1>2. \A q \in Sem : ~Waits(t, q) /\ ~Owns(t, q)
    BY <1>0, <1>1, OwnsFacts DEF Waits
<1>3. CASE Take(t, s)
    <2>1. /\ Available(s) /\ Gets(t, s)
          /\ UNCHANGED <<waitlist, tcbVars, irqlock, pc, sem>>
        BY <1>3 DEF Take
    <2>2. SemType'
        <3>1. CASE s \in Mutex
            <4>1. /\ mholder' = [mholder EXCEPT ![s] = [tid |-> t, blocking |-> FALSE]]
                  /\ UNCHANGED <<count, holder>>
                BY <1>3, <3>1, SemFacts DEF Take
            <4>2. mholder' \in [Mutex -> Word]
                BY <1>0, <4>1, WordFacts DEF SemType
            <4> QED
                BY <1>0, <2>1, <4>1, <4>2 DEF SemType, Gets, tcbVars
        <3>2. CASE s \notin Mutex
            <4>1. s \in Counting /\ count' = [count EXCEPT ![s] = @ - 1] /\ mholder' = mholder
                BY <1>3, <3>2, SemFacts DEF Take
            <4>2. count' \in [Counting -> Int]
                BY <1>0, <4>1 DEF SemType
            <4>3. holder' \in [Sem -> [Task -> Nat]]
                BY <1>0, <1>3 DEF Take, SemType, AddHolder
            <4> QED
                BY <1>0, <2>1, <4>1, <4>2, <4>3 DEF SemType, Gets, tcbVars
        <3> QED
            BY <3>1, <3>2
    <2>3. Same(t) /\ Shape(t)' /\ held'[t] = IF s \in Inherit THEN s ELSE Null
        BY <1>0, <1>1, <2>1, SemFacts DEF Same, Shape, SemType, Gets, tcbVars
    <2>4. \A q \in Sem : ~Waits(t, q)'
        BY <1>1, <2>1 DEF Waits
    <2>5. \A q \in Sem : Owns(t, q)' <=> q = s /\ s \in Inherit
        BY <1>1, <2>1, <2>3, SemFacts DEF Owns, tcbVars
    <2>6. CASE s \in Mutex
        <3>1. UNCHANGED <<count, holder>>
            BY <1>3, <2>6, SemFacts DEF Take
        <3>2. \A q \in Pool : Owns(t, q)' <=> Owns(t, q)
            BY <1>2, <2>5, <2>6, SemFacts
        <3> QED
            BY <1>2, <2>1, <2>2, <2>3, <2>4, <3>1, <3>2, QuietStep
    <2>7. CASE s \notin Mutex
        <3>1. s \in Counting /\ count[s] > 0 /\ count' = [count EXCEPT ![s] = @ - 1]
            BY <1>3, <2>1, <2>7, SemFacts DEF Take, Available
        <3>2. holder' = AddHolder(s, t)
            BY <1>3, <2>7, <3>1, SemFacts DEF Take, AddHolder
        <3>3. \A q \in Pool : ~Owns(t, q) /\ (Owns(t, q)' <=> q = s)
            BY <1>2, <2>5, SemFacts
        <3> QED
            BY <1>2, <2>1, <2>2, <2>3, <2>4, <3>1, <3>2, <3>3, TakeStep
    <2> QED
        BY <2>6, <2>7
<1>4. CASE ~Take(t, s)
    <2>1. /\ UNCHANGED <<semVars, prio, errcode, alive, held>>
          /\ pc'[t] \in {"run", "wait"} /\ (pc'[t] = "run" => sem'[t] = Null)
          /\ pc'[t] = "wait" => sem'[t] = s
          /\ waitdog'[t] => s \in Timed /\ pc'[t] = "wait"
          /\ pc' \in [Task -> Label] /\ sem' \in [Task -> Sem \cup {Null}]
          /\ waitdog' \in [Task -> BOOLEAN] /\ irqlock' \in alive \cup {Null}
          /\ \A u \in Task \ {t} : pc'[u] = pc[u] /\ sem'[u] = sem[u] /\ waitdog'[u] = waitdog[u]
        <3>0. /\ pc \in [Task -> Label] /\ sem \in [Task -> Sem \cup {Null}]
              /\ waitdog \in [Task -> BOOLEAN] /\ irqlock \in alive \cup {Null} /\ "wait" \in Label
            BY <1>0 DEF SemType, Label
        <3>1. CASE Wait(t, s)
            <4>1. /\ pc' = [pc EXCEPT ![t] = "wait"] /\ sem' = [sem EXCEPT ![t] = s]
                  /\ UNCHANGED <<semVars, prio, errcode, waitdog, alive, irqlock, held>>
                BY <1>4, <3>1 DEF Wait, GoTo, tcbVars
            <4> QED
                BY <1>1, <3>0, <4>1
        <3>2. CASE TickWait(t, s)
            <4>1. /\ s \in Timed /\ UNCHANGED <<semVars, prio, errcode, alive, held>>
                  /\ \/ UNCHANGED <<pc, sem, waitdog, irqlock>>
                     \/ /\ pc' = [pc EXCEPT ![t] = "wait"] /\ sem' = [sem EXCEPT ![t] = s]
                        /\ waitdog' = [waitdog EXCEPT ![t] = TRUE] /\ irqlock' = t
                BY <1>4, <3>2 DEF TickWait, GoTo, tcbVars
            <4> QED
                BY <1>1, <3>0, <4>1
        <3> QED
            BY <3>1, <3>2
    <2>2. SemType'
        BY <1>0, <2>1 DEF SemType, semVars
    <2>3. Same(t)
        BY <2>1 DEF Same
    <2>4. Shape(t)'
        BY <1>0, <1>1, <2>1, SemFacts DEF Shape
    <2>5. \A q \in Sem : (Waits(t, q)' <=> Waits(t, q)) /\ (Owns(t, q)' <=> Owns(t, q))
        BY <1>1, <1>2, <2>1, SemFacts DEF Waits, Owns
    <2> QED
        BY <2>1, <2>2, <2>3, <2>4, <2>5, SemFacts, QuietStep DEF semVars
<1> QED
    BY <1>3, <1>4

LEMMA SlowTakeStep ==
    ASSUME CountLayer, NEW t \in Task, SlowTake(t)
    PROVE  CountLayer'
<1> DEFINE s == sem[t]
<1>0. SemType /\ ShapeInv /\ Shape(t)
    BY DEF CountLayer, ShapeInv
<1>1. /\ t \in alive /\ pc[t] = "wait" /\ s \in Sem /\ held[t] = Null
      /\ Gets(t, s) /\ waitdog' = [waitdog EXCEPT ![t] = FALSE] /\ irqlock' = Null
      /\ GoTo(t, "run", Null) /\ UNCHANGED <<waitlist, prio, errcode, alive>>
    BY <1>0 DEF SlowTake, Shape
<1>2. \A q \in Sem : ~Waits(t, q) /\ ~Owns(t, q)
    BY <1>0, <1>1, OwnsFacts DEF Waits
<1>3. SemType'
    <2>1. CASE s \in Mutex
        <3>1. TakeMutex(t, s) /\ UNCHANGED <<count, holder>>
            BY <2>1 DEF SlowTake
        <3>2. mholder' \in [Mutex -> Word]
            BY <1>0, <2>1, <3>1, TakeMutexFacts
        <3> QED
            BY <1>0, <1>1, <3>1, <3>2 DEF SemType, Gets, GoTo, Label
    <2>2. CASE s \notin Mutex
        <3>1. s \in Counting /\ count' = [count EXCEPT ![s] = @ - 1] /\ mholder' = mholder
              /\ holder' = AddHolder(s, t)
            BY <1>1, <2>2, SemFacts DEF SlowTake
        <3>2. count' \in [Counting -> Int]
            BY <1>0, <3>1 DEF SemType
        <3>3. holder' \in [Sem -> [Task -> Nat]]
            BY <1>0, <1>1, <3>1, AddHolderFacts
        <3> QED
            BY <1>0, <1>1, <3>1, <3>2, <3>3 DEF SemType, Gets, GoTo, Label
    <2> QED
        BY <2>1, <2>2
<1>4. /\ pc'[t] = "run" /\ sem'[t] = Null /\ ~waitdog'[t]
      /\ held'[t] = IF s \in Inherit THEN s ELSE Null
    BY <1>0, <1>1 DEF SemType, Gets, GoTo
<1>5. Same(t)
    BY <1>0, <1>1 DEF Same, SemType, Gets, GoTo
<1>6. Shape(t)'
    BY <1>1, <1>4, SemFacts DEF Shape
<1>7. \A q \in Sem : ~Waits(t, q)' /\ (Owns(t, q)' <=> q = s /\ s \in Inherit)
    BY <1>1, <1>4, SemFacts DEF Waits, Owns
<1>8. CASE s \in Mutex
    <2>1. UNCHANGED <<count, holder>>
        BY <1>8 DEF SlowTake
    <2>2. \A q \in Pool : Owns(t, q)' <=> Owns(t, q)
        BY <1>2, <1>7, <1>8, SemFacts
    <2> QED
        BY <1>1, <1>2, <1>3, <1>5, <1>6, <1>7, <2>1, <2>2, QuietStep
<1>9. CASE s \notin Mutex
    <2>1. /\ s \in Counting /\ count[s] > 0 /\ count' = [count EXCEPT ![s] = @ - 1]
          /\ holder' = AddHolder(s, t)
        BY <1>1, <1>9, SemFacts DEF SlowTake
    <2>2. \A q \in Pool : ~Owns(t, q) /\ (Owns(t, q)' <=> q = s)
        BY <1>2, <1>7, SemFacts
    <2> QED
        BY <1>1, <1>2, <1>3, <1>5, <1>6, <1>7, <2>1, <2>2, TakeStep
<1> QED
    BY <1>8, <1>9

LEMMA SlowBlockStep ==
    ASSUME CountLayer, NEW t \in Task, SlowBlock(t)
    PROVE  CountLayer'
<1> DEFINE s == sem[t]
<1>0. SemType /\ ShapeInv /\ Shape(t) /\ ListInv
    BY DEF CountLayer, ShapeInv
<1>1. /\ t \in alive /\ pc[t] = "wait" /\ s \in Sem /\ held[t] = Null
      /\ errcode' = [errcode EXCEPT ![t] = "OK"]
      /\ waitlist' = [waitlist EXCEPT ![s] = AddPrioritized(@, t)]
      /\ irqlock' = Null /\ GoTo(t, "blocked", s) /\ UNCHANGED <<waitdog, alive, held>>
      /\ prio' = IF s \in Inherit THEN Boosted(s, t, holder') ELSE prio
    BY <1>0 DEF SlowBlock, Shape
<1>2. \A q \in Sem : ~Waits(t, q) /\ ~Owns(t, q)
    BY <1>0, <1>1, OwnsFacts DEF Waits
<1>3. prio' \in [Task -> 1 .. 255]
    BY <1>0, <1>1 DEF SemType, Boosted
<1>4. waitlist' \in [Sem -> Seq(Task)]
    <2>1. waitlist[s] \in Seq(Task) /\ OnceEach(waitlist[s]) /\ ~Occurs(t, waitlist[s])
        BY <1>0, <1>1, <1>2 DEF SemType, ListInv
    <2>2. AddPrioritized(waitlist[s], t) \in Seq(Task)
        BY <2>1, AddPrioritizedMembers
    <2> QED
        BY <1>0, <1>1, <2>2 DEF SemType
<1>5. /\ count' \in [Counting -> Int] /\ holder' \in [Sem -> [Task -> Nat]]
      /\ mholder' \in [Mutex -> Word]
      /\ count' = IF s \in Mutex THEN count ELSE [count EXCEPT ![s] = @ - 1]
      /\ s \in Counting => count[s] <= 0
      /\ \A q \in Counting : holder'[q] = holder[q]
    <2>1. CASE s \in Mutex
        <3>1. /\ mholder[s].tid \in alive /\ mholder' = [mholder EXCEPT ![s].blocking = TRUE]
              /\ holder' = [holder EXCEPT ![s][mholder[s].tid] = @ + 1] /\ count' = count
            BY <2>1, SemFacts DEF SlowBlock, AddHolder
        <3>2. mholder[s].tid \in Task
            BY <1>0, <3>1 DEF SemType
        <3>3. holder' \in [Sem -> [Task -> Nat]] /\ \A q \in Sem \ {s} : holder'[q] = holder[q]
            BY <1>0, <1>1, <3>1, <3>2 DEF SemType
        <3>4. mholder' \in [Mutex -> Word]
            <4>1. mholder[s] \in Word /\ mholder' = [mholder EXCEPT ![s] = [mholder[s] EXCEPT !.blocking = TRUE]]
                BY <1>0, <2>1, <3>1 DEF SemType
            <4>2. [mholder[s] EXCEPT !.blocking = TRUE] \in Word
                BY <4>1, WordFacts
            <4> QED
                BY <1>0, <4>1, <4>2 DEF SemType
        <3> QED
            BY <1>0, <2>1, <3>1, <3>3, <3>4, SemFacts DEF SemType
    <2>2. CASE s \notin Mutex
        <3>1. s \in Counting /\ count[s] <= 0 /\ count' = [count EXCEPT ![s] = @ - 1]
              /\ UNCHANGED <<mholder, holder>>
            BY <1>1, <2>2, SemFacts DEF SlowBlock
        <3> QED
            BY <1>0, <2>2, <3>1 DEF SemType
    <2> QED
        BY <2>1, <2>2
<1>6. SemType'
    BY <1>0, <1>1, <1>3, <1>4, <1>5 DEF SemType, GoTo, Label
<1>7. pc'[t] = "blocked" /\ sem'[t] = s /\ errcode'[t] = "OK"
    BY <1>0, <1>1 DEF SemType, GoTo
<1>8. Same(t)
    BY <1>0, <1>1 DEF Same, SemType, GoTo
<1>9. Shape(t)'
    BY <1>0, <1>1, <1>7 DEF Shape
<1>10. \A q \in Sem : (Waits(t, q)' <=> q = s) /\ ~Owns(t, q)'
    BY <1>1, <1>7, SemFacts DEF Waits, Owns
<1>11. \A q \in Pool : ~Owns(t, q) /\ ~Owns(t, q)'
    BY <1>2, <1>10, SemFacts
<1> QED
    BY <1>1, <1>2, <1>5, <1>6, <1>8, <1>9, <1>10, <1>11, BlockStep

LEMMA ResumeStep ==
    ASSUME CountLayer, NEW t \in Task, Resume(t)
    PROVE  CountLayer'
<1> DEFINE s == sem[t]
<1>0. SemType /\ ShapeInv /\ Shape(t)
    BY DEF CountLayer, ShapeInv
<1>1. /\ t \in alive /\ pc[t] = "resumed" /\ s \in Sem /\ held[t] = Null
      /\ IF errcode[t] = "OK" THEN Gets(t, s) ELSE UNCHANGED held
      /\ waitdog' = [waitdog EXCEPT ![t] = FALSE]
      /\ GoTo(t, "run", Null) /\ UNCHANGED <<count, waitlist, holder, prio, errcode, alive, irqlock>>
    BY <1>0 DEF Resume, Shape
<1>2. mholder' \in [Mutex -> Word]
    <2>1. CASE errcode[t] = "OK" /\ s \in Mutex
        <3>1. TakeMutex(t, s)
            BY <2>1 DEF Resume
        <3> QED
            BY <1>0, <2>1, <3>1, TakeMutexFacts
    <2>2. CASE ~(errcode[t] = "OK" /\ s \in Mutex)
        BY <1>0, <2>2 DEF Resume, SemType
    <2> QED
        BY <2>1, <2>2
<1>3. SemType'
    BY <1>0, <1>1, <1>2 DEF SemType, Gets, GoTo, Label
<1>4. /\ pc'[t] = "run" /\ sem'[t] = Null /\ ~waitdog'[t]
      /\ held'[t] = IF errcode[t] = "OK" /\ s \in Inherit THEN s ELSE Null
    BY <1>0, <1>1 DEF SemType, Gets, GoTo
<1>5. Same(t)
    BY <1>0, <1>1 DEF Same, SemType, Gets, GoTo
<1>6. Shape(t)'
    BY <1>1, <1>4, SemFacts DEF Shape
<1>7. \A q \in Sem : ~Waits(t, q)' /\ ~Waits(t, q)
    BY <1>1, <1>4 DEF Waits
<1>8. \A q \in Pool : Owns(t, q)' <=> Owns(t, q)
    BY <1>0, <1>1, <1>4, SemFacts DEF Owns
<1> QED
    BY <1>1, <1>3, <1>5, <1>6, <1>7, <1>8, QuietStep

\* The task a post wakes is the first of the list, and a post that wakes nobody
\* finds no waiter.
LEMMA WokenFacts ==
    ASSUME CountLayer, NEW s \in Sem
    PROVE  /\ Woken(s) # Null =>
                /\ Woken(s) \in Task /\ Blocking(s) /\ waitlist[s] # << >>
                /\ Woken(s) = Head(waitlist[s]) /\ Waits(Woken(s), s)
           /\ s \in Counting /\ Woken(s) = Null => count[s] >= 0
<1>0. SemType /\ ListInv /\ CountInv
    BY DEF CountLayer
<1>1. waitlist[s] \in Seq(Task) /\ OnceEach(waitlist[s])
    BY <1>0 DEF SemType, ListInv
<1>2. waitlist[s] # << >> => Head(waitlist[s]) \in Task /\ Waits(Head(waitlist[s]), s)
    <2> SUFFICES ASSUME waitlist[s] # << >>
                 PROVE  Head(waitlist[s]) \in Task /\ Waits(Head(waitlist[s]), s)
        OBVIOUS
    <2>1. Head(waitlist[s]) \in Task /\ Occurs(Head(waitlist[s]), waitlist[s])
        BY <1>1, TailMembers
    <2> QED
        BY <1>0, <2>1 DEF ListInv
<1>3. s \in Counting /\ count[s] < 0 => waitlist[s] # << >>
    <2> SUFFICES ASSUME s \in Counting, count[s] < 0
                 PROVE  waitlist[s] # << >>
        OBVIOUS
    <2>1. Len(waitlist[s]) = -count[s] /\ count[s] \in Int
        BY <1>0 DEF CountInv, SemType
    <2>2. Len(waitlist[s]) # 0
        BY <2>1
    <2> QED
        BY <2>2
<1>4. s \in Counting => count[s] \in Int /\ s \notin Mutex
    BY <1>0, SemFacts DEF SemType
<1>5. Null \notin Task
    BY SemFacts
<1> QED
    BY <1>2, <1>3, <1>4, <1>5 DEF Woken, Blocking

\* The holder entries a post leaves.
LEMMA PostedFacts ==
    ASSUME CountLayer, NEW s \in Sem, NEW t \in Task \cup {Null},
           s \in Pool => t \in Task /\ Owns(t, s)
    PROVE  /\ PostedHolders(s, t) \in [Sem -> [Task -> Nat]]
           /\ \A q \in Counting : \A u \in Task :
                PostedHolders(s, t)[q][u] =
                    IF q = s /\ q \in Pool
                    THEN IF u = t THEN 0 ELSE IF u = Woken(s) THEN 1 ELSE holder[q][u]
                    ELSE holder[q][u]
<1>0. SemType /\ ShapeInv /\ EntryInv
    BY DEF CountLayer
<1>1. holder \in [Sem -> [Task -> Nat]] /\ Counting \subseteq Sem
    BY <1>0, SemFacts DEF SemType
<1>2. CASE s \in Mutex
    <2>1. PostedHolders(s, t) = [holder EXCEPT ![s] = [u \in Task |-> 0]]
        BY <1>2, SemFacts DEF PostedHolders
    <2>2. s \notin Counting
        BY <1>2, SemFacts
    <2> QED
        BY <1>1, <2>1, <2>2
<1>3. CASE s \in Event
    <2>1. PostedHolders(s, t) = holder /\ s \notin Pool
        BY <1>3, SemFacts DEF PostedHolders
    <2> QED
        BY <1>1, <2>1
<1>4. CASE s \in Pool
    <2> DEFINE w == Woken(s)
    <2> DEFINE g == [u \in Task |-> holder[s][u] - (IF u = t THEN 1 ELSE 0) + (IF u = w THEN 1 ELSE 0)]
    <2>1. PostedHolders(s, t) = [holder EXCEPT ![s] = g]
        BY <1>1, <1>4, SemFacts DEF PostedHolders
    <2>2. t \in Task /\ holder[s][t] = 1
        BY <1>0, <1>4 DEF EntryInv
    <2>3. w # Null => w \in Task /\ holder[s][w] = 0 /\ w # t
        <3> SUFFICES ASSUME w # Null
                     PROVE  w \in Task /\ holder[s][w] = 0 /\ w # t
            OBVIOUS
        <3>1. w \in Task /\ Waits(w, s)
            BY WokenFacts
        <3>2. ~Owns(w, s)
            BY <1>0, <3>1, OwnsFacts
        <3> QED
            BY <1>0, <1>4, <3>1, <3>2 DEF EntryInv
    <2>4. \A u \in Task : g[u] = IF u = t THEN 0 ELSE IF u = w THEN 1 ELSE holder[s][u]
        BY <1>1, <2>2, <2>3, SemFacts
    <2>5. g \in [Task -> Nat]
        <3> SUFFICES ASSUME NEW u \in Task
                     PROVE  g[u] \in Nat
            OBVIOUS
        <3>1. holder[s][u] \in Nat
            BY <1>1
        <3> HIDE DEF g
        <3> QED
            BY <2>4, <3>1
    <2> HIDE DEF g
    <2> QED
        BY <1>1, <1>4, <2>1, <2>4, <2>5
<1> QED
    BY <1>2, <1>3, <1>4, SemFacts DEF Sem

\* What nxsem_post_slow() stores has the types.
LEMMA PostSlowType ==
    ASSUME CountLayer, NEW s \in Sem, NEW t \in Task \cup {Null}, PostSlow(s, t),
           s \in Pool => t \in Task /\ Owns(t, s)
    PROVE  /\ waitlist' = IF Woken(s) = Null THEN waitlist ELSE [waitlist EXCEPT ![s] = Tail(@)]
           /\ count' = IF s \in Mutex THEN count ELSE [count EXCEPT ![s] = @ + 1]
           /\ holder' = PostedHolders(s, t)
           /\ waitdog' = [u \in Task |-> u # Woken(s) /\ waitdog[u]]
           /\ UNCHANGED <<errcode, alive, irqlock>>
           /\ waitlist' \in [Sem -> Seq(Task)] /\ count' \in [Counting -> Int]
           /\ mholder' \in [Mutex -> Word] /\ holder' \in [Sem -> [Task -> Nat]]
           /\ prio' \in [Task -> 1 .. 255] /\ waitdog' \in [Task -> BOOLEAN]
<1>0. SemType
    BY DEF CountLayer
<1>1. /\ waitlist' = IF Woken(s) = Null THEN waitlist ELSE [waitlist EXCEPT ![s] = Tail(@)]
      /\ count' = IF s \in Mutex THEN count ELSE [count EXCEPT ![s] = @ + 1]
      /\ holder' = PostedHolders(s, t)
      /\ waitdog' = [u \in Task |-> u # Woken(s) /\ waitdog[u]]
      /\ UNCHANGED <<errcode, alive, irqlock>>
      /\ prio' = Restored(ToRestore(s, t), holder', waitlist')
    BY DEF PostSlow, Released
<1>2. holder' \in [Sem -> [Task -> Nat]]
    BY <1>1, PostedFacts
<1>3. waitlist' \in [Sem -> Seq(Task)]
    <2>1. CASE Woken(s) = Null
        BY <1>0, <1>1, <2>1 DEF SemType
    <2>2. CASE Woken(s) # Null
        <3>1. waitlist[s] # << >> /\ waitlist[s] \in Seq(Task)
            BY <1>0, <2>2, WokenFacts DEF SemType
        <3>2. Tail(waitlist[s]) \in Seq(Task)
            BY <3>1
        <3> QED
            BY <1>0, <1>1, <2>2, <3>2 DEF SemType
    <2> QED
        BY <2>1, <2>2
<1>4. prio' \in [Task -> 1 .. 255]
    BY <1>0, <1>1, <1>3, RestoredType
<1>5. count' \in [Counting -> Int]
    BY <1>0, <1>1, SemFacts DEF SemType
<1>6. mholder' \in [Mutex -> Word]
    <2>0. mholder \in [Mutex -> Word]
        BY <1>0 DEF SemType
    <2>1. CASE s \in Mutex /\ Blocking(s)
        <3>1. PICK lists : mholder' = [mholder EXCEPT ![s] = HandOver(s, lists)]
            BY <2>1 DEF PostSlow
        <3>2. HandOver(s, lists) \in Word
            <4>1. CASE Woken(s) = Null
                BY <2>0, <2>1, <4>1 DEF HandOver
            <4>2. CASE Woken(s) # Null
                <5>1. Woken(s) \in Task
                    BY <4>2, WokenFacts
                <5> QED
                    BY <4>2, <5>1, WordFacts DEF HandOver
            <4> QED
                BY <4>1, <4>2
        <3> QED
            BY <2>0, <2>1, <3>1, <3>2
    <2>2. CASE s \in Mutex /\ ~Blocking(s)
        <3>1. mholder' = [mholder EXCEPT ![s] = Free]
            BY <2>2 DEF PostSlow, Released
        <3> QED
            BY <2>0, <2>2, <3>1, WordFacts
    <2>3. CASE s \notin Mutex
        BY <2>0, <2>3 DEF PostSlow, Released
    <2> QED
        BY <2>1, <2>2, <2>3
<1> QED
    BY <1>1, <1>2, <1>3, <1>4, <1>5, <1>6

LEMMA SlowPostStep ==
    ASSUME CountLayer, NEW t \in Task, SlowPost(t)
    PROVE  CountLayer'
<1>s. PICK s : s = sem[t]
    OBVIOUS
<1>w. PICK w : w = Woken(s)
    OBVIOUS
<1>0. SemType /\ ShapeInv /\ Shape(t)
    BY DEF CountLayer, ShapeInv
<1>1. /\ t \in alive /\ pc[t] = "post" /\ s \in Sem /\ s = sem[t] /\ ~waitdog[t]
      /\ held[t] = IF s \in Event THEN Null ELSE s
      /\ PostSlow(s, t)
      /\ held' = [held EXCEPT ![t] = Null]
      /\ pc' = [u \in Task |-> CASE u = t -> "run" [] u = w -> "resumed" [] OTHER -> pc[u]]
      /\ sem' = [sem EXCEPT ![t] = Null]
    BY <1>0, <1>s, <1>w DEF SlowPost, Shape
<1>2. \A q \in Sem : ~Waits(t, q) /\ (Owns(t, q) <=> q = s /\ s \in Inherit)
    BY <1>0, <1>1, OwnsFacts, SemFacts DEF Waits
<1>3. s \in Pool => t \in Task /\ Owns(t, s)
    BY <1>1, <1>2, SemFacts
<1>4. /\ waitlist' = IF w = Null THEN waitlist ELSE [waitlist EXCEPT ![s] = Tail(@)]
      /\ count' = IF s \in Mutex THEN count ELSE [count EXCEPT ![s] = @ + 1]
      /\ holder' = PostedHolders(s, t)
      /\ waitdog' = [u \in Task |-> u # w /\ waitdog[u]]
      /\ UNCHANGED <<errcode, alive, irqlock>>
      /\ waitlist' \in [Sem -> Seq(Task)] /\ count' \in [Counting -> Int]
      /\ mholder' \in [Mutex -> Word] /\ holder' \in [Sem -> [Task -> Nat]]
      /\ prio' \in [Task -> 1 .. 255] /\ waitdog' \in [Task -> BOOLEAN]
    <2>1. t \in Task \cup {Null} /\ s \in Sem /\ PostSlow(s, t)
        BY <1>1
    <2>2. /\ waitlist' = IF Woken(s) = Null THEN waitlist ELSE [waitlist EXCEPT ![s] = Tail(@)]
          /\ count' = IF s \in Mutex THEN count ELSE [count EXCEPT ![s] = @ + 1]
          /\ holder' = PostedHolders(s, t)
          /\ waitdog' = [u \in Task |-> u # Woken(s) /\ waitdog[u]]
          /\ UNCHANGED <<errcode, alive, irqlock>>
          /\ waitlist' \in [Sem -> Seq(Task)] /\ count' \in [Counting -> Int]
          /\ mholder' \in [Mutex -> Word] /\ holder' \in [Sem -> [Task -> Nat]]
          /\ prio' \in [Task -> 1 .. 255] /\ waitdog' \in [Task -> BOOLEAN]
        BY <1>3, <2>1, PostSlowType
    <2> QED
        BY <1>w, <2>2
<1>5. \A q \in Counting : \A u \in Task :
          holder'[q][u] = IF q = s /\ q \in Pool
                          THEN IF u = t THEN 0 ELSE IF u = w THEN 1 ELSE holder[q][u]
                          ELSE holder[q][u]
    BY <1>1, <1>3, <1>4, <1>w, PostedFacts
<1>6. /\ w # Null => w \in Task /\ waitlist[s] # << >> /\ w = Head(waitlist[s]) /\ Waits(w, s)
      /\ s \in Counting /\ w = Null => count[s] >= 0
    BY <1>1, <1>w, WokenFacts
<1>7. SemType'
    <2>1. pc' \in [Task -> Label] /\ sem' \in [Task -> Sem \cup {Null}]
          /\ held' \in [Task -> Sem \cup {Null}]
        BY <1>0, <1>1 DEF SemType, Label
    <2> QED
        BY <1>0, <1>4, <2>1 DEF SemType
<1>8. /\ pc'[t] = "run" /\ sem'[t] = Null /\ held'[t] = Null /\ ~waitdog'[t]
      /\ t \in alive' /\ t # w
    <2>1. t # w
        BY <1>1, <1>2, <1>6, SemFacts
    <2> QED
        BY <1>0, <1>1, <1>4, <2>1 DEF SemType
<1>9. \A u \in Task \ {t, w} :
          /\ pc'[u] = pc[u] /\ sem'[u] = sem[u] /\ held'[u] = held[u]
          /\ errcode'[u] = errcode[u] /\ (u \in alive' <=> u \in alive)
          /\ waitdog'[u] = waitdog[u]
    BY <1>0, <1>1, <1>4 DEF SemType
<1>10. Shape(t)'
    BY <1>8, SemFacts DEF Shape
<1>11. \A q \in Sem : ~Waits(t, q)' /\ ~Owns(t, q)'
    BY <1>8, SemFacts DEF Waits, Owns
<1>12. CASE w = Null
    <2>1. Same(t)
        BY <1>9, <1>12, SemFacts DEF Same
    <2>2. CASE s \in Mutex
        <3>1. \A q \in Counting : holder'[q] = holder[q]
            <4> SUFFICES ASSUME NEW q \in Counting
                         PROVE  holder'[q] = holder[q]
                OBVIOUS
            <4>1. q \in Sem /\ q # s
                BY <2>2, SemFacts
            <4>2. holder'[q] \in [Task -> Nat] /\ holder[q] \in [Task -> Nat]
                BY <1>0, <1>4, <4>1 DEF SemType
            <4> QED
                BY <1>5, <4>1, <4>2
        <3>2. \A q \in Pool : Owns(t, q)' <=> Owns(t, q)
            BY <1>2, <1>11, <2>2, SemFacts
        <3>3. UNCHANGED <<count, waitlist>>
            BY <1>4, <1>12, <2>2
        <3> QED
            BY <1>2, <1>7, <1>10, <1>11, <2>1, <3>1, <3>2, <3>3, QuietStep
    <2>3. CASE s \notin Mutex
        <3>1. s \in Counting /\ count[s] >= 0 /\ waitlist' = waitlist
              /\ count' = [count EXCEPT ![s] = @ + 1]
            BY <1>1, <1>4, <1>6, <1>12, <2>3, SemFacts
        <3>2. \A q \in Counting : \A u \in Task :
                 holder'[q][u] = IF q = s /\ q \in Pool /\ u = t THEN 0 ELSE holder[q][u]
            BY <1>5, <1>12, SemFacts
        <3>3. \A q \in Pool : (Owns(t, q) <=> q = s) /\ ~Owns(t, q)'
            BY <1>2, <1>11, SemFacts
        <3>4. \A q \in Sem : Waits(t, q)' <=> Waits(t, q)
            BY <1>2, <1>11
        <3>5. t \in Task \cup {Null}
            OBVIOUS
        <3> QED
            BY <1>7, <1>10, <2>1, <3>1, <3>2, <3>3, <3>4, <3>5, GiveStep
    <2> QED
        BY <2>2, <2>3
<1>13. CASE w # Null
    <2>1. w \in Task /\ waitlist[s] # << >> /\ w = Head(waitlist[s]) /\ Waits(w, s)
        BY <1>6, <1>13
    <2>2. pc[w] = "blocked" /\ sem[w] = s /\ held[w] = Null /\ w \in alive /\ errcode[w] = "OK"
        BY <1>0, <2>1 DEF ShapeInv, Shape, Waits
    <2>3. /\ pc'[w] = "resumed" /\ sem'[w] = s /\ held'[w] = Null /\ w \in alive'
          /\ errcode'[w] = "OK" /\ ~waitdog'[w]
        BY <1>0, <1>1, <1>4, <1>8, <2>1, <2>2 DEF SemType
    <2>4. Shape(w)'
        BY <1>1, <2>3 DEF Shape
    <2>5. \A q \in Sem : (Waits(w, q) <=> q = s) /\ ~Waits(w, q)'
        BY <1>1, <2>2, <2>3 DEF Waits
    <2>6. \A q \in Pool : ~Owns(w, q) /\ (Owns(w, q)' <=> q = s)
        BY <2>2, <2>3, SemFacts DEF Owns
    <2>7. \A q \in Pool : (Owns(t, q) <=> q = s) /\ ~Owns(t, q)'
        BY <1>2, <1>11, SemFacts
    <2>8. waitlist' = [waitlist EXCEPT ![s] = Tail(@)]
        BY <1>4, <1>13
    <2>9. t \in Task \cup {Null} /\ s \in Sem /\ t # w /\ \A q \in Sem : ~Waits(t, q)' /\ ~Waits(t, q)
        BY <1>1, <1>2, <1>8, <1>11
    <2>10. count' = IF s \in Mutex THEN count ELSE [count EXCEPT ![s] = @ + 1]
        BY <1>4
    <2> QED
        BY <1>5, <1>7, <1>9, <1>10, <2>1, <2>4, <2>5, <2>6, <2>7, <2>8, <2>9, <2>10, HandStep
<1> QED
    BY <1>12, <1>13

LEMMA InterruptPostStep ==
    ASSUME CountLayer, NEW s \in Event, InterruptPost(s)
    PROVE  CountLayer'
<1>w. PICK w : w = Woken(s)
    OBVIOUS
<1>0. SemType /\ ShapeInv
    BY DEF CountLayer
<1>s. s \in Sem /\ s \in Counting /\ s \notin Pool /\ s \notin Mutex /\ Null \notin Task
    BY SemFacts
<1>1. /\ PostSlow(s, Null) /\ UNCHANGED <<sem, held>>
      /\ pc' = [u \in Task |-> IF u = w THEN "resumed" ELSE pc[u]]
    BY <1>w DEF InterruptPost
<1>2. Null \in Task \cup {Null} /\ (s \in Pool => Null \in Task /\ Owns(Null, s))
    BY <1>s
<1>3. /\ waitlist' = IF w = Null THEN waitlist ELSE [waitlist EXCEPT ![s] = Tail(@)]
      /\ count' = IF s \in Mutex THEN count ELSE [count EXCEPT ![s] = @ + 1]
      /\ holder' = PostedHolders(s, Null)
      /\ waitdog' = [u \in Task |-> u # w /\ waitdog[u]]
      /\ UNCHANGED <<errcode, alive, irqlock>>
      /\ waitlist' \in [Sem -> Seq(Task)] /\ count' \in [Counting -> Int]
      /\ mholder' \in [Mutex -> Word] /\ holder' \in [Sem -> [Task -> Nat]]
      /\ prio' \in [Task -> 1 .. 255] /\ waitdog' \in [Task -> BOOLEAN]
    <2>1. s \in Sem /\ PostSlow(s, Null)
        BY <1>1, <1>s
    <2>2. /\ waitlist' = IF Woken(s) = Null THEN waitlist ELSE [waitlist EXCEPT ![s] = Tail(@)]
          /\ count' = IF s \in Mutex THEN count ELSE [count EXCEPT ![s] = @ + 1]
          /\ holder' = PostedHolders(s, Null)
          /\ waitdog' = [u \in Task |-> u # Woken(s) /\ waitdog[u]]
          /\ UNCHANGED <<errcode, alive, irqlock>>
          /\ waitlist' \in [Sem -> Seq(Task)] /\ count' \in [Counting -> Int]
          /\ mholder' \in [Mutex -> Word] /\ holder' \in [Sem -> [Task -> Nat]]
          /\ prio' \in [Task -> 1 .. 255] /\ waitdog' \in [Task -> BOOLEAN]
        BY <1>2, <2>1, PostSlowType
    <2> QED
        BY <1>w, <2>2
<1>4. holder' = holder
    BY <1>3, <1>s, SemFacts DEF PostedHolders
<1>5. /\ w # Null => w \in Task /\ waitlist[s] # << >> /\ w = Head(waitlist[s]) /\ Waits(w, s)
      /\ w = Null => count[s] >= 0
    BY <1>s, <1>w, WokenFacts
<1>6. SemType'
    <2>1. pc' \in [Task -> Label]
        BY <1>0, <1>1 DEF SemType, Label
    <2> QED
        BY <1>0, <1>1, <1>3, <2>1 DEF SemType
<1>7. \A u \in Task \ {Null, w} :
          /\ pc'[u] = pc[u] /\ sem'[u] = sem[u] /\ held'[u] = held[u]
          /\ errcode'[u] = errcode[u] /\ (u \in alive' <=> u \in alive)
          /\ waitdog'[u] = waitdog[u]
    BY <1>0, <1>1, <1>3 DEF SemType
<1>8. CASE w = Null
    <2>1. Same(Null)
        BY <1>7, <1>8 DEF Same
    <2>2. count[s] >= 0 /\ waitlist' = waitlist /\ count' = [count EXCEPT ![s] = @ + 1]
        BY <1>3, <1>5, <1>8, <1>s
    <2>3. \A q \in Counting : \A u \in Task :
             holder'[q][u] = IF q = s /\ q \in Pool /\ u = Null THEN 0 ELSE holder[q][u]
        BY <1>4, <1>s
    <2>4. (Null \in Task => Shape(Null)') /\ (s \in Pool => Null \in Task)
          /\ (Null \in Task => \A q \in Sem : Waits(Null, q)' <=> Waits(Null, q))
          /\ (Null \in Task => \A q \in Pool : (Owns(Null, q) <=> q = s) /\ ~Owns(Null, q)')
        BY <1>s
    <2> QED
        BY <1>2, <1>6, <1>s, <2>1, <2>2, <2>3, <2>4, GiveStep
<1>9. CASE w # Null
    <2>1. w \in Task /\ waitlist[s] # << >> /\ w = Head(waitlist[s]) /\ Waits(w, s)
        BY <1>5, <1>9
    <2>2. pc[w] = "blocked" /\ sem[w] = s /\ held[w] = Null /\ w \in alive /\ errcode[w] = "OK"
        BY <1>0, <2>1 DEF ShapeInv, Shape, Waits
    <2>3. /\ pc'[w] = "resumed" /\ sem'[w] = s /\ held'[w] = Null /\ w \in alive'
          /\ errcode'[w] = "OK" /\ ~waitdog'[w]
        BY <1>0, <1>1, <1>3, <2>1, <2>2 DEF SemType
    <2>4. Shape(w)'
        BY <1>s, <2>3 DEF Shape
    <2>5. \A q \in Sem : (Waits(w, q) <=> q = s) /\ ~Waits(w, q)'
        BY <1>1, <2>2, <2>3 DEF Waits
    <2>6. \A q \in Pool : ~Owns(w, q) /\ (Owns(w, q)' <=> q = s)
        BY <2>2, <2>3, SemFacts DEF Owns
    <2>7. waitlist' = [waitlist EXCEPT ![s] = Tail(@)]
          /\ count' = IF s \in Mutex THEN count ELSE [count EXCEPT ![s] = @ + 1]
        BY <1>3, <1>9
    <2>8. \A q \in Counting : \A u \in Task :
              holder'[q][u] = IF q = s /\ q \in Pool
                              THEN IF u = Null THEN 0 ELSE IF u = w THEN 1 ELSE holder[q][u]
                              ELSE holder[q][u]
        BY <1>4, <1>s
    <2>9. (Null \in Task => Shape(Null)') /\ (s \in Pool => Null \in Task) /\ Null # w
          /\ (Null \in Task => \A q \in Sem : ~Waits(Null, q)' /\ ~Waits(Null, q))
          /\ (Null \in Task => \A q \in Pool : (Owns(Null, q) <=> q = s) /\ ~Owns(Null, q)')
        BY <1>9, <1>s
    <2> QED
        BY <1>2, <1>6, <1>7, <1>s, <2>1, <2>4, <2>5, <2>6, <2>7, <2>8, <2>9, HandStep
<1> QED
    BY <1>8, <1>9

LEMMA PostStep ==
    ASSUME CountLayer, NEW t \in Task, NEW s \in Sem, Post(t, s)
    PROVE  CountLayer'
<1>0. SemType /\ ShapeInv /\ Shape(t) /\ CountInv
    BY DEF CountLayer, ShapeInv
<1>1. /\ t \in alive /\ pc[t] = "run" /\ sem[t] = Null /\ ~waitdog[t]
      /\ held[t] = IF s \in Event THEN Null ELSE s
      /\ UNCHANGED <<prio, errcode, waitdog, alive, irqlock>>
    BY <1>0 DEF Post, MayPost, Shape, tcbVars
<1>2. \A q \in Sem : ~Waits(t, q) /\ (Owns(t, q) <=> q = s /\ s \in Inherit)
    BY <1>0, <1>1, OwnsFacts, SemFacts DEF Waits
<1>3. CASE /\ HasFastPath(s) /\ ~Blocking(s) /\ Released(s)
           /\ held' = [held EXCEPT ![t] = Null] /\ UNCHANGED <<waitlist, holder, pc, sem>>
    <2>1. /\ s \notin Pool /\ UNCHANGED <<waitlist, holder, pc, sem>>
          /\ ~Blocking(s) /\ Released(s)
        BY <1>3 DEF HasFastPath
    <2>2. held'[t] = Null /\ Same(t) /\ Shape(t)' /\ held' \in [Task -> Sem \cup {Null}]
        BY <1>0, <1>1, <1>3, <2>1, SemFacts DEF Same, Shape, SemType
    <2>3. \A q \in Sem : ~Waits(t, q)' /\ ~Owns(t, q)'
        BY <1>1, <2>1, <2>2, SemFacts DEF Waits, Owns
    <2>4. CASE s \in Mutex
        <3>1. mholder' = [mholder EXCEPT ![s] = Free] /\ count' = count
            BY <2>1, <2>4 DEF Released
        <3>2. mholder' \in [Mutex -> Word]
            BY <1>0, <3>1, WordFacts DEF SemType
        <3>3. SemType'
            BY <1>0, <1>1, <2>1, <2>2, <3>1, <3>2 DEF SemType
        <3>4. \A q \in Pool : Owns(t, q)' <=> Owns(t, q)
            BY <1>2, <2>3, <2>4, SemFacts
        <3> QED
            BY <1>2, <2>1, <2>2, <2>3, <3>1, <3>3, <3>4, QuietStep
    <2>5. CASE s \notin Mutex
        <3>1. s \in Counting /\ count' = [count EXCEPT ![s] = @ + 1] /\ mholder' = mholder
            BY <2>1, <2>5, SemFacts DEF Released
        <3>2. count[s] >= 0 /\ count' \in [Counting -> Int]
            BY <1>0, <2>1, <2>5, <3>1 DEF Blocking, SemType
        <3>3. SemType'
            BY <1>0, <1>1, <2>1, <2>2, <3>1, <3>2 DEF SemType
        <3>4. \A q \in Pool : (Owns(t, q) <=> q = s) /\ ~Owns(t, q)'
            BY <1>2, <2>1, <2>3, SemFacts
        <3>5. \A q \in Counting : \A u \in Task :
                 holder'[q][u] = IF q = s /\ q \in Pool /\ u = t THEN 0 ELSE holder[q][u]
            BY <2>1
        <3>6. \A q \in Sem : Waits(t, q)' <=> Waits(t, q)
            BY <1>2, <2>3
        <3>7. t \in Task \cup {Null} /\ waitlist' = waitlist
            BY <2>1
        <3> QED
            BY <2>2, <3>1, <3>2, <3>3, <3>4, <3>5, <3>6, <3>7, GiveStep
    <2> QED
        BY <2>4, <2>5
<1>4. CASE GoTo(t, "post", s) /\ UNCHANGED <<semVars, held>>
    <2>1. /\ pc' = [pc EXCEPT ![t] = "post"] /\ sem' = [sem EXCEPT ![t] = s]
          /\ UNCHANGED <<count, mholder, waitlist, holder, held>>
        BY <1>4 DEF GoTo, semVars
    <2>2. SemType'
        BY <1>0, <1>1, <2>1 DEF SemType, Label
    <2>3. pc'[t] = "post" /\ sem'[t] = s
        BY <1>0, <2>1 DEF SemType
    <2>4. Same(t)
        BY <1>0, <1>1, <2>1 DEF Same, SemType
    <2>5. Shape(t)'
        BY <1>0, <1>1, <2>1, <2>3 DEF Shape
    <2>6. \A q \in Sem : (Waits(t, q)' <=> Waits(t, q)) /\ (Owns(t, q)' <=> Owns(t, q))
        BY <1>1, <2>1, <2>3 DEF Waits, Owns
    <2> QED
        BY <2>1, <2>2, <2>4, <2>5, <2>6, SemFacts, QuietStep
<1> QED
    BY <1>3, <1>4 DEF Post

\* dq_rem() of a task that is in the list.
LEMMA DqRemListed ==
    ASSUME CountLayer, NEW t \in Task, NEW s \in Sem, Waits(t, s)
    PROVE  DqRem(waitlist[s], t) = RemoveFirst(waitlist[s], t)
<1>1. waitlist[s] \in Seq(Task) /\ Occurs(t, waitlist[s])
    BY DEF CountLayer, SemType, ListInv
<1>2. t \in Range(waitlist[s])
    BY <1>1 DEF Range, Occurs
<1> QED
    BY <1>2 DEF DqRem

\* The two removals of a task that waits alone.
LEMMA DqRemAlone ==
    ASSUME CountLayer, NEW t \in Task, NEW s \in Sem, Waits(t, s), Undisturbing(t)
    PROVE  /\ RemoveFirst(waitlist[s], t) = << >>
           /\ DqRem(<< >>, t) = << >>
           /\ Unlisted(t) = [waitlist EXCEPT ![s] = << >>]
<1>1. waitlist \in [Sem -> Seq(Task)] /\ ListInv
    BY DEF CountLayer, SemType
<1>2. /\ waitlist[s] \in Seq(Task) /\ OnceEach(waitlist[s]) /\ Occurs(t, waitlist[s])
      /\ \A u \in Task \ {t} : ~Occurs(u, waitlist[s])
    BY <1>1 DEF ListInv, Undisturbing
<1>3. /\ RemoveFirst(waitlist[s], t) \in Seq(Task)
      /\ \A u \in Task : ~Occurs(u, RemoveFirst(waitlist[s], t))
    BY <1>2, RemoveFirstMembers
<1>4. \A q \in Seq(Task) : (\A u \in Task : ~Occurs(u, q)) => q = << >>
    <2> SUFFICES ASSUME NEW q \in Seq(Task), q # << >>
                 PROVE  \E u \in Task : Occurs(u, q)
        OBVIOUS
    <2>1. q[1] \in Task /\ 1 \in 1 .. Len(q)
        OBVIOUS
    <2> QED
        BY <2>1 DEF Occurs
<1>5. RemoveFirst(waitlist[s], t) = << >>
    BY <1>3, <1>4
<1>6. DqRem(<< >>, t) = << >>
    BY DEF DqRem, Range
<1>7. Unlisted(t) = [q \in Sem |-> IF q = s THEN DqRem(waitlist[q], t) ELSE waitlist[q]]
    BY DEF Unlisted, Waits
<1>8. DqRem(waitlist[s], t) = << >>
    BY <1>5, DqRemListed
<1> QED
    BY <1>1, <1>5, <1>6, <1>7, <1>8

\* What the end of a wait does to the semaphore: nxsem_canceled() with the lists
\* given, the removal of t and of its count.
CancelWait(t, s, lists) ==
    /\ Canceled(s, lists)
    /\ waitlist' = [waitlist EXCEPT ![s] = RemoveFirst(@, t)]
    /\ Uncount(s)

LEMMA CancelFacts ==
    ASSUME CountLayer, NEW t \in Task, NEW s \in Sem, Waits(t, s),
           NEW lists \in [Sem -> Seq(Task)], CancelWait(t, s, lists)
    PROVE  /\ waitlist' = [waitlist EXCEPT ![s] = RemoveFirst(@, t)]
           /\ count' = IF s \in Mutex THEN count ELSE [count EXCEPT ![s] = @ + 1]
           /\ prio' \in [Task -> 1 .. 255] /\ holder' \in [Sem -> [Task -> Nat]]
           /\ waitlist' \in [Sem -> Seq(Task)] /\ count' \in [Counting -> Int]
           /\ \A q \in Counting : holder'[q] = holder[q]
<1>0. SemType /\ ShapeInv /\ ListInv
    BY DEF CountLayer
<1>1. /\ prio' = Restored(Holders(s, holder), Freed(s, holder), lists)
      /\ holder' = Freed(s, holder)
      /\ waitlist' = [waitlist EXCEPT ![s] = RemoveFirst(@, t)]
      /\ count' = IF s \in Mutex THEN count ELSE [count EXCEPT ![s] = @ + 1]
    BY DEF CancelWait, Canceled, Uncount
<1>2. waitlist \in [Sem -> Seq(Task)]
    BY <1>0 DEF SemType
<1>3. prio' \in [Task -> 1 .. 255]
    BY <1>0, <1>1, <1>2, RestoredType
<1>4. holder' \in [Sem -> [Task -> Nat]] /\ \A q \in Counting : holder'[q] = holder[q]
    BY <1>0, <1>1, SemFacts DEF SemType, Freed
<1>5. waitlist' \in [Sem -> Seq(Task)]
    <2>1. waitlist[s] \in Seq(Task) /\ OnceEach(waitlist[s]) /\ Occurs(t, waitlist[s])
        BY <1>0, <1>2 DEF ListInv
    <2>2. RemoveFirst(waitlist[s], t) \in Seq(Task)
        BY <2>1, RemoveFirstMembers
    <2> QED
        BY <1>1, <1>2, <2>2
<1>6. count' \in [Counting -> Int]
    BY <1>0, <1>1, SemFacts DEF SemType
<1> QED
    BY <1>1, <1>3, <1>4, <1>5, <1>6

LEMMA WaitIrqFacts ==
    ASSUME CountLayer, NEW t \in Task, NEW s \in Sem, Waits(t, s), NEW err, WaitIrq(t, err)
    PROVE  /\ CancelWait(t, s, waitlist)
           /\ errcode' = [errcode EXCEPT ![t] = err]
           /\ pc' = [pc EXCEPT ![t] = "resumed"] /\ UNCHANGED <<mholder, sem>>
<1>1. /\ Canceled(s, waitlist) /\ Uncount(s)
      /\ waitlist' = [waitlist EXCEPT ![s] = DqRem(@, t)]
      /\ errcode' = [errcode EXCEPT ![t] = err]
      /\ pc' = [pc EXCEPT ![t] = "resumed"] /\ UNCHANGED <<mholder, sem>>
    BY DEF WaitIrq, Waits
<1>2. waitlist' = [waitlist EXCEPT ![s] = RemoveFirst(waitlist[s], t)]
    BY <1>1, DqRemListed DEF CountLayer, SemType
<1> QED
    BY <1>1, <1>2 DEF CancelWait

\* nxsem_wait_irq() ends the wait with an error.
LEMMA WaitIrqStep ==
    ASSUME CountLayer, NEW t \in Task, NEW err \in {"EINTR", "ETIMEDOUT"},
           pc[t] = "blocked", WaitIrq(t, err), UNCHANGED <<alive, irqlock, held>>,
           waitdog' = waitdog \/ waitdog' = [waitdog EXCEPT ![t] = FALSE]
    PROVE  CountLayer'
<1>s. PICK s : s = sem[t]
    OBVIOUS
<1>0. SemType /\ ShapeInv /\ Shape(t)
    BY DEF CountLayer, ShapeInv
<1>w. s \in Sem /\ held[t] = Null /\ t \in alive /\ Waits(t, s) /\ waitlist \in [Sem -> Seq(Task)]
    BY <1>0, <1>s DEF Shape, Waits, SemType
<1>1. /\ s \in Sem /\ held[t] = Null /\ t \in alive /\ CancelWait(t, s, waitlist)
      /\ errcode' = [errcode EXCEPT ![t] = err]
      /\ pc' = [pc EXCEPT ![t] = "resumed"] /\ UNCHANGED <<mholder, sem>>
    BY <1>s, <1>w, WaitIrqFacts
<1>2. /\ waitlist' = [waitlist EXCEPT ![s] = RemoveFirst(@, t)]
      /\ count' = IF s \in Mutex THEN count ELSE [count EXCEPT ![s] = @ + 1]
      /\ prio' \in [Task -> 1 .. 255] /\ holder' \in [Sem -> [Task -> Nat]]
      /\ waitlist' \in [Sem -> Seq(Task)] /\ count' \in [Counting -> Int]
      /\ \A q \in Counting : holder'[q] = holder[q]
    BY <1>1, <1>w, CancelFacts
<1>3. SemType'
    <2>1. /\ pc' \in [Task -> Label] /\ errcode' \in [Task -> {"OK", "EINTR", "ETIMEDOUT"}]
          /\ waitdog' \in [Task -> BOOLEAN]
        BY <1>0, <1>1 DEF SemType, Label
    <2> QED
        BY <1>0, <1>1, <1>2, <2>1 DEF SemType
<1>4. /\ pc'[t] = "resumed" /\ sem'[t] = s /\ held'[t] = Null /\ t \in alive' /\ errcode'[t] # "OK"
      /\ waitdog'[t] => waitdog[t]
    BY <1>0, <1>1, <1>s DEF SemType
<1>5. Same(t)
    BY <1>0, <1>1 DEF Same, SemType
<1>6. Shape(t)'
    BY <1>0, <1>1, <1>4, <1>s DEF Shape
<1>7. \A q \in Sem : (Waits(t, q) <=> q = s) /\ ~Waits(t, q)' /\ ~Owns(t, q) /\ ~Owns(t, q)'
    BY <1>1, <1>4, <1>s, SemFacts DEF Waits, Owns
<1>8. \A q \in Pool : ~Owns(t, q) /\ ~Owns(t, q)'
    BY <1>7, SemFacts
<1> QED
    BY <1>1, <1>2, <1>3, <1>5, <1>6, <1>7, <1>8, CancelStep

LEMMA ExpireStep ==
    ASSUME CountLayer, NEW t \in Task, Expire(t)
    PROVE  CountLayer'
<1>0. SemType /\ ShapeInv /\ Shape(t)
    BY DEF CountLayer, ShapeInv
<1>1. waitdog' = [waitdog EXCEPT ![t] = FALSE] /\ UNCHANGED <<alive, irqlock, held>>
    BY DEF Expire
<1>2. CASE pc[t] = "blocked"
    <2>1. WaitIrq(t, "ETIMEDOUT")
        BY <1>2 DEF Expire
    <2> QED
        BY <1>1, <1>2, <2>1, WaitIrqStep
<1>3. CASE pc[t] # "blocked"
    <2>1. UNCHANGED <<count, mholder, waitlist, holder, prio, errcode, pc, sem>>
        BY <1>3 DEF Expire, semVars
    <2>2. SemType'
        BY <1>0, <1>1, <2>1 DEF SemType
    <2>3. Same(t) /\ ~waitdog'[t]
        BY <1>0, <1>1, <2>1 DEF Same, SemType
    <2>4. Shape(t)'
        BY <1>0, <1>1, <2>1, <2>3 DEF Shape
    <2>5. \A q : (Waits(t, q)' <=> Waits(t, q)) /\ (Owns(t, q)' <=> Owns(t, q))
        BY <1>1, <2>1 DEF Waits, Owns
    <2> QED
        BY <2>1, <2>2, <2>3, <2>4, <2>5, QuietStep
<1> QED
    BY <1>2, <1>3

LEMMA SignalStep ==
    ASSUME CountLayer, NEW t \in Task, Signal(t)
    PROVE  CountLayer'
<1>1. pc[t] = "blocked" /\ WaitIrq(t, "EINTR") /\ UNCHANGED <<waitdog, alive, irqlock, held>>
    BY DEF Signal
<1> QED
    BY <1>1, WaitIrqStep

\* What nxtask_terminate() does to a task that waits alone.
LEMMA TerminateFacts ==
    ASSUME CountLayer, NEW t \in Task, NEW s \in Sem, Waits(t, s), Delete(t), CarefulDelete
    PROVE  /\ CancelWait(t, s, [waitlist EXCEPT ![s] = << >>])
           /\ RemoveFirst(waitlist[s], t) = << >>
           /\ waitlist' = [waitlist EXCEPT ![s] = << >>]
           /\ mholder' = IF s \in Mutex THEN [mholder EXCEPT ![s].blocking = FALSE] ELSE mholder
<1> DEFINE lists == [waitlist EXCEPT ![s] = << >>]
<1>0. waitlist \in [Sem -> Seq(Task)]
    BY DEF CountLayer, SemType
<1>1. /\ RemoveFirst(waitlist[s], t) = << >> /\ DqRem(<< >>, t) = << >>
      /\ Unlisted(t) = lists
    BY DqRemAlone DEF Delete
<1>2. Recover(t, lists)
    BY <1>1 DEF Delete, Terminate
<1>3. lists[s] = << >> /\ [lists EXCEPT ![s] = << >>] = lists
    BY <1>0
<1> HIDE DEF lists
<1>4. /\ Canceled(s, lists) /\ Uncount(s)
      /\ waitlist' = [lists EXCEPT ![s] = DqRem(lists[s], t)]
      /\ mholder' = IF s \in Mutex /\ waitlist'[s] = << >>
                    THEN [mholder EXCEPT ![s].blocking = FALSE] ELSE mholder
    BY <1>2 DEF Recover, Waits
<1>5. waitlist' = lists
    BY <1>1, <1>3, <1>4
<1>6. waitlist' = [waitlist EXCEPT ![s] = RemoveFirst(@, t)]
    BY <1>1, <1>5 DEF lists
<1>7. waitlist'[s] = << >>
    BY <1>3, <1>5
<1> QED
    BY <1>1, <1>4, <1>5, <1>6, <1>7 DEF lists, CancelWait

\* Nobody waits for what a task to delete owns.
LEMMA OwnedUnwaited ==
    ASSUME CountLayer, NEW t \in Task, Delete(t), CarefulDelete
    PROVE  \A s \in Sem : Owns(t, s) => waitlist[s] = << >>
<1> SUFFICES ASSUME NEW s \in Sem, Owns(t, s)
             PROVE  waitlist[s] = << >>
    OBVIOUS
<1>1. waitlist[s] \in Seq(Task) /\ \A u \in Task : Occurs(u, waitlist[s]) => Waits(u, s)
    BY DEF CountLayer, SemType, ListInv
<1>2. \A u \in Task : ~Waits(u, s)
    <2>1. ~Waits(t, s)
        BY OwnsFacts DEF CountLayer, ShapeInv, Waits
    <2> QED
        BY <2>1 DEF Delete, Undisturbing
<1>3. waitlist[s] # << >> => waitlist[s][1] \in Task /\ 1 \in 1 .. Len(waitlist[s])
    BY <1>1
<1> QED
    BY <1>1, <1>2, <1>3 DEF Occurs

LEMMA DeleteStep ==
    ASSUME CountLayer, NEW t \in Task, Delete(t), CarefulDelete
    PROVE  CountLayer'
<1>0. SemType /\ ShapeInv /\ Shape(t) /\ EntryInv /\ CountInv
    BY DEF CountLayer, ShapeInv
<1>1. /\ t \in alive /\ irqlock = Null /\ \A q \in Sem : Owns(t, q) => waitlist[q] = << >>
      /\ Recover(t, Unlisted(t)) /\ waitdog' = [waitdog EXCEPT ![t] = FALSE] /\ alive' = alive \ {t}
      /\ pc' = [pc EXCEPT ![t] = "run"] /\ sem' = [sem EXCEPT ![t] = Null]
      /\ held' = [held EXCEPT ![t] = Null] /\ UNCHANGED <<errcode, irqlock>>
    BY OwnedUnwaited DEF Delete, Terminate
<1>2. /\ pc' \in [Task -> Label] /\ sem' \in [Task -> Sem \cup {Null}]
      /\ held' \in [Task -> Sem \cup {Null}] /\ waitdog' \in [Task -> BOOLEAN]
      /\ alive' \subseteq Task /\ irqlock' \in alive' \cup {Null}
      /\ errcode' \in [Task -> {"OK", "EINTR", "ETIMEDOUT"}]
    BY <1>0, <1>1 DEF SemType, Label
<1>3. /\ pc'[t] = "run" /\ sem'[t] = Null /\ held'[t] = Null /\ t \notin alive' /\ ~waitdog'[t]
      /\ Same(t)
    BY <1>0, <1>1 DEF SemType, Same
<1>4. Shape(t)'
    BY <1>3, SemFacts DEF Shape
<1>5. \A q \in Sem : ~Waits(t, q)' /\ ~Owns(t, q)'
    BY <1>3 DEF Waits, Owns
<1>6. CASE pc[t] = "blocked"
    <2>s. PICK s : s = sem[t]
        OBVIOUS
    <2>1. s \in Sem /\ held[t] = Null
        BY <1>0, <1>6, <2>s DEF Shape
    <2>w. Waits(t, s) /\ [waitlist EXCEPT ![s] = << >>] \in [Sem -> Seq(Task)]
        <3>1. waitlist \in [Sem -> Seq(Task)] /\ << >> \in Seq(Task)
            BY <1>0 DEF SemType
        <3> QED
            BY <1>6, <2>1, <2>s, <3>1 DEF Waits
    <2>2. /\ CancelWait(t, s, [waitlist EXCEPT ![s] = << >>])
          /\ mholder' = IF s \in Mutex THEN [mholder EXCEPT ![s].blocking = FALSE] ELSE mholder
        BY <2>1, <2>w, TerminateFacts
    <2>3. /\ waitlist' = [waitlist EXCEPT ![s] = RemoveFirst(@, t)]
          /\ count' = IF s \in Mutex THEN count ELSE [count EXCEPT ![s] = @ + 1]
          /\ prio' \in [Task -> 1 .. 255] /\ holder' \in [Sem -> [Task -> Nat]]
          /\ waitlist' \in [Sem -> Seq(Task)] /\ count' \in [Counting -> Int]
          /\ \A q \in Counting : holder'[q] = holder[q]
        BY <2>1, <2>2, <2>w, CancelFacts
    <2>4. mholder' \in [Mutex -> Word]
        <3>1. CASE s \in Mutex
            <4>1. mholder[s] \in Word
                BY <1>0, <3>1 DEF SemType
            <4>2. [mholder[s] EXCEPT !.blocking = FALSE] \in Word
                BY <4>1, WordFacts
            <4>3. mholder' = [mholder EXCEPT ![s] = [mholder[s] EXCEPT !.blocking = FALSE]]
                  \/ mholder' = mholder
                BY <1>0, <2>2, <3>1 DEF SemType
            <4> QED
                BY <1>0, <4>2, <4>3 DEF SemType
        <3>2. CASE s \notin Mutex
            BY <1>0, <2>2, <3>2 DEF SemType
        <3> QED
            BY <3>1, <3>2
    <2>5. SemType'
        BY <1>2, <2>3, <2>4 DEF SemType
    <2>6. \A q \in Sem : (Waits(t, q) <=> q = s) /\ ~Owns(t, q)
        BY <1>0, <1>6, <2>s, OwnsFacts DEF Waits
    <2>7. \A q \in Pool : ~Owns(t, q) /\ ~Owns(t, q)'
        BY <1>5, <2>6, SemFacts
    <2>8. \A q \in Sem : (Waits(t, q) <=> q = s) /\ ~Waits(t, q)'
        BY <1>5, <2>6
    <2> QED
        BY <1>3, <1>4, <2>1, <2>3, <2>5, <2>7, <2>8, CancelStep
<1>7. CASE pc[t] # "blocked"
    <2>1. /\ holder' = [q \in Sem |-> [holder[q] EXCEPT ![t] = 0]]
          /\ count' = [q \in Counting |-> count[q] + IF holder[q][t] > 0 THEN 1 ELSE 0]
          /\ UNCHANGED <<mholder, waitlist, prio>>
        BY <1>1, <1>7 DEF Recover, ReleaseAll
    <2>2. \A q \in Counting : /\ q \in Sem /\ holder[q] \in [Task -> Nat]
                              /\ holder[q][t] = IF q \in Pool /\ Owns(t, q) THEN 1 ELSE 0
        BY <1>0, SemFacts DEF EntryInv, SemType
    <2>3. \A q \in Counting : \A u \in Task :
              holder'[q][u] = IF u = t THEN 0 ELSE holder[q][u]
        BY <2>1, <2>2
    <2>4. \A q \in Sem : ~Waits(t, q)
        BY <1>7 DEF Waits
    <2>5. SemType'
        <3>1. holder' \in [Sem -> [Task -> Nat]]
            BY <1>0, <2>1 DEF SemType
        <3>2. count' \in [Counting -> Int]
            BY <1>0, <2>1 DEF SemType
        <3> QED
            BY <1>0, <1>2, <2>1, <3>1, <3>2 DEF SemType
    <2>6. CASE \E p \in Pool : Owns(t, p)
        <3>1. PICK s \in Pool : Owns(t, s)
            BY <2>6
        <3>2. s \in Sem /\ s \in Counting
            BY SemFacts
        <3>3. \A q \in Pool : Owns(t, q) <=> q = s
            <4>1. \A q \in Pool : q \in Sem
                BY SemFacts
            <4> QED
                BY <1>0, <3>1, <3>2, <4>1, OwnsFacts
        <3>4. \A q \in Counting : holder[q][t] = IF q = s THEN 1 ELSE 0
            BY <2>2, <3>3
        <3>5. count \in [Counting -> Int]
            BY <1>0 DEF SemType
        <3>6. count' = [count EXCEPT ![s] = @ + 1]
            <4>1. \A q \in Counting : count'[q] = IF q = s THEN count[q] + 1 ELSE count[q]
                BY <2>1, <3>4, <3>5
            <4>2. count' \in [Counting -> Int]
                BY <2>5 DEF SemType
            <4> QED
                BY <3>5, <4>1, <4>2
        <3>7. count[s] >= 0
            <4>1. waitlist[s] = << >> /\ count[s] \in Int
                BY <1>1, <3>1, <3>2, <3>5
            <4>2. Len(waitlist[s]) = 0
                BY <4>1
            <4>3. count[s] < 0 => Len(waitlist[s]) = -count[s]
                BY <1>0, <3>2 DEF CountInv
            <4> QED
                BY <4>1, <4>2, <4>3
        <3>8. \A q \in Counting : \A u \in Task :
                 holder'[q][u] = IF q = s /\ q \in Pool /\ u = t THEN 0 ELSE holder[q][u]
            BY <2>3, <3>4
        <3>9. \A q \in Pool : (Owns(t, q) <=> q = s) /\ ~Owns(t, q)'
            BY <1>5, <3>3, SemFacts
        <3>10. \A q \in Sem : Waits(t, q)' <=> Waits(t, q)
            BY <1>5, <2>4
        <3>11. t \in Task \cup {Null} /\ waitlist' = waitlist
            BY <2>1
        <3> QED
            BY <1>3, <1>4, <2>5, <3>2, <3>6, <3>7, <3>8, <3>9, <3>10, <3>11, GiveStep
    <2>7. CASE ~\E p \in Pool : Owns(t, p)
        <3>1. \A q \in Counting : holder[q][t] = 0
            BY <2>2, <2>7
        <3>2. \A q \in Counting : holder'[q] = holder[q]
            <4> SUFFICES ASSUME NEW q \in Counting
                         PROVE  holder'[q] = holder[q]
                OBVIOUS
            <4>1. holder'[q] = [holder[q] EXCEPT ![t] = 0] /\ holder[q] \in [Task -> Nat]
                BY <2>1, <2>2
            <4> QED
                BY <3>1, <4>1
        <3>3. count \in [Counting -> Int] /\ count' \in [Counting -> Int]
            BY <1>0, <2>5 DEF SemType
        <3>4. \A q \in Counting : count'[q] = count[q]
            BY <2>1, <3>1, <3>3
        <3>5. UNCHANGED <<count, waitlist>>
            BY <2>1, <3>3, <3>4
        <3>6. \A q \in Sem : Waits(t, q)' <=> Waits(t, q)
            BY <1>5, <2>4
        <3>7. \A q \in Pool : Owns(t, q)' <=> Owns(t, q)
            BY <1>5, <2>7, SemFacts
        <3> QED
            BY <1>3, <1>4, <2>5, <3>2, <3>5, <3>6, <3>7, QuietStep
    <2> QED
        BY <2>6, <2>7
<1> QED
    BY <1>6, <1>7

-----------------------------------------------------------------------------
(* Counts, wait lists and holder entries, whatever ends a wait. *)

LEMMA MaxOfTwo ==
    ASSUME NEW c \in Int
    PROVE  Max({0, -c}) = IF c < 0 THEN -c ELSE 0
<1> DEFINE m == IF c < 0 THEN -c ELSE 0
<1>1. m \in {0, -c} /\ \A y \in {0, -c} : m >= y
    OBVIOUS
<1>2. \A x \in {0, -c} : (\A y \in {0, -c} : x >= y) => x = m
    OBVIOUS
<1> QED
    BY <1>1, <1>2 DEF Max

LEMMA CountInit == Init => CountLayer
<1> SUFFICES ASSUME Init
             PROVE  CountLayer
    OBVIOUS
<1>1. SemType
    <2>1. \A s \in Mutex : Free \in Word
        BY WordFacts
    <2> HIDE DEF Free
    <2> QED
        BY <2>1, SemAssumption DEF Init, SemType, Label
<1>2. ShapeInv
    BY DEF Init, ShapeInv, Shape
<1>3. \A s \in Sem : \A t \in Task : ~Owns(t, s) /\ ~Waits(t, s)
    BY SemFacts DEF Init, Owns, Waits
<1>4. \A s \in Sem : waitlist[s] = << >> /\ \A t \in Task : holder[s][t] = 0
    BY DEF Init
<1>5. ListInv
    BY <1>3, <1>4 DEF ListInv, OnceEach, Occurs
<1>6. EntryInv
    BY <1>3, <1>4, SemFacts DEF EntryInv
<1>7. \A s \in Pool : Held(s) = 0
    <2> SUFFICES ASSUME NEW s \in Pool
                 PROVE  Held(s) = 0
        OBVIOUS
    <2>1. {t \in Task : Owns(t, s)} = {}
        BY <1>3, SemFacts
    <2> QED
        BY <2>1, FS_EmptySet DEF Held
<1>8. CountInv
    <2>1. \A s \in Counting : count[s] \in Nat /\ Len(waitlist[s]) = 0 /\ count[s] = Value0[s]
        BY <1>4, SemAssumption, SemFacts DEF Init
    <2> QED
        BY <1>7, <2>1, SemFacts DEF CountInv
<1> QED
    BY <1>1, <1>2, <1>5, <1>6, <1>8 DEF CountLayer

LEMMA CountNext ==
    ASSUME CarefulDelete, CountLayer, [Next]_vars
    PROVE  CountLayer'
<1>1. ASSUME NEW t \in Task, Begin(t)
      PROVE  CountLayer'
    <2>1. PICK s \in Sem : Wait(t, s) \/ TickWait(t, s) \/ Post(t, s)
        BY <1>1 DEF Begin
    <2> QED
        BY <2>1, WaitStep, PostStep
<1>2. ASSUME NEW t \in Task, Finish(t)
      PROVE  CountLayer'
    BY <1>2, SlowTakeStep, SlowBlockStep, ResumeStep, SlowPostStep, PostStep, SemFacts DEF Finish
<1>3. CASE Done \/ UNCHANGED vars
    <2>1. UNCHANGED <<count, mholder, waitlist, holder, prio, errcode, waitdog, alive, irqlock, pc, sem, held>>
        BY <1>3 DEF Done, vars, sysVars, semVars, tcbVars, userVars
    <2>2. SemType /\ ShapeInv /\ ListInv /\ EntryInv /\ CountInv
        BY DEF CountLayer
    <2>3. \A u \in Task : \A q : (Waits(u, q)' <=> Waits(u, q)) /\ (Owns(u, q)' <=> Owns(u, q))
        BY <2>1 DEF Waits, Owns
    <2>4. SemType' /\ ShapeInv'
        BY <2>1, <2>2 DEF SemType, ShapeInv, Shape
    <2>5. ListInv' /\ EntryInv'
        BY <2>1, <2>2, <2>3 DEF ListInv, EntryInv
    <2>6. \A q \in Pool : Held(q)' = Held(q)
        BY <2>3, HeldSame, SemFacts
    <2>7. CountInv'
        BY <2>1, <2>2, <2>6 DEF CountInv
    <2> QED
        BY <2>4, <2>5, <2>7 DEF CountLayer
<1> QED
    BY <1>1, <1>2, <1>3, ExpireStep, SignalStep, DeleteStep, InterruptPostStep DEF Next, Step

\* Every wait list has each of its waiters once, a pool has an entry for each of
\* its owners, and the counts agree with both, in every state of nxsem_wait(),
\* nxsem_tickwait() and nxsem_post() with their fast and slow paths, timeouts,
\* signals and deletions.
THEOREM CountLayerHolds ==
    ASSUME CarefulDelete
    PROVE  Spec => []CountLayer
<1>1. CountLayer /\ [Next]_vars => CountLayer'
    BY CountNext
<1> QED
    BY <1>1, CountInit, PTL DEF Spec

\* The types, and that the wait list of a semaphore holds exactly the tasks in
\* TSTATE_WAIT_SEM for it.
THEOREM SemTypeCorrect ==
    ASSUME CarefulDelete
    PROVE  Spec => []TypeOK
<1>1. CountLayer /\ cut \subseteq Task => TypeOK
    <2> SUFFICES ASSUME CountLayer, cut \subseteq Task
                 PROVE  TypeOK
        OBVIOUS
    <2>1. SemType /\ ListInv
        BY DEF CountLayer
    <2>2. ASSUME NEW s \in Sem, NEW t \in Task
          PROVE  (pc[t] = "blocked" /\ sem[t] = s) <=> t \in Range(waitlist[s])
        <3>1. waitlist[s] \in Seq(Task)
            BY <2>1 DEF SemType
        <3>2. t \in Range(waitlist[s]) <=> Occurs(t, waitlist[s])
            BY <3>1 DEF Range, Occurs
        <3> QED
            BY <2>1, <3>2 DEF ListInv, Waits
    <2> QED
        BY <2>1, <2>2 DEF TypeOK, SemType, Word
<1>2. Init => cut \subseteq Task
    BY DEF Init
<1>3. cut \subseteq Task /\ [Next]_vars => (cut \subseteq Task)'
    BY DEF Next, Remember, vars
<1>4. Spec => [](cut \subseteq Task)
    BY <1>2, <1>3, PTL DEF Spec
<1> QED
    BY <1>1, <1>4, CountLayerHolds, PTL

\* The count of a semaphore is the number of its waiters when it is negative, and
\* no count of a pool is lost or made up.
THEOREM CountsConservedHolds ==
    ASSUME CarefulDelete
    PROVE  Spec => []CountsConserved
<1>1. CountLayer => CountsConserved
    <2> SUFFICES ASSUME CountLayer
                 PROVE  CountsConserved
        OBVIOUS
    <2>1. SemType /\ CountInv
        BY DEF CountLayer
    <2>2. ASSUME NEW s \in Counting
          PROVE  Len(waitlist[s]) = Max({0, -count[s]})
        <3>1. /\ count[s] \in Int
              /\ count[s] >= 0 => Len(waitlist[s]) = 0
              /\ count[s] < 0 => Len(waitlist[s]) = -count[s]
            BY <2>1 DEF SemType, CountInv
        <3>2. Max({0, -count[s]}) = IF count[s] < 0 THEN -count[s] ELSE 0
            BY <3>1, MaxOfTwo, Zenon
        <3>3. CASE count[s] < 0
            BY <3>1, <3>2, <3>3
        <3>4. CASE count[s] >= 0
            BY <3>1, <3>2, <3>4
        <3> QED
            BY <3>1, <3>3, <3>4
    <2> QED
        BY <2>1, <2>2 DEF CountsConserved, CountInv, Held
<1> QED
    BY <1>1, CountLayerHolds, PTL

-----------------------------------------------------------------------------
(* The second layer: mutex words, priorities and the order of the lists, when *)
(* no wait for a mutex is ended by a timeout or a signal.                     *)

\* A task that was woken for a mutex has it.
Err(t) == pc[t] = "resumed" /\ sem[t] \in Mutex => errcode[t] = "OK"
ErrInv == \A t \in Task : Err(t)

\* The word of a mutex names its owner, the blocking bit says whether there are
\* waiters, and only the owner of a mutex with waiters has a holder entry.
MutexOk(s) ==
    /\ \A t \in Task : Owns(t, s) <=> (t \in alive /\ mholder[s].tid = t)
    /\ mholder[s].blocking <=> (waitlist[s] # << >>)
    /\ waitlist[s] # << >> => mholder[s].tid \in alive
    /\ \A u \in Task : holder[s][u] > 0 => Owns(u, s) /\ waitlist[s] # << >>
MutexInv == \A s \in Mutex : MutexOk(s)

\* A boosted task has an entry on something that is waited for, unless a wait for
\* what it owned was cut short.
Boost(u) == \E s \in Inherit : holder[s][u] > 0 /\ waitlist[s] # << >>
PrioInv == \A u \in Task : prio[u] # BasePrio[u] => u \in cut \/ Boost(u)

\* The wait lists are in the order of the priorities: those of waiters are fixed.
OrderInv == \A s \in Sem : Descends(waitlist[s], prio)

OwnerLayer == ErrInv /\ MutexInv /\ PrioInv /\ OrderInv /\ HolderBoosted

\* What a step does to the history: nobody who keeps a boost is forgotten, and the
\* owners of a semaphore are remembered when a wait for it is cut short.
CutKept == \A u \in Task : prio'[u] # BasePrio[u] /\ u \notin cut' => u \notin cut
CutOwners(s) == \A u \in Task : prio'[u] # BasePrio[u] /\ u \notin cut' => ~Owns(u, s)

\* Only owners have entries.
LEMMA EntryOwns ==
    ASSUME CountLayer, MutexInv, NEW s \in Inherit, NEW u \in Task, holder[s][u] > 0
    PROVE  Owns(u, s)
<1>1. CASE s \in Mutex
    BY <1>1 DEF MutexInv, MutexOk
<1>2. CASE s \in Pool
    BY <1>2 DEF CountLayer, EntryInv
<1> QED
    BY <1>1, <1>2 DEF Inherit

\* A task has entries on one semaphore at most.
LEMMA OneEntry ==
    ASSUME CountLayer, MutexInv, NEW s \in Sem, NEW u \in Task, u \in Holders(s, holder)
    PROVE  /\ s \in Inherit /\ Owns(u, s)
           /\ \A r \in Sem \ {s} : ~(holder[r][u] > 0) /\ ~Owns(u, r)
<1>0. ShapeInv /\ \A q \in Event : holder[q][u] = 0
    BY DEF CountLayer, EntryInv
<1>1. holder[s][u] > 0
    BY DEF Holders
<1>2. \A q \in Sem : holder[q][u] > 0 => q \in Inherit
    <2> SUFFICES ASSUME NEW q \in Sem, holder[q][u] > 0, q \in Event
                 PROVE  FALSE
        BY SemFacts
    <2>1. holder[q][u] = 0
        BY <1>0
    <2> QED
        BY <2>1
<1>3. s \in Inherit /\ Owns(u, s)
    BY <1>1, <1>2, EntryOwns
<1>4. \A r \in Sem : Owns(u, r) => r = s
    BY <1>0, <1>3, OwnsFacts
<1>5. \A r \in Sem : holder[r][u] > 0 => Owns(u, r)
    BY <1>2, EntryOwns
<1> QED
    BY <1>3, <1>4, <1>5

\* A waiter has no entry, so that no step on a semaphore changes its priority.
LEMMA WaiterFrozen ==
    ASSUME CountLayer, MutexInv, NEW s \in Sem, NEW u \in Task, NEW q \in Sem, Waits(u, q)
    PROVE  u \notin Holders(s, holder)
<1>1. ~Owns(u, s)
    BY OwnsFacts DEF CountLayer, Waits
<1> QED
    BY <1>1, OneEntry

LEMMA OrderKept ==
    ASSUME waitlist' \in [Sem -> Seq(Task)],
           \A q \in Sem : /\ Descends(waitlist'[q], prio)
                          /\ \A u \in Task : Occurs(u, waitlist'[q]) => prio'[u] = prio[u]
    PROVE  OrderInv'
<1> SUFFICES ASSUME NEW q \in Sem
             PROVE  Descends(waitlist'[q], prio')
    BY DEF OrderInv
<1>1. PICK l, p1, p2 : l = waitlist'[q] /\ p1 = prio /\ p2 = prio'
    OBVIOUS
<1>2. /\ l \in Seq(Task) /\ Descends(l, p1)
      /\ \A u \in Task : Occurs(u, l) => p2[u] = p1[u]
    BY <1>1
<1>3. \A i \in 1 .. Len(l) : p2[l[i]] = p1[l[i]]
    BY <1>2 DEF Occurs
<1>4. Descends(l, p2)
    BY <1>2, <1>3 DEF Descends
<1> QED
    BY <1>1, <1>4

LEMMA HeadUrgent ==
    ASSUME NEW q \in Seq(Task), NEW pr \in [Task -> Nat], Descends(q, pr),
           NEW v \in Task, Occurs(v, q)
    PROVE  q # << >> /\ q[1] \in Task /\ pr[q[1]] >= pr[v]
<1>1. PICK i \in 1 .. Len(q) : q[i] = v
    BY DEF Occurs
<1>2. Len(q) \in Nat /\ q # << >> /\ q[1] \in Task /\ 1 \in 1 .. Len(q)
    BY <1>1
<1>3. i = 1 \/ 1 < i
    BY <1>2
<1>4. pr[v] \in Nat
    OBVIOUS
<1> QED
    BY <1>1, <1>2, <1>3, <1>4 DEF Descends

LEMMA MutexKept ==
    ASSUME NEW q \in Mutex, MutexOk(q), mholder'[q] = mholder[q], waitlist'[q] = waitlist[q],
           alive' = alive,
           \A u \in Task : (Owns(u, q)' <=> Owns(u, q)) /\ holder'[q][u] = holder[q][u]
    PROVE  MutexOk(q)'
BY DEF MutexOk

\* t takes a mutex that is free, or whose holder has been deleted.
LEMMA MutexTaken ==
    ASSUME SemType, NEW s \in Mutex, MutexOk(s), NEW t \in Task, t \in alive, mholder[s].tid \notin alive,
           mholder'[s] = [tid |-> t, blocking |-> waitlist[s] # << >>], waitlist'[s] = waitlist[s],
           alive' = alive, \A u \in Task : holder'[s][u] = holder[s][u],
           Owns(t, s)', \A u \in Task \ {t} : Owns(u, s)' <=> Owns(u, s)
    PROVE  waitlist[s] = << >> /\ MutexOk(s)'
<1>1. waitlist[s] = << >> /\ \A u \in Task : ~Owns(u, s)
    BY DEF MutexOk, SemType
<1>2. mholder'[s].tid = t /\ ~mholder'[s].blocking
    <2>1. (waitlist[s] # << >>) = FALSE
        BY <1>1
    <2>2. mholder'[s] = [tid |-> t, blocking |-> FALSE]
        BY <2>1, Zenon
    <2> QED
        BY <2>2
<1>3. \A u \in Task : Owns(u, s)' <=> u = t
    BY <1>1
<1>4. \A u \in Task : ~(holder[s][u] > 0)
    BY <1>1 DEF MutexOk
<1> QED
    BY <1>1, <1>2, <1>3, <1>4 DEF MutexOk

\* A step that changes no priority and no list others inherit through.
LEMMA CalmStep ==
    ASSUME CountLayer, CountLayer', OwnerLayer, CutKept, prio' = prio,
           \A q \in Inherit : waitlist'[q] = waitlist[q],
           \A q \in Event : Descends(waitlist'[q], prio),
           ErrInv', \A q \in Mutex : MutexOk(q)',
           \A q \in Inherit : \A u \in Task :
               /\ Owns(u, q)' => Owns(u, q) \/ waitlist[q] = << >>
               /\ waitlist[q] # << >> => holder'[q][u] = holder[q][u]
    PROVE  OwnerLayer'
<1>0. ErrInv /\ MutexInv /\ PrioInv /\ OrderInv /\ HolderBoosted /\ ListInv /\ ListInv' /\ SemType
    BY DEF OwnerLayer, CountLayer
<1>1. OrderInv'
    <2>1. ASSUME NEW q \in Sem
          PROVE  Descends(waitlist'[q], prio)
        BY <1>0, SemFacts DEF OrderInv
    <2> QED
        BY <2>1 DEF OrderInv
<1>2. PrioInv'
    <2> SUFFICES ASSUME NEW u \in Task, prio[u] # BasePrio[u], u \notin cut'
                 PROVE  Boost(u)'
        BY DEF PrioInv
    <2>1. PICK q \in Inherit : holder[q][u] > 0 /\ waitlist[q] # << >>
        BY <1>0 DEF PrioInv, Boost, CutKept
    <2> QED
        BY <2>1 DEF Boost
<1>3. HolderBoosted'
    <2> SUFFICES ASSUME NEW q \in Inherit, NEW t \in Task, NEW u \in Task, Owns(t, q)', Waits(u, q)'
                 PROVE  prio[t] >= prio[u]
        BY DEF HolderBoosted
    <2>1. q \in Sem
        BY SemFacts
    <2>2. Occurs(u, waitlist[q])
        BY <1>0, <2>1 DEF ListInv
    <2>3. Waits(u, q)
        BY <1>0, <2>1, <2>2 DEF ListInv
    <2>4. waitlist[q] # << >>
        BY <2>2 DEF Occurs
    <2>5. Owns(t, q)
        BY <2>4
    <2> QED
        BY <1>0, <2>3, <2>5 DEF HolderBoosted
<1>4. MutexInv'
    BY DEF MutexInv
<1> QED
    BY <1>1, <1>2, <1>3, <1>4 DEF OwnerLayer

LEMMA ByteNat == \A x \in 1 .. 255 : x \in Nat
OBVIOUS

LEMMA PrioType == ASSUME SemType PROVE prio \in [Task -> Nat]
<1> DEFINE R == 1 .. 255
<1>1. \A x \in R : x \in Nat
    OBVIOUS
<1>2. R \subseteq Nat /\ prio \in [Task -> R]
    BY <1>1 DEF SemType
<1> HIDE DEF R
<1> QED
    BY <1>2

\* nxsched_add_prioritized() keeps the order.
LEMMA AddPrioritizedOrder ==
    ASSUME SemType, NEW q \in Seq(Task), NEW t \in Task, ~Occurs(t, q), OnceEach(q), Descends(q, prio)
    PROVE  Descends(AddPrioritized(q, t), prio)
<1> DEFINE S == {i \in DOMAIN q : prio[q[i]] >= prio[t]}
<1>1. prio \in [Task -> Nat] /\ Len(q) \in Nat /\ \A i \in 1 .. Len(q) : q[i] \in Task
    <2>1. prio \in [Task -> Nat]
        BY PrioType
    <2>2. Len(q) \in Nat /\ \A i \in 1 .. Len(q) : q[i] \in Task
        OBVIOUS
    <2> QED
        BY <2>1, <2>2
<1>3. S = {i \in 1 .. Len(q) : prio[q[i]] >= prio[t]}
    OBVIOUS
<1>4. AddPrioritized(q, t) = InsertAt(q, Cardinality(S) + 1, t)
    BY DEF AddPrioritized
<1> HIDE DEF S
<1>5. PICK k \in 0 .. Len(q) : S = 1 .. k
    <2>1. CASE S = {}
        <3>1. 0 \in 0 .. Len(q) /\ S = 1 .. 0
            BY <1>1, <2>1
        <3> QED
            BY <3>1
    <2>2. CASE S # {}
        <3>1. S \in SUBSET (0 .. Len(q))
            BY <1>1, <1>3
        <3>2. Max(S) \in S /\ \A y \in S : y <= Max(S)
            BY <1>1, <2>2, <3>1, GreatestNatural
        <3>3. PICK k \in S : \A y \in S : y <= k
            BY <3>2
        <3>4. k \in 1 .. Len(q) /\ prio[q[k]] >= prio[t]
            BY <1>3, <3>3
        <3>5. ASSUME NEW i \in 1 .. k
              PROVE  i \in S
            <4>1. i \in 1 .. Len(q) /\ q[i] \in Task /\ q[k] \in Task
                BY <1>1, <3>4
            <4>2. prio[q[i]] \in Nat /\ prio[q[k]] \in Nat /\ prio[t] \in Nat
                BY <1>1, <4>1
            <4>3. prio[q[i]] >= prio[q[k]]
                BY <3>4, <4>1, <4>2 DEF Descends
            <4>4. prio[q[i]] >= prio[t]
                BY <3>4, <4>2, <4>3
            <4> QED
                BY <1>3, <4>1, <4>4
        <3>6. S = 1 .. k
            BY <1>1, <1>3, <3>3, <3>4, <3>5
        <3> QED
            BY <1>1, <3>4, <3>6
    <2> QED
        BY <2>1, <2>2
<1>6. k \in Int /\ k >= 0
    BY <1>1, <1>5
<1>7. Cardinality(S) = k
    BY <1>5, <1>6, FS_Interval
<1>8. k + 1 \in 1 .. Len(q) + 1 /\ \A i \in 1 .. Len(q) : i < k + 1 <=> prio[q[i]] >= prio[t]
    <2>1. \A i \in 1 .. Len(q) : i \in S <=> prio[q[i]] >= prio[t]
        BY <1>3
    <2>2. Len(q) \in Nat /\ k + 1 \in 1 .. Len(q) + 1 /\ \A i \in 1 .. Len(q) : i < k + 1 <=> i \in S
        BY <1>1, <1>5, <1>6
    <2> QED
        BY <2>1, <2>2
<1>9. Descends(InsertAt(q, k + 1, t), prio)
    <2>1. \A pr : /\ pr \in [Task -> Nat] /\ Descends(q, pr)
                  /\ \A i \in 1 .. Len(q) : i < k + 1 <=> pr[q[i]] >= pr[t]
                  => Descends(InsertAt(q, k + 1, t), pr)
        BY <1>8, InsertAtMembers
    <2> QED
        BY <1>1, <1>8, <2>1
<1> QED
    BY <1>4, <1>7, <1>9

\* What nxsem_restore_priority() leaves: p is the priority of u after the pass
\* over us.
Settled(p, us, hold, lists, u) ==
    /\ u \notin us => p = prio[u]
    /\ u \in us => p = BasePrio[u] \/ \E r \in Sem : hold[r][u] > 0 /\ lists[r] # << >>
    /\ \/ p = prio[u]
       \/ \A r \in Sem : hold[r][u] > 0 /\ lists[r] # << >> => p >= prio[lists[r][1]]

LEMMA RestoredFacts ==
    ASSUME SemType, NEW us, NEW hold, NEW lists \in [Sem -> Seq(Task)], NEW u \in Task
    PROVE  Settled(Restored(us, hold, lists)[u], us, hold, lists, u)
<1> DEFINE H == {r \in Sem : hold[r][u] > 0 /\ lists[r] # << >>}
           S == {BasePrio[u]} \cup {prio[lists[s][1]] : s \in H}
<1>0. Restored(us, hold, lists)[u] = IF u \in us /\ prio[u] # BasePrio[u] THEN Max(S) ELSE prio[u]
    BY DEF Restored
<1>1. BasePrio[u] \in 1 .. 255
    BY SemAssumption
<1>2. \A s \in H : prio[lists[s][1]] \in 1 .. 255
    <2> SUFFICES ASSUME NEW s \in H
                 PROVE  prio[lists[s][1]] \in 1 .. 255
        OBVIOUS
    <2>1. lists[s] \in Seq(Task) /\ lists[s] # << >>
        OBVIOUS
    <2>2. lists[s][1] \in Task
        BY <2>1
    <2> QED
        BY <2>2 DEF SemType
<1>3. S \in SUBSET (1 .. 255) /\ S # {}
    BY <1>1, <1>2
<1>4. (\A x \in S : x = BasePrio[u] \/ H # {}) /\ \A s \in H : prio[lists[s][1]] \in S
    OBVIOUS
<1> HIDE DEF S
<1>5. S \in SUBSET (0 .. 255) /\ 255 \in Nat
    BY <1>3
<1>6. Max(S) \in S /\ \A y \in S : y <= Max(S)
    BY <1>3, <1>5, GreatestNatural
<1>7. Max(S) = BasePrio[u] \/ H # {}
    BY <1>4, <1>6
<1>8. \A s \in H : Max(S) >= prio[lists[s][1]]
    BY <1>3, <1>4, <1>6
<1> QED
    BY <1>0, <1>7, <1>8 DEF Settled

\* A calm step of one task, that leaves the mutex words alone.
LEMMA CalmTask ==
    ASSUME CountLayer, CountLayer', OwnerLayer, CutKept, NEW t \in Task, Same(t), Err(t)',
           UNCHANGED <<prio, mholder, waitlist, alive>>,
           \A q \in Mutex : (Owns(t, q)' <=> Owns(t, q)) /\ \A u \in Task : holder'[q][u] = holder[q][u],
           \A q \in Pool : /\ Owns(t, q)' => Owns(t, q) \/ waitlist[q] = << >>
                           /\ waitlist[q] # << >> => \A u \in Task : holder'[q][u] = holder[q][u]
    PROVE  OwnerLayer'
<1>0. ErrInv /\ MutexInv /\ OrderInv
    BY DEF OwnerLayer
<1>1. \A u \in Task \ {t} : \A q : Owns(u, q)' <=> Owns(u, q)
    BY Others
<1>2. ErrInv'
    <2> SUFFICES ASSUME NEW u \in Task
                 PROVE  Err(u)'
        BY DEF ErrInv
    <2>1. CASE u = t
        BY <2>1
    <2>2. CASE u # t
        BY <1>0, <2>2 DEF ErrInv, Err, Same
    <2> QED
        BY <2>1, <2>2
<1>3. \A q \in Mutex : MutexOk(q)'
    BY <1>0, <1>1, MutexKept DEF MutexInv
<1>4. \A q \in Event : Descends(waitlist'[q], prio)
    BY <1>0, SemFacts DEF OrderInv
<1>5. \A q \in Inherit : \A u \in Task :
          /\ Owns(u, q)' => Owns(u, q) \/ waitlist[q] = << >>
          /\ waitlist[q] # << >> => holder'[q][u] = holder[q][u]
    BY <1>1 DEF Inherit
<1> QED
    BY <1>2, <1>3, <1>4, <1>5, CalmStep

\* t takes a mutex nobody owns.
LEMMA CalmTake ==
    ASSUME CountLayer, CountLayer', OwnerLayer, CutKept, NEW t \in Task, Same(t), Err(t)', t \in alive,
           NEW s \in Mutex, UNCHANGED <<prio, waitlist, alive, holder>>,
           mholder[s].tid \notin alive,
           mholder' = [mholder EXCEPT ![s] = [tid |-> t, blocking |-> waitlist[s] # << >>]],
           \A q \in Inherit : Owns(t, q)' <=> q = s, \A q \in Inherit : ~Owns(t, q)
    PROVE  OwnerLayer'
<1>0. ErrInv /\ MutexInv /\ OrderInv /\ SemType
    BY DEF OwnerLayer, CountLayer
<1>1. \A u \in Task \ {t} : \A q : Owns(u, q)' <=> Owns(u, q)
    BY Others
<1>2. ErrInv'
    <2> SUFFICES ASSUME NEW u \in Task
                 PROVE  Err(u)'
        BY DEF ErrInv
    <2>1. CASE u = t
        BY <2>1
    <2>2. CASE u # t
        BY <1>0, <2>2 DEF ErrInv, Err, Same
    <2> QED
        BY <2>1, <2>2
<1>3. s \in Inherit /\ Owns(t, s)' /\ \A q \in Mutex : q \in Inherit
    BY SemFacts
<1> DEFINE v == [tid |-> t, blocking |-> waitlist[s] # << >>]
<1>4. mholder'[s] = v /\ \A q \in Mutex \ {s} : mholder'[q] = mholder[q]
    <2>1. mholder' = [mholder EXCEPT ![s] = v] /\ mholder \in [Mutex -> Word]
        BY <1>0 DEF SemType
    <2> HIDE DEF v
    <2> QED
        BY <2>1
<1>5. waitlist[s] = << >> /\ MutexOk(s)'
    <2>1. MutexOk(s)
        BY <1>0 DEF MutexInv
    <2>2. mholder'[s] = [tid |-> t, blocking |-> waitlist[s] # << >>]
        BY <1>4
    <2>3. waitlist'[s] = waitlist[s] /\ \A u \in Task : holder'[s][u] = holder[s][u]
        OBVIOUS
    <2>4. \A u \in Task \ {t} : Owns(u, s)' <=> Owns(u, s)
        BY <1>1
    <2> QED
        BY <1>0, <1>3, <2>1, <2>2, <2>3, <2>4, MutexTaken
<1>6. \A q \in Mutex : MutexOk(q)'
    <2> SUFFICES ASSUME NEW q \in Mutex, q # s
                 PROVE  MutexOk(q)'
        BY <1>5
    <2>1. \A u \in Task : Owns(u, q)' <=> Owns(u, q)
        BY <1>1, <1>3
    <2> QED
        BY <1>0, <1>4, <2>1, MutexKept DEF MutexInv
<1>7. \A q \in Event : Descends(waitlist'[q], prio)
    BY <1>0, SemFacts DEF OrderInv
<1>8. \A q \in Inherit : \A u \in Task :
          /\ Owns(u, q)' => Owns(u, q) \/ waitlist[q] = << >>
          /\ waitlist[q] # << >> => holder'[q][u] = holder[q][u]
    BY <1>1, <1>5
<1> QED
    BY <1>2, <1>6, <1>7, <1>8, CalmStep

LEMMA WaitOwner ==
    ASSUME CountLayer, CountLayer', OwnerLayer, CutKept, NEW t \in Task, NEW s \in Sem,
           Wait(t, s) \/ TickWait(t, s)
    PROVE  OwnerLayer'
<1>0. SemType /\ ShapeInv /\ Shape(t) /\ CountInv /\ MutexInv
    BY DEF CountLayer, ShapeInv, OwnerLayer
<1>1. t \in alive /\ pc[t] = "run" /\ held[t] = Null /\ sem[t] = Null
    BY <1>0 DEF Wait, TickWait, CanWait, Shape
<1>2. \A q \in Sem : ~Owns(t, q)
    BY <1>0, <1>1, OwnsFacts
<1>3. CASE Take(t, s)
    <2>1. /\ Available(s) /\ Gets(t, s)
          /\ UNCHANGED <<waitlist, prio, errcode, waitdog, alive, irqlock, pc, sem>>
        BY <1>3 DEF Take, tcbVars
    <2>2. held'[t] = (IF s \in Inherit THEN s ELSE Null) /\ \A u \in Task \ {t} : held'[u] = held[u]
        BY <1>0, <2>1 DEF SemType, Gets
    <2>3. Same(t) /\ Err(t)'
        BY <1>1, <2>1, <2>2 DEF Same, Err
    <2>4. \A q \in Sem : Owns(t, q)' <=> (q = s /\ s \in Inherit)
        BY <1>1, <2>1, <2>2, SemFacts DEF Owns
    <2>5. CASE s \in Mutex
        <3>1. /\ mholder' = [mholder EXCEPT ![s] = [tid |-> t, blocking |-> FALSE]]
              /\ UNCHANGED holder /\ mholder[s] = Free
            BY <1>3, <2>1, <2>5, SemFacts DEF Take, Available
        <3>2. mholder[s].tid = Null /\ ~mholder[s].blocking
            BY <3>1 DEF Free
        <3>3. waitlist[s] = << >> /\ mholder[s].tid \notin alive
            BY <1>0, <2>5, <3>2, SemFacts DEF MutexInv, MutexOk, SemType
        <3>4. (waitlist[s] # << >>) = FALSE
            BY <3>3
        <3>5. mholder' = [mholder EXCEPT ![s] = [tid |-> t, blocking |-> waitlist[s] # << >>]]
            BY <3>1, <3>4, Zenon
        <3>6. (\A q \in Inherit : Owns(t, q)' <=> q = s) /\ \A q \in Inherit : ~Owns(t, q)
            BY <1>2, <2>4, <2>5, SemFacts
        <3>7. UNCHANGED <<prio, waitlist, alive, holder>>
            BY <2>1, <3>1
        <3> QED
            BY <1>1, <2>3, <2>5, <3>3, <3>5, <3>6, <3>7, CalmTake
    <2>6. CASE s \notin Mutex
        <3>1. s \in Counting /\ count[s] > 0 /\ mholder' = mholder /\ holder' = AddHolder(s, t)
            BY <1>3, <2>1, <2>6, SemFacts DEF Take, Available, AddHolder
        <3>2. waitlist[s] = << >>
            <4>1. count[s] \in Int /\ waitlist[s] \in Seq(Task)
                BY <1>0, <3>1 DEF SemType
            <4>2. Len(waitlist[s]) = 0
                BY <1>0, <3>1, <4>1 DEF CountInv
            <4> QED
                BY <4>1, <4>2
        <3>3. \A q \in Sem \ {s} : holder'[q] = holder[q]
            BY <1>0, <3>1, AddHolderFacts
        <3>4. \A q \in Mutex : /\ Owns(t, q)' <=> Owns(t, q)
                               /\ \A u \in Task : holder'[q][u] = holder[q][u]
            BY <1>2, <2>4, <2>6, <3>3, SemFacts
        <3>5. \A q \in Pool : /\ Owns(t, q)' => Owns(t, q) \/ waitlist[q] = << >>
                              /\ waitlist[q] # << >> => \A u \in Task : holder'[q][u] = holder[q][u]
            BY <2>4, <3>2, <3>3, SemFacts
        <3>6. UNCHANGED <<prio, mholder, waitlist, alive>>
            BY <2>1, <3>1
        <3> QED
            BY <2>3, <3>4, <3>5, <3>6, CalmTask
    <2> QED
        BY <2>5, <2>6
<1>4. CASE ~Take(t, s)
    <2>1. /\ UNCHANGED <<count, mholder, waitlist, holder, prio, errcode, alive, held>>
          /\ \/ UNCHANGED <<pc, sem, waitdog>>
             \/ /\ pc' = [pc EXCEPT ![t] = "wait"] /\ sem' = [sem EXCEPT ![t] = s]
                /\ waitdog' = waitdog \/ waitdog' = [waitdog EXCEPT ![t] = TRUE]
        BY <1>4 DEF Wait, TickWait, GoTo, tcbVars, semVars
    <2>2. pc'[t] \in {"run", "wait"}
        BY <1>0, <1>1, <2>1 DEF SemType
    <2>3. Same(t)
        BY <1>0, <2>1 DEF SemType, Same
    <2>4. Err(t)' /\ \A q \in Sem : Owns(t, q)' <=> Owns(t, q)
        BY <1>1, <2>1, <2>2 DEF Err, Owns
    <2>5. \A q \in Mutex \cup Pool : Owns(t, q)' <=> Owns(t, q)
        BY <2>4, SemFacts
    <2> QED
        BY <2>1, <2>3, <2>4, <2>5, CalmTask
<1> QED
    BY <1>3, <1>4

LEMMA SlowTakeOwner ==
    ASSUME CountLayer, CountLayer', OwnerLayer, CutKept, NEW t \in Task, SlowTake(t)
    PROVE  OwnerLayer'
<1>s. PICK s : s = sem[t]
    OBVIOUS
<1>0. SemType /\ ShapeInv /\ Shape(t) /\ CountInv /\ MutexInv
    BY DEF CountLayer, ShapeInv, OwnerLayer
<1>1. /\ t \in alive /\ pc[t] = "wait" /\ s \in Sem /\ held[t] = Null
      /\ Gets(t, s) /\ waitdog' = [waitdog EXCEPT ![t] = FALSE]
      /\ GoTo(t, "run", Null) /\ UNCHANGED <<waitlist, prio, errcode, alive>>
    BY <1>0, <1>s DEF SlowTake, Shape
<1>2. \A q \in Sem : ~Owns(t, q)
    BY <1>0, <1>1, OwnsFacts
<1>3. pc'[t] = "run" /\ sem'[t] = Null /\ held'[t] = IF s \in Inherit THEN s ELSE Null
    BY <1>0, <1>1 DEF SemType, Gets, GoTo
<1>4. Same(t) /\ Err(t)'
    BY <1>0, <1>1, <1>3 DEF Same, Err, SemType, Gets, GoTo
<1>5. \A q \in Sem : Owns(t, q)' <=> (q = s /\ s \in Inherit)
    BY <1>1, <1>3, SemFacts DEF Owns
<1>6. CASE s \in Mutex
    <2>1. mholder[s].tid \notin alive /\ TakeMutex(t, s) /\ UNCHANGED holder
        BY <1>6, <1>s DEF SlowTake
    <2>2. mholder' = [mholder EXCEPT ![s] = [tid |-> t, blocking |-> waitlist[s] # << >>]]
        BY <2>1 DEF TakeMutex
    <2>3. (\A q \in Inherit : Owns(t, q)' <=> q = s) /\ \A q \in Inherit : ~Owns(t, q)
        BY <1>2, <1>5, <1>6, SemFacts
    <2>4. UNCHANGED <<prio, waitlist, alive, holder>>
        BY <1>1, <2>1
    <2> QED
        BY <1>1, <1>4, <1>6, <2>1, <2>2, <2>3, <2>4, CalmTake
<1>7. CASE s \notin Mutex
    <2>1. s \in Counting /\ count[s] > 0 /\ mholder' = mholder /\ holder' = AddHolder(s, t)
        BY <1>1, <1>7, <1>s, SemFacts DEF SlowTake
    <2>2. waitlist[s] = << >>
        <3>1. count[s] \in Int /\ waitlist[s] \in Seq(Task)
            BY <1>0, <1>1, <2>1 DEF SemType
        <3>2. Len(waitlist[s]) = 0
            BY <1>0, <2>1, <3>1 DEF CountInv
        <3> QED
            BY <3>1, <3>2
    <2>3. \A q \in Sem \ {s} : holder'[q] = holder[q]
        BY <1>0, <1>1, <2>1, AddHolderFacts
    <2>4. \A q \in Mutex : /\ Owns(t, q)' <=> Owns(t, q)
                           /\ \A u \in Task : holder'[q][u] = holder[q][u]
        BY <1>2, <1>5, <1>7, <2>3, SemFacts
    <2>5. \A q \in Pool : /\ Owns(t, q)' => Owns(t, q) \/ waitlist[q] = << >>
                          /\ waitlist[q] # << >> => \A u \in Task : holder'[q][u] = holder[q][u]
        BY <1>5, <2>2, <2>3, SemFacts
    <2>6. UNCHANGED <<prio, mholder, waitlist, alive>>
        BY <1>1, <2>1
    <2> QED
        BY <1>4, <2>4, <2>5, <2>6, CalmTask
<1> QED
    BY <1>6, <1>7

LEMMA ResumeOwner ==
    ASSUME CountLayer, CountLayer', OwnerLayer, CutKept, NEW t \in Task, Resume(t)
    PROVE  OwnerLayer'
<1>s. PICK s : s = sem[t]
    OBVIOUS
<1>0. SemType /\ ShapeInv /\ Shape(t) /\ MutexInv /\ Err(t)
    BY DEF CountLayer, ShapeInv, OwnerLayer, ErrInv
<1>1. /\ t \in alive /\ pc[t] = "resumed" /\ s \in Sem /\ held[t] = Null /\ s = sem[t]
      /\ IF errcode[t] = "OK" THEN Gets(t, s) ELSE UNCHANGED held
      /\ waitdog' = [waitdog EXCEPT ![t] = FALSE]
      /\ GoTo(t, "run", Null) /\ UNCHANGED <<count, waitlist, holder, prio, errcode, alive>>
    BY <1>0, <1>s DEF Resume, Shape
<1>2. /\ pc'[t] = "run" /\ sem'[t] = Null
      /\ held'[t] = IF errcode[t] = "OK" /\ s \in Inherit THEN s ELSE Null
    BY <1>0, <1>1 DEF SemType, Gets, GoTo
<1>3. Same(t) /\ Err(t)'
    BY <1>0, <1>1, <1>2 DEF Same, Err, SemType, Gets, GoTo
<1>4. \A q \in Inherit : Owns(t, q)' <=> Owns(t, q)
    BY <1>1, <1>2, SemFacts DEF Owns
<1>5. mholder' = mholder
    <2>1. CASE errcode[t] = "OK" /\ s \in Mutex
        <3>1. TakeMutex(t, s)
            BY <1>s, <2>1 DEF Resume
        <3>2. mholder[s] \in Word /\ Owns(t, s)
            BY <1>0, <1>1, <2>1 DEF SemType, Owns
        <3>3. mholder[s].tid = t /\ (mholder[s].blocking <=> waitlist[s] # << >>)
            BY <1>0, <2>1, <3>2 DEF MutexInv, MutexOk
        <3>4. mholder[s].blocking = (waitlist[s] # << >>)
            BY <3>2, <3>3, WordFacts
        <3>5. mholder[s] = [tid |-> mholder[s].tid, blocking |-> mholder[s].blocking]
            BY <3>2 DEF Word
        <3>6. mholder[s] = [tid |-> t, blocking |-> waitlist[s] # << >>]
            BY <3>3, <3>4, <3>5, Zenon
        <3>7. mholder' = [mholder EXCEPT ![s] = mholder[s]]
            BY <3>1, <3>6, Zenon DEF TakeMutex
        <3>8. mholder \in [Mutex -> Word]
            BY <1>0 DEF SemType
        <3> QED
            BY <3>7, <3>8
    <2>2. CASE ~(errcode[t] = "OK" /\ s \in Mutex)
        BY <1>s, <2>2 DEF Resume
    <2> QED
        BY <2>1, <2>2
<1>6. \A q \in Mutex \cup Pool : Owns(t, q)' <=> Owns(t, q)
    BY <1>4, SemFacts
<1> QED
    BY <1>1, <1>3, <1>5, <1>6, CalmTask

\* t gives up a mutex nobody waits for.
LEMMA CalmPut ==
    ASSUME CountLayer, CountLayer', OwnerLayer, CutKept, NEW t \in Task, Same(t), Err(t)',
           NEW s \in Mutex, UNCHANGED <<prio, waitlist, alive>>, waitlist[s] = << >>, Owns(t, s),
           mholder' = [mholder EXCEPT ![s] = Free], \A q \in Inherit : ~Owns(t, q)',
           \A q \in Sem \ {s} : holder'[q] = holder[q],
           \A u \in Task : holder'[s][u] \in {0, holder[s][u]}
    PROVE  OwnerLayer'
<1>0. ErrInv /\ MutexInv /\ OrderInv /\ SemType /\ ShapeInv
    BY DEF OwnerLayer, CountLayer
<1>1. \A u \in Task \ {t} : \A q : Owns(u, q)' <=> Owns(u, q)
    BY Others
<1>2. ErrInv'
    <2> SUFFICES ASSUME NEW u \in Task
                 PROVE  Err(u)'
        BY DEF ErrInv
    <2>1. CASE u = t
        BY <2>1
    <2>2. CASE u # t
        BY <1>0, <2>2 DEF ErrInv, Err, Same
    <2> QED
        BY <2>1, <2>2
<1>3. MutexOk(s)'
    <2>1. mholder'[s] = Free
        BY <1>0 DEF SemType
    <2>2. mholder'[s].tid = Null /\ ~mholder'[s].blocking
        BY <2>1 DEF Free
    <2>3. MutexOk(s)
        BY <1>0 DEF MutexInv
    <2>4. \A u \in Task : ~Owns(u, s)'
        <3> SUFFICES ASSUME NEW u \in Task, u # t
                     PROVE  ~Owns(u, s)'
            BY SemFacts
        <3>1. ~Owns(u, s)
            BY <2>3 DEF MutexOk
        <3> QED
            BY <1>1, <3>1
    <2>5. \A u \in Task : ~(holder'[s][u] > 0)
        BY <2>3 DEF MutexOk
    <2>6. Null \notin Task
        BY SemFacts
    <2> QED
        BY <2>2, <2>4, <2>5, <2>6 DEF MutexOk
<1>4. \A q \in Mutex : MutexOk(q)'
    <2> SUFFICES ASSUME NEW q \in Mutex, q # s
                 PROVE  MutexOk(q)'
        BY <1>3
    <2>1. q \in Sem /\ q \in Inherit /\ s \in Sem
        BY SemFacts
    <2>2. ~Owns(t, q) /\ ~Owns(t, q)'
        BY <1>0, <2>1, OwnsFacts
    <2>3. mholder'[q] = mholder[q] /\ \A u \in Task : holder'[q][u] = holder[q][u]
        BY <1>0, <2>1 DEF SemType
    <2>4. \A u \in Task : Owns(u, q)' <=> Owns(u, q)
        BY <1>1, <2>2
    <2>5. MutexOk(q)
        BY <1>0 DEF MutexInv
    <2> QED
        BY <2>3, <2>4, <2>5, MutexKept
<1>5. \A q \in Event : Descends(waitlist'[q], prio)
    BY <1>0, SemFacts DEF OrderInv
<1>6. \A q \in Inherit : \A u \in Task :
          /\ Owns(u, q)' => Owns(u, q) \/ waitlist[q] = << >>
          /\ waitlist[q] # << >> => holder'[q][u] = holder[q][u]
    BY <1>1, SemFacts
<1> QED
    BY <1>2, <1>4, <1>5, <1>6, CalmStep

\* A step on the wait list of an event.
LEMMA EventStep ==
    ASSUME CountLayer, CountLayer', OwnerLayer, CutKept, UNCHANGED <<prio, mholder, holder, alive>>,
           NEW s \in Event, NEW d, waitlist' = [waitlist EXCEPT ![s] = d], Descends(d, prio),
           ErrInv', \A q \in Inherit : \A u \in Task : Owns(u, q)' <=> Owns(u, q)
    PROVE  OwnerLayer'
<1>0. MutexInv /\ OrderInv /\ SemType
    BY DEF OwnerLayer, CountLayer
<1>1. waitlist'[s] = d /\ \A q \in Sem \ {s} : waitlist'[q] = waitlist[q]
    BY <1>0, SemFacts DEF SemType
<1>2. \A q \in Inherit : waitlist'[q] = waitlist[q]
    BY <1>1, SemFacts
<1>3. \A q \in Event : Descends(waitlist'[q], prio)
    BY <1>0, <1>1, SemFacts DEF OrderInv
<1>4. \A q \in Mutex : MutexOk(q)'
    BY <1>0, <1>2, SemFacts, MutexKept DEF MutexInv
<1> QED
    BY <1>2, <1>3, <1>4, CalmStep

LEMMA PostOwner ==
    ASSUME CountLayer, CountLayer', OwnerLayer, CutKept, NEW t \in Task, NEW s \in Sem, Post(t, s)
    PROVE  OwnerLayer'
<1>0. SemType /\ ShapeInv /\ Shape(t) /\ MutexInv
    BY DEF CountLayer, ShapeInv, OwnerLayer
<1>1. /\ t \in alive /\ pc[t] = "run" /\ sem[t] = Null
      /\ held[t] = IF s \in Event THEN Null ELSE s
      /\ UNCHANGED <<prio, errcode, waitdog, alive, irqlock>>
    BY <1>0 DEF Post, MayPost, Shape, tcbVars
<1>2. \A q \in Sem : Owns(t, q) <=> (q = s /\ s \in Inherit)
    BY <1>0, <1>1, OwnsFacts, SemFacts
<1>3. CASE /\ HasFastPath(s) /\ ~Blocking(s) /\ Released(s)
           /\ held' = [held EXCEPT ![t] = Null] /\ UNCHANGED <<waitlist, holder, pc, sem>>
    <2>1. held'[t] = Null /\ Same(t) /\ Err(t)'
        BY <1>0, <1>1, <1>3 DEF Same, Err, SemType
    <2>2. \A q \in Sem : ~Owns(t, q)'
        BY <1>1, <1>3, <2>1, SemFacts DEF Owns
    <2>3. CASE s \in Mutex
        <3>1. mholder' = [mholder EXCEPT ![s] = Free] /\ ~mholder[s].blocking
            BY <1>3, <2>3 DEF Released, Blocking
        <3>2. waitlist[s] = << >>
            BY <1>0, <2>3, <3>1 DEF MutexInv, MutexOk
        <3>3. Owns(t, s) /\ \A q \in Inherit : ~Owns(t, q)'
            BY <1>2, <2>2, <2>3, SemFacts
        <3>4. UNCHANGED <<prio, waitlist, alive>> /\ holder' = holder
            BY <1>1, <1>3
        <3> QED
            BY <2>1, <2>3, <3>1, <3>2, <3>3, <3>4, CalmPut
    <2>4. CASE s \notin Mutex
        <3>1. s \in Event /\ mholder' = mholder
            BY <1>3, <2>4, SemFacts DEF Released, HasFastPath, Inherit
        <3>2. \A q \in Mutex \cup Pool : Owns(t, q)' <=> Owns(t, q)
            BY <1>2, <2>2, <3>1, SemFacts
        <3> QED
            BY <1>1, <1>3, <2>1, <3>1, <3>2, CalmTask
    <2> QED
        BY <2>3, <2>4
<1>4. CASE GoTo(t, "post", s) /\ UNCHANGED <<semVars, held>>
    <2>1. /\ pc' = [pc EXCEPT ![t] = "post"] /\ sem' = [sem EXCEPT ![t] = s]
          /\ UNCHANGED <<mholder, waitlist, holder, held>>
        BY <1>4 DEF GoTo, semVars
    <2>2. pc'[t] = "post" /\ Same(t)
        BY <1>0, <1>1, <2>1 DEF Same, SemType
    <2>3. Err(t)' /\ \A q : Owns(t, q)' <=> Owns(t, q)
        BY <1>1, <2>1, <2>2 DEF Err, Owns
    <2> QED
        BY <1>1, <2>1, <2>2, <2>3, CalmTask
<1> QED
    BY <1>3, <1>4 DEF Post

\* A timeout or a signal ends a wait for an event or a pool: an owner keeps what
\* the waiter gave it, and is remembered.
LEMMA WaitIrqOwner ==
    ASSUME CountLayer, CountLayer', OwnerLayer, CutKept, NEW t \in Task, NEW s \in Sem, s \notin Mutex,
           NEW err, err # "OK", Waits(t, s), WaitIrq(t, err), UNCHANGED <<alive, held>>,
           s \in Inherit => CutOwners(s)
    PROVE  OwnerLayer'
<1>0. /\ SemType /\ ShapeInv /\ Shape(t) /\ ErrInv /\ MutexInv /\ PrioInv /\ OrderInv /\ HolderBoosted
      /\ ListInv /\ ListInv' /\ EntryInv /\ SemType'
    BY DEF CountLayer, ShapeInv, OwnerLayer
<1>1. /\ CancelWait(t, s, waitlist) /\ errcode' = [errcode EXCEPT ![t] = err]
      /\ pc' = [pc EXCEPT ![t] = "resumed"] /\ UNCHANGED <<mholder, sem>>
    BY WaitIrqFacts
<1>2. /\ prio' = Restored(Holders(s, holder), holder, waitlist)
      /\ holder' = holder
      /\ waitlist' = [waitlist EXCEPT ![s] = RemoveFirst(waitlist[s], t)]
    BY <1>1 DEF CancelWait, Canceled, Freed
<1>3. \A u \in Task : Settled(prio'[u], Holders(s, holder), holder, waitlist, u)
    <2>1. waitlist \in [Sem -> Seq(Task)]
        BY <1>0 DEF SemType
    <2> QED
        BY <1>0, <1>2, <2>1, RestoredFacts
<1>4. /\ waitlist[s] \in Seq(Task) /\ OnceEach(waitlist[s]) /\ Occurs(t, waitlist[s])
      /\ Descends(waitlist[s], prio)
    BY <1>0 DEF ListInv, SemType, OrderInv
<1>5. /\ \A u \in Task : Occurs(u, RemoveFirst(waitlist[s], t)) => Occurs(u, waitlist[s])
      /\ Descends(RemoveFirst(waitlist[s], t), prio)
    BY <1>4, RemoveFirstMembers
<1>6. /\ waitlist'[s] = RemoveFirst(waitlist[s], t)
      /\ \A q \in Sem \ {s} : waitlist'[q] = waitlist[q]
    BY <1>0, <1>2 DEF SemType
<1>7. \A q \in Sem : \A u \in Task : Occurs(u, waitlist'[q]) => Waits(u, q)
    BY <1>0, <1>5, <1>6 DEF ListInv
<1>8. \A q \in Sem : \A u \in Task : Waits(u, q) => prio'[u] = prio[u]
    BY <1>0, <1>3, WaiterFrozen DEF Settled
<1>9. OrderInv'
    <2>1. waitlist' \in [Sem -> Seq(Task)]
        BY <1>0 DEF SemType
    <2>2. \A q \in Sem : Descends(waitlist'[q], prio)
        BY <1>0, <1>5, <1>6 DEF OrderInv
    <2> QED
        BY <1>7, <1>8, <2>1, <2>2, OrderKept
<1>10. /\ pc[t] = "blocked" /\ sem[t] = s /\ held[t] = Null
       /\ pc'[t] = "resumed" /\ sem'[t] = s /\ held'[t] = Null /\ errcode'[t] # "OK"
       /\ \A u \in Task \ {t} : pc'[u] = pc[u] /\ errcode'[u] = errcode[u]
    BY <1>0, <1>1 DEF SemType, Shape, Waits
<1>11. \A u \in Task : \A q \in Sem : Owns(u, q)' <=> Owns(u, q)
    BY <1>1, <1>10, SemFacts DEF Owns
<1>12. ErrInv'
    <2> SUFFICES ASSUME NEW u \in Task
                 PROVE  Err(u)'
        BY DEF ErrInv
    <2> QED
        BY <1>0, <1>1, <1>10 DEF ErrInv, Err
<1>13. MutexInv'
    <2> SUFFICES ASSUME NEW q \in Mutex
                 PROVE  MutexOk(q)'
        BY DEF MutexInv
    <2>1. q \in Sem \ {s} /\ MutexOk(q)
        BY <1>0, SemFacts DEF MutexInv
    <2> QED
        BY <1>1, <1>2, <1>6, <1>11, <2>1, MutexKept
<1>14. PrioInv'
    <2> SUFFICES ASSUME NEW u \in Task, prio'[u] # BasePrio[u], u \notin cut'
                 PROVE  Boost(u)'
        BY DEF PrioInv
    <2>1. u \notin cut /\ (s \in Inherit => ~Owns(u, s))
        BY DEF CutKept, CutOwners
    <2>2. u \notin Holders(s, holder)
        BY <1>0, <2>1, OneEntry
    <2>3. prio[u] # BasePrio[u]
        BY <1>3, <2>2 DEF Settled
    <2>4. PICK q \in Inherit : holder[q][u] > 0 /\ waitlist[q] # << >>
        BY <1>0, <2>1, <2>3 DEF PrioInv, Boost
    <2>5. q \in Sem \ {s}
        BY <2>2, <2>4, SemFacts DEF Holders
    <2> QED
        BY <1>2, <1>6, <2>4, <2>5 DEF Boost
<1>15. HolderBoosted'
    <2> SUFFICES ASSUME NEW q \in Inherit, NEW u \in Task, NEW v \in Task, Owns(u, q)', Waits(v, q)'
                 PROVE  prio'[u] >= prio'[v]
        BY DEF HolderBoosted
    <2>0. q \in Sem
        BY SemFacts
    <2>1. Owns(u, q) /\ Waits(v, q)
        BY <1>0, <1>7, <1>11, <2>0 DEF ListInv
    <2>2. prio[u] >= prio[v] /\ prio'[v] = prio[v]
        BY <1>0, <1>8, <2>0, <2>1 DEF HolderBoosted
    <2>3. CASE prio'[u] = prio[u]
        BY <2>2, <2>3
    <2>4. CASE prio'[u] # prio[u]
        <3>1. u \in Holders(s, holder)
            BY <1>3, <2>4 DEF Settled
        <3>2. q = s /\ holder[s][u] > 0
            BY <1>0, <2>0, <2>1, <3>1, OneEntry DEF Holders
        <3>3. Occurs(v, waitlist[s])
            BY <1>0, <2>1, <3>2 DEF ListInv
        <3>4. prio \in [Task -> Nat] /\ prio'[u] \in Nat
            <4>1. prio'[u] \in 1 .. 255
                BY <1>0 DEF SemType
            <4> QED
                BY <1>0, <4>1, PrioType, ByteNat
        <3>5. /\ waitlist[s] # << >> /\ waitlist[s][1] \in Task
              /\ prio[waitlist[s][1]] >= prio[v]
            BY <1>4, <3>3, <3>4, HeadUrgent
        <3>6. prio'[u] >= prio[waitlist[s][1]]
            BY <1>3, <2>4, <3>2, <3>5 DEF Settled
        <3>7. prio'[u] \in Nat /\ prio[v] \in Nat /\ prio[waitlist[s][1]] \in Nat
            BY <3>4, <3>5
        <3> QED
            BY <2>2, <3>5, <3>6, <3>7
    <2> QED
        BY <2>3, <2>4
<1> QED
    BY <1>9, <1>12, <1>13, <1>14, <1>15 DEF OwnerLayer

\* The two steps that cut a wait short.
LEMMA CutOwner ==
    ASSUME CountLayer, CountLayer', OwnerLayer, CutKept, NEW t \in Task, pc[t] = "blocked",
           sem[t] \in Sem, sem[t] \notin Mutex, NEW err \in {"EINTR", "ETIMEDOUT"}, WaitIrq(t, err),
           UNCHANGED <<alive, held>>, \A s \in Inherit : CutShort(t, s) => CutOwners(s)
    PROVE  OwnerLayer'
<1>s. PICK s \in Sem : s = sem[t]
    OBVIOUS
<1>0. SemType /\ ShapeInv
    BY DEF CountLayer
<1>1. Waits(t, s) /\ s \notin Mutex /\ err # "OK"
    BY <1>s DEF Waits
<1>2. pc'[t] = "resumed" /\ errcode'[t] # "OK"
    BY <1>0 DEF WaitIrq, SemType
<1>3. s \in Inherit => CutOwners(s)
    BY <1>1, <1>2 DEF CutShort
<1> QED
    BY <1>1, <1>3, WaitIrqOwner

LEMMA ExpireOwner ==
    ASSUME Timed \cap Mutex = {}, CountLayer, CountLayer', OwnerLayer, CutKept, NEW t \in Task, Expire(t),
           \A s \in Inherit : CutShort(t, s) => CutOwners(s)
    PROVE  OwnerLayer'
<1>0. SemType /\ ShapeInv /\ Shape(t)
    BY DEF CountLayer, ShapeInv
<1>1. waitdog[t] /\ waitdog' = [waitdog EXCEPT ![t] = FALSE] /\ UNCHANGED <<alive, held>>
    BY DEF Expire
<1>2. CASE pc[t] = "blocked"
    <2>1. WaitIrq(t, "ETIMEDOUT") /\ sem[t] \in Timed /\ sem[t] \in Sem
        BY <1>0, <1>1, <1>2 DEF Expire, Shape
    <2> QED
        BY <1>1, <1>2, <2>1, CutOwner
<1>3. CASE pc[t] # "blocked"
    <2>1. UNCHANGED <<count, mholder, waitlist, holder, prio, errcode, pc, sem>>
        BY <1>3 DEF Expire, semVars
    <2>2. Same(t)
        BY <1>0, <1>1, <2>1 DEF Same, SemType
    <2>3. Err(t)' /\ \A q : Owns(t, q)' <=> Owns(t, q)
        BY <1>1, <2>1 DEF Err, Owns, OwnerLayer, ErrInv
    <2> QED
        BY <1>1, <2>1, <2>2, <2>3, CalmTask
<1> QED
    BY <1>2, <1>3

\* The word of a mutex when t is deleted.
LEMMA MutexDeleted ==
    ASSUME NEW q \in Mutex, NEW t \in Task, MutexOk(q), SemType, alive' = alive \ {t}, ~Owns(t, q)',
           Owns(t, q) => waitlist[q] = << >>, \A u \in Task \ {t} : Owns(u, q)' <=> Owns(u, q),
           mholder'[q].tid = mholder[q].tid, mholder'[q].blocking <=> waitlist'[q] # << >>,
           waitlist'[q] # << >> => waitlist[q] # << >>,
           \A u \in Task : holder'[q][u] > 0 =>
               u # t /\ holder[q][u] > 0 /\ (waitlist[q] # << >> => waitlist'[q] # << >>)
    PROVE  MutexOk(q)'
<1>1. \A u \in Task : Owns(u, q)' <=> (u \in alive' /\ mholder'[q].tid = u)
    BY DEF MutexOk
<1>2. waitlist'[q] # << >> => mholder'[q].tid \in alive'
    <2> SUFFICES ASSUME waitlist'[q] # << >>
                 PROVE  mholder[q].tid \in alive'
        OBVIOUS
    <2>1. mholder[q].tid \in alive /\ ~Owns(t, q)
        BY DEF MutexOk
    <2>2. mholder[q].tid # t
        BY <2>1 DEF MutexOk
    <2> QED
        BY <2>1, <2>2
<1>3. ASSUME NEW u \in Task, holder'[q][u] > 0
      PROVE  Owns(u, q)' /\ waitlist'[q] # << >>
    BY <1>3 DEF MutexOk
<1> QED
    BY <1>1, <1>2, <1>3 DEF MutexOk

\* A waiter is deleted that waits alone: the owners get their base priority back.
LEMMA DeleteWaiterOwner ==
    ASSUME CarefulDelete, CountLayer, CountLayer', OwnerLayer, CutKept, NEW t \in Task, NEW s \in Sem,
           Waits(t, s), Delete(t), ErrInv', alive' = alive \ {t}, \A q : ~Owns(t, q)',
           \A u \in Task \ {t} : \A q : Owns(u, q)' <=> Owns(u, q)
    PROVE  OwnerLayer'
<1>0. /\ SemType /\ ShapeInv /\ MutexInv /\ PrioInv /\ OrderInv /\ HolderBoosted
      /\ ListInv /\ ListInv' /\ EntryInv /\ SemType'
    BY DEF CountLayer, OwnerLayer
<1>1. /\ CancelWait(t, s, [waitlist EXCEPT ![s] = << >>])
      /\ waitlist' = [waitlist EXCEPT ![s] = << >>]
      /\ mholder' = IF s \in Mutex THEN [mholder EXCEPT ![s].blocking = FALSE] ELSE mholder
    BY TerminateFacts
<1>2. /\ prio' = Restored(Holders(s, holder), holder', waitlist')
      /\ holder' = IF s \in Mutex THEN [holder EXCEPT ![s] = [u \in Task |-> 0]] ELSE holder
    <2>1. /\ prio' = Restored(Holders(s, holder), Freed(s, holder), [waitlist EXCEPT ![s] = << >>])
          /\ holder' = Freed(s, holder)
        BY <1>1 DEF CancelWait, Canceled
    <2> QED
        BY <1>1, <2>1 DEF Freed
<1>3. \A u \in Task : Settled(prio'[u], Holders(s, holder), holder', waitlist', u)
    <2>1. PICK h, l : h = holder' /\ l = waitlist' /\ l \in [Sem -> Seq(Task)]
        BY <1>0 DEF SemType
    <2>2. prio' = Restored(Holders(s, holder), h, l)
        BY <1>2, <2>1
    <2>3. \A u \in Task : Settled(Restored(Holders(s, holder), h, l)[u], Holders(s, holder), h, l, u)
        BY <1>0, <2>1, RestoredFacts
    <2> QED
        BY <2>1, <2>2, <2>3
<1>4. /\ waitlist'[s] = << >> /\ \A q \in Sem \ {s} : waitlist'[q] = waitlist[q]
      /\ \A q \in Sem \ {s} : holder'[q] = holder[q]
    BY <1>0, <1>1, <1>2 DEF SemType
<1>5. \A q \in Sem : \A u \in Task : Occurs(u, waitlist'[q]) => q # s /\ Waits(u, q)
    BY <1>0, <1>4 DEF ListInv, Occurs
<1>6. \A q \in Sem : \A u \in Task : Waits(u, q) => prio'[u] = prio[u]
    BY <1>0, <1>3, WaiterFrozen DEF Settled
<1>7. OrderInv'
    <2>1. waitlist' \in [Sem -> Seq(Task)]
        BY <1>0 DEF SemType
    <2>2. \A q \in Sem : Descends(waitlist'[q], prio)
        BY <1>0, <1>4 DEF OrderInv, Descends
    <2> QED
        BY <1>5, <1>6, <2>1, <2>2, OrderKept
<1>8. \A q \in Sem : ~Owns(t, q)
    BY <1>0, OwnsFacts DEF Waits
<1>9. MutexInv'
    <2> SUFFICES ASSUME NEW q \in Mutex
                 PROVE  MutexOk(q)'
        BY DEF MutexInv
    <2>0. q \in Sem /\ MutexOk(q) /\ ~Owns(t, q) /\ mholder[q] \in Word
        BY <1>0, <1>8, SemFacts DEF MutexInv, SemType
    <2>1. CASE q # s
        <3>1. mholder'[q] = mholder[q] /\ waitlist'[q] = waitlist[q] /\ holder'[q] = holder[q]
            BY <1>0, <1>1, <1>4, <2>0, <2>1 DEF SemType
        <3>2. \A u \in Task : holder'[q][u] > 0 => u # t /\ holder[q][u] > 0
            BY <2>0, <3>1 DEF MutexOk
        <3>3. mholder'[q].blocking <=> waitlist'[q] # << >>
            BY <2>0, <3>1 DEF MutexOk
        <3> QED
            BY <1>0, <2>0, <3>1, <3>2, <3>3, MutexDeleted
    <2>2. CASE q = s
        <3>1. /\ mholder' = [mholder EXCEPT ![q].blocking = FALSE] /\ mholder \in [Mutex -> Word]
              /\ holder' = [holder EXCEPT ![q] = [u \in Task |-> 0]] /\ holder \in [Sem -> [Task -> Nat]]
            BY <1>0, <1>1, <1>2, <2>2 DEF SemType
        <3>2. mholder'[q] = [mholder[q] EXCEPT !.blocking = FALSE]
            BY <3>1
        <3>3. mholder'[q].tid = mholder[q].tid /\ ~mholder'[q].blocking
            BY <2>0, <3>2 DEF Word
        <3>4. \A u \in Task : ~(holder'[q][u] > 0)
            BY <2>0, <3>1
        <3>5. waitlist'[q] = << >>
            BY <1>4, <2>2
        <3> QED
            BY <1>0, <2>0, <3>3, <3>4, <3>5, MutexDeleted
    <2> QED
        BY <2>1, <2>2
<1>10. PrioInv'
    <2> SUFFICES ASSUME NEW u \in Task, prio'[u] # BasePrio[u], u \notin cut'
                 PROVE  Boost(u)'
        BY DEF PrioInv
    <2>1. u \notin Holders(s, holder)
        <3> SUFFICES ASSUME u \in Holders(s, holder)
                     PROVE  FALSE
            OBVIOUS
        <3>1. PICK r \in Sem : holder'[r][u] > 0 /\ waitlist'[r] # << >>
            BY <1>3 DEF Settled
        <3>2. r # s /\ holder[r][u] > 0
            BY <1>4, <3>1
        <3> QED
            BY <1>0, <3>2, OneEntry
    <2>2. u \notin cut /\ prio[u] # BasePrio[u]
        BY <1>3, <2>1 DEF Settled, CutKept
    <2>3. PICK q \in Inherit : holder[q][u] > 0 /\ waitlist[q] # << >>
        BY <1>0, <2>2 DEF PrioInv, Boost
    <2>4. q \in Sem \ {s}
        BY <2>1, <2>3, SemFacts DEF Holders
    <2> QED
        BY <1>4, <2>3, <2>4 DEF Boost
<1>11. HolderBoosted'
    <2> SUFFICES ASSUME NEW q \in Inherit, NEW u \in Task, NEW v \in Task, Owns(u, q)', Waits(v, q)'
                 PROVE  prio'[u] >= prio'[v]
        BY DEF HolderBoosted
    <2>0. q \in Sem
        BY SemFacts
    <2>1. q # s /\ Waits(v, q)
        BY <1>0, <1>5, <2>0 DEF ListInv
    <2>2. Owns(u, q)
        OBVIOUS
    <2>3. prio[u] >= prio[v] /\ prio'[v] = prio[v]
        BY <1>0, <1>6, <2>0, <2>1, <2>2 DEF HolderBoosted
    <2>4. u \notin Holders(s, holder)
        BY <1>0, <2>0, <2>1, <2>2, OneEntry
    <2>5. prio'[u] = prio[u]
        BY <1>3, <2>4 DEF Settled
    <2> QED
        BY <2>3, <2>5
<1> QED
    BY <1>7, <1>9, <1>10, <1>11 DEF OwnerLayer

LEMMA DeleteOwner ==
    ASSUME CarefulDelete, CountLayer, CountLayer', OwnerLayer, CutKept, NEW t \in Task, Delete(t)
    PROVE  OwnerLayer'
<1>0. SemType /\ ShapeInv /\ Shape(t) /\ ErrInv /\ MutexInv /\ OrderInv
    BY DEF CountLayer, ShapeInv, OwnerLayer
<1>1. /\ t \in alive /\ \A q \in Sem : Owns(t, q) => waitlist[q] = << >>
      /\ Recover(t, Unlisted(t)) /\ waitdog' = [waitdog EXCEPT ![t] = FALSE] /\ alive' = alive \ {t}
      /\ pc' = [pc EXCEPT ![t] = "run"] /\ sem' = [sem EXCEPT ![t] = Null]
      /\ held' = [held EXCEPT ![t] = Null] /\ UNCHANGED errcode
    BY OwnedUnwaited DEF Delete, Terminate
<1>2. pc'[t] = "run" /\ held'[t] = Null /\ t \notin alive' /\ Same(t)
    BY <1>0, <1>1 DEF SemType, Same
<1>3. (\A q : ~Owns(t, q)') /\ \A u \in Task \ {t} : \A q : Owns(u, q)' <=> Owns(u, q)
    BY <1>2, Others DEF Owns
<1>4. ErrInv'
    <2> SUFFICES ASSUME NEW u \in Task
                 PROVE  Err(u)'
        BY DEF ErrInv
    <2> QED
        BY <1>0, <1>2 DEF ErrInv, Err, Same
<1>5. CASE pc[t] = "blocked"
    <2>s. PICK s \in Sem : s = sem[t]
        BY <1>0, <1>5 DEF Shape
    <2>1. Waits(t, s)
        BY <1>5, <2>s DEF Waits
    <2> QED
        BY <1>1, <1>3, <1>4, <2>1, DeleteWaiterOwner
<1>6. CASE pc[t] # "blocked"
    <2>1. /\ holder' = [q \in Sem |-> [holder[q] EXCEPT ![t] = 0]]
          /\ UNCHANGED <<mholder, waitlist, prio>>
        BY <1>1, <1>6 DEF Recover, ReleaseAll
    <2>2. \A q \in Inherit : \A u \in Task : holder'[q][u] = IF u = t THEN 0 ELSE holder[q][u]
        BY <1>0, <2>1, SemFacts DEF SemType
    <2>3. \A q \in Event : Descends(waitlist'[q], prio)
        BY <1>0, <2>1, SemFacts DEF OrderInv
    <2>4. \A q \in Inherit : \A u \in Task :
              /\ Owns(u, q)' => Owns(u, q) \/ waitlist[q] = << >>
              /\ waitlist[q] # << >> => holder'[q][u] = holder[q][u]
        <3> SUFFICES ASSUME NEW q \in Inherit, waitlist[q] # << >>
                     PROVE  holder[q][t] = 0
            BY <1>3, <2>2
        <3>1. q \in Sem /\ ~Owns(t, q)
            BY <1>1, SemFacts
        <3>2. ~(holder[q][t] > 0)
            BY <1>0, <3>1, EntryOwns
        <3>3. holder[q][t] \in Nat
            BY <1>0, <3>1 DEF SemType
        <3> QED
            BY <3>2, <3>3
    <2>5. \A q \in Mutex : MutexOk(q)'
        <3> SUFFICES ASSUME NEW q \in Mutex
                     PROVE  MutexOk(q)'
            OBVIOUS
        <3>1. q \in Inherit /\ q \in Sem /\ MutexOk(q)
            BY <1>0, SemFacts DEF MutexInv
        <3>2. \A u \in Task : holder'[q][u] > 0 => u # t /\ holder[q][u] > 0
            BY <2>2, <3>1
        <3>3. mholder'[q].blocking <=> waitlist'[q] # << >>
            BY <2>1, <3>1 DEF MutexOk
        <3> QED
            BY <1>0, <1>1, <1>3, <2>1, <3>1, <3>2, <3>3, MutexDeleted
    <2> QED
        BY <1>4, <2>1, <2>3, <2>4, <2>5, CalmStep
<1> QED
    BY <1>5, <1>6

\* A post that gives nothing to a waiter restores nobody.
LEMMA PostPrioKept ==
    ASSUME SemType, NEW s, NEW t, PostSlow(s, t), s \notin Inherit \/ Woken(s) = Null
    PROVE  prio' = prio
<1>1. ToRestore(s, t) = {}
    BY DEF ToRestore
<1>2. \E h, l : prio' = Restored({}, h, l)
    BY <1>1 DEF PostSlow
<1> QED
    BY <1>2 DEF Restored, SemType

\* The first waiter of an event leaves its list.
LEMMA TailOrder ==
    ASSUME CountLayer, OwnerLayer, NEW s \in Sem, waitlist[s] # << >>
    PROVE  /\ Descends(Tail(waitlist[s]), prio)
           /\ \A u \in Task : Occurs(u, Tail(waitlist[s])) =>
                  /\ prio[Head(waitlist[s])] >= prio[u]
                  /\ Occurs(u, waitlist[s]) /\ u # Head(waitlist[s])
           /\ Tail(waitlist[s]) \in Seq(Task) /\ OnceEach(Tail(waitlist[s]))
<1>1. waitlist[s] \in Seq(Task) /\ OnceEach(waitlist[s]) /\ Descends(waitlist[s], prio)
    BY DEF CountLayer, OwnerLayer, SemType, ListInv, OrderInv
<1>2. /\ \A u \in Task : Occurs(u, Tail(waitlist[s])) <=> Occurs(u, waitlist[s]) /\ u # Head(waitlist[s])
      /\ \A pr : Descends(waitlist[s], pr) => Descends(Tail(waitlist[s]), pr)
      /\ \A pr : Descends(waitlist[s], pr) =>
           \A u \in Task : Occurs(u, Tail(waitlist[s])) => pr[Head(waitlist[s])] >= pr[u]
      /\ Tail(waitlist[s]) \in Seq(Task) /\ OnceEach(Tail(waitlist[s]))
    BY <1>1, TailMembers
<1> QED
    BY <1>1, <1>2

LEMMA InterruptPostOwner ==
    ASSUME CountLayer, CountLayer', OwnerLayer, CutKept, NEW s \in Event, InterruptPost(s)
    PROVE  OwnerLayer'
<1>w. PICK w : w = Woken(s)
    OBVIOUS
<1>0. SemType /\ ShapeInv /\ ErrInv /\ OrderInv /\ MutexInv
    BY DEF CountLayer, OwnerLayer
<1>s. s \in Sem /\ s \notin Inherit /\ s \notin Mutex /\ s \notin Pool /\ Null \notin Task
    BY SemFacts
<1>1. /\ PostSlow(s, Null) /\ UNCHANGED <<sem, held, errcode, alive>>
      /\ pc' = [u \in Task |-> IF u = w THEN "resumed" ELSE pc[u]]
      /\ mholder' = mholder /\ holder' = PostedHolders(s, Null)
      /\ waitlist' = IF w = Null THEN waitlist ELSE [waitlist EXCEPT ![s] = Tail(@)]
    BY <1>s, <1>w DEF InterruptPost, PostSlow, Released
<1>2. prio' = prio
    BY <1>0, <1>1, <1>s, PostPrioKept
<1>3. holder' = holder
    BY <1>1, <1>s DEF PostedHolders
<1>4. w # Null => w \in Task /\ waitlist[s] # << >> /\ Waits(w, s)
    BY <1>s, <1>w, WokenFacts
<1>5. ErrInv'
    BY <1>0, <1>1, <1>4, <1>s DEF ErrInv, Err, Waits
<1>6. \A q \in Inherit : \A u \in Task : Owns(u, q)' <=> Owns(u, q)
    <2> SUFFICES ASSUME NEW q \in Inherit, NEW u \in Task
                 PROVE  Owns(u, q)' <=> Owns(u, q)
        OBVIOUS
    <2>1. CASE u # w
        BY <1>1, <2>1 DEF Owns
    <2>2. CASE u = w
        <3>1. pc[u] = "blocked" /\ sem[u] = s /\ q # s /\ pc'[u] = "resumed"
            BY <1>1, <1>4, <1>s, <2>2 DEF Waits
        <3> QED
            BY <1>1, <3>1 DEF Owns
    <2> QED
        BY <2>1, <2>2
<1>d. PICK d : d = IF w = Null THEN waitlist[s] ELSE Tail(waitlist[s])
    OBVIOUS
<1>7. waitlist' = [waitlist EXCEPT ![s] = d] /\ Descends(d, prio)
    <2>1. CASE w = Null
        BY <1>0, <1>1, <1>d, <1>s, <2>1 DEF SemType, OrderInv
    <2>2. CASE w # Null
        <3>1. Descends(Tail(waitlist[s]), prio)
            BY <1>4, <1>s, <2>2, TailOrder
        <3> QED
            BY <1>1, <1>d, <2>2, <3>1
    <2> QED
        BY <2>1, <2>2
<1> QED
    BY <1>1, <1>2, <1>3, <1>5, <1>6, <1>7, EventStep

\* The owner of a mutex or of a count hands it to the first waiter.
LEMMA HandOwner ==
    ASSUME CountLayer, CountLayer', OwnerLayer, CutKept, NEW t \in Task, NEW s \in Inherit, NEW w \in Task,
           t # w, waitlist[s] # << >>, w = Head(waitlist[s]), Waits(w, s), Owns(t, s),
           ErrInv', alive' = alive,
           waitlist' = [waitlist EXCEPT ![s] = Tail(@)],
           s \in Mutex => mholder' = [mholder EXCEPT ![s] =
                              [tid |-> w, blocking |-> Tail(waitlist[s]) # << >>]],
           s \notin Mutex => mholder' = mholder,
           s \in Mutex => holder' = [holder EXCEPT ![s] = [u \in Task |-> 0]],
           s \in Pool => \A u \in Task : holder'[s][u] =
               IF u = t THEN 0 ELSE IF u = w THEN 1 ELSE holder[s][u],
           \A q \in Sem \ {s} : holder'[q] = holder[q],
           prio' = Restored(Holders(s, holder), holder', waitlist'),
           Owns(w, s)', \A q \in Inherit : ~Owns(t, q)', \A q \in Inherit \ {s} : ~Owns(w, q)',
           \A u \in Task \ {t, w} : \A q \in Inherit : Owns(u, q)' <=> Owns(u, q)
    PROVE  OwnerLayer'
<1>0. /\ ErrInv /\ MutexInv /\ PrioInv /\ OrderInv /\ HolderBoosted
      /\ SemType /\ ShapeInv /\ ListInv /\ ListInv' /\ SemType' /\ EntryInv /\ s \in Sem
    BY SemFacts DEF OwnerLayer, CountLayer
<1>1. waitlist'[s] = Tail(waitlist[s]) /\ \A q \in Sem \ {s} : waitlist'[q] = waitlist[q]
    BY <1>0 DEF SemType
<1>2. /\ Descends(Tail(waitlist[s]), prio)
      /\ \A u \in Task : Occurs(u, Tail(waitlist[s])) =>
             prio[w] >= prio[u] /\ Occurs(u, waitlist[s]) /\ u # w
      /\ Tail(waitlist[s]) \in Seq(Task)
    BY <1>0, TailOrder
<1>3. \A q \in Sem : \A u \in Task : Occurs(u, waitlist'[q]) => Waits(u, q)
    BY <1>0, <1>1, <1>2 DEF ListInv
<1>4. /\ \A q \in Inherit : Owns(t, q) <=> q = s
      /\ \A q \in Inherit : ~Owns(w, q)
    <2>1. \A q \in Inherit : q \in Sem
        BY SemFacts
    <2> QED
        BY <1>0, <2>1, OwnsFacts DEF Waits
<1>5. MutexInv'
    <2> SUFFICES ASSUME NEW q \in Mutex
                 PROVE  MutexOk(q)'
        BY DEF MutexInv
    <2>0. q \in Inherit /\ q \in Sem /\ MutexOk(q)
        BY <1>0, SemFacts DEF MutexInv
    <2>1. CASE q # s
        <3>1. mholder'[q] = mholder[q] /\ waitlist'[q] = waitlist[q] /\ holder'[q] = holder[q]
            BY <1>0, <1>1, <2>0, <2>1 DEF SemType
        <3>2. \A u \in Task : Owns(u, q)' <=> Owns(u, q)
            BY <1>4, <2>0, <2>1
        <3> QED
            BY <2>0, <3>1, <3>2, MutexKept
    <2>2. CASE q = s
        <3> DEFINE v == [tid |-> w, blocking |-> Tail(waitlist[s]) # << >>]
        <3>1. mholder' = [mholder EXCEPT ![s] = v] /\ mholder \in [Mutex -> Word] /\ s \in Mutex
            BY <1>0, <2>2 DEF SemType
        <3> HIDE DEF v
        <3>2. mholder'[s] = v
            BY <3>1
        <3>3. mholder'[s].tid = w /\ mholder'[s].blocking = (Tail(waitlist[s]) # << >>)
            <4>1. v.tid = w /\ v.blocking = (Tail(waitlist[s]) # << >>)
                BY WordOf DEF v
            <4> QED
                BY <3>2, <4>1
        <3>4. \A u \in Task : Owns(u, s)' <=> u = w
            <4> SUFFICES ASSUME NEW u \in Task, u # w
                         PROVE  ~Owns(u, s)'
                OBVIOUS
            <4>1. CASE u = t
                BY <4>1
            <4>2. CASE u # t
                <5>1. mholder[s].tid = t
                    BY <2>0, <2>2 DEF MutexOk
                <5>2. ~Owns(u, s)
                    BY <2>0, <2>2, <4>2, <5>1 DEF MutexOk
                <5> QED
                    BY <4>2, <5>2
            <4> QED
                BY <4>1, <4>2
        <3>5. w \in alive'
            BY DEF Owns
        <3>6. \A u \in Task : ~(holder'[s][u] > 0)
            BY <1>0, <3>1 DEF SemType
        <3>7. mholder'[s].blocking <=> waitlist'[s] # << >>
            BY <1>1, <3>3
        <3> QED
            BY <2>2, <3>3, <3>4, <3>5, <3>6, <3>7 DEF MutexOk
    <2> QED
        BY <2>1, <2>2
<1>6. \A u \in Task :
          /\ u \notin Holders(s, holder) => prio'[u] = prio[u]
          /\ u \in Holders(s, holder) => \/ prio'[u] = BasePrio[u]
                                         \/ \E r \in Sem : holder'[r][u] > 0 /\ waitlist'[r] # << >>
          /\ \/ prio'[u] = prio[u]
             \/ \A r \in Sem : holder'[r][u] > 0 /\ waitlist'[r] # << >> => prio'[u] >= prio[waitlist'[r][1]]
    <2>1. PICK h, l : h = holder' /\ l = waitlist' /\ l \in [Sem -> Seq(Task)]
        BY <1>0 DEF SemType
    <2>2. prio' = Restored(Holders(s, holder), h, l)
        BY <2>1
    <2>3. PICK us : us = Holders(s, holder)
        OBVIOUS
    <2> SUFFICES ASSUME NEW u \in Task
                 PROVE  /\ u \notin us => prio'[u] = prio[u]
                        /\ u \in us => \/ prio'[u] = BasePrio[u]
                                       \/ \E r \in Sem : h[r][u] > 0 /\ l[r] # << >>
                        /\ \/ prio'[u] = prio[u]
                           \/ \A r \in Sem : h[r][u] > 0 /\ l[r] # << >> => prio'[u] >= prio[l[r][1]]
        BY <2>1, <2>3
    <2>4. prio' = Restored(us, h, l)
        BY <2>2, <2>3
    <2>5. Settled(Restored(us, h, l)[u], us, h, l, u)
        <3>1. SemType /\ l \in [Sem -> Seq(Task)]
            BY <1>0, <2>1
        <3> QED
            BY <3>1, RestoredFacts
    <2> QED
        BY <2>4, <2>5 DEF Settled
<1>7. \A q \in Sem : \A u \in Task : Waits(u, q) => prio'[u] = prio[u]
    BY <1>0, <1>6, WaiterFrozen
<1>8. OrderInv'
    <2>1. waitlist' \in [Sem -> Seq(Task)]
        BY <1>0 DEF SemType
    <2>2. \A q \in Sem : Descends(waitlist'[q], prio)
        BY <1>0, <1>1, <1>2 DEF OrderInv
    <2> QED
        BY <1>3, <1>7, <2>1, <2>2, OrderKept
<1>9. PrioInv'
    <2> SUFFICES ASSUME NEW u \in Task, prio'[u] # BasePrio[u], u \notin cut'
                 PROVE  Boost(u)'
        BY DEF PrioInv
    <2>1. CASE u \in Holders(s, holder)
        <3>1. PICK r \in Sem : holder'[r][u] > 0 /\ waitlist'[r] # << >>
            BY <1>6, <2>1
        <3>2. r \in Inherit
            <4>1. EntryInv'
                BY DEF CountLayer
            <4>2. \A q \in Event : holder'[q][u] = 0
                BY <4>1 DEF EntryInv
            <4> QED
                BY <3>1, <4>2, SemFacts
        <3> QED
            BY <3>1, <3>2 DEF Boost
    <2>2. CASE u \notin Holders(s, holder)
        <3>1. prio[u] # BasePrio[u] /\ u \notin cut
            BY <1>6, <2>2 DEF CutKept
        <3>2. PICK r \in Inherit : holder[r][u] > 0 /\ waitlist[r] # << >>
            BY <1>0, <3>1 DEF PrioInv, Boost
        <3>3. r \in Sem \ {s}
            BY <2>2, <3>2, SemFacts DEF Holders
        <3> QED
            BY <1>1, <3>2, <3>3 DEF Boost
    <2> QED
        BY <2>1, <2>2
<1>10. HolderBoosted'
    <2> SUFFICES ASSUME NEW q \in Inherit, NEW u \in Task, NEW v \in Task, Owns(u, q)', Waits(v, q)'
                 PROVE  prio'[u] >= prio'[v]
        BY DEF HolderBoosted
    <2>0. q \in Sem /\ u # t
        BY SemFacts
    <2>1. Occurs(v, waitlist'[q])
        BY <1>0, <2>0 DEF ListInv
    <2>3. Waits(v, q)
        BY <1>3, <2>0, <2>1
    <2>5. prio'[v] = prio[v]
        BY <1>7, <2>0, <2>3
    <2>6. CASE q # s
        <3>1. u # w /\ Owns(u, q)
            BY <2>0, <2>6
        <3>2. ~Owns(u, s)
            BY <1>0, <2>0, <2>6, <3>1, OwnsFacts
        <3>3. u \notin Holders(s, holder)
            BY <1>0, <3>2, EntryOwns DEF Holders
        <3>4. prio'[u] = prio[u]
            BY <1>6, <3>3
        <3> QED
            BY <1>0, <2>3, <2>5, <3>1, <3>4 DEF HolderBoosted
    <2>7. CASE q = s /\ u = w
        <3>1. prio[w] >= prio[v]
            BY <1>1, <1>2, <2>1, <2>7
        <3>2. prio'[w] = prio[w]
            BY <1>0, <1>7
        <3> QED
            BY <2>5, <2>7, <3>1, <3>2
    <2>8. CASE q = s /\ u # w
        <3>1. Owns(u, s)
            BY <2>0, <2>8
        <3>2. CASE prio'[u] = prio[u]
            BY <1>0, <2>3, <2>5, <2>8, <3>1, <3>2 DEF HolderBoosted
        <3>3. CASE prio'[u] # prio[u]
            <4>1. s \in Pool
                <5>1. ASSUME s \in Mutex
                      PROVE  FALSE
                    <6>1. MutexOk(s)
                        BY <1>0, <5>1 DEF MutexInv
                    <6>2. mholder[s].tid = t /\ mholder[s].tid = u
                        BY <3>1, <6>1 DEF MutexOk
                    <6> QED
                        BY <2>0, <6>2
                <5> QED
                    BY <5>1 DEF Inherit
            <4>2. holder'[s][u] > 0
                BY <1>0, <2>0, <2>8, <3>1, <4>1 DEF EntryInv
            <4>l. PICK l : l = waitlist'[s]
                OBVIOUS
            <4>3. /\ l \in Seq(Task) /\ Occurs(v, l) /\ Descends(l, prio)
                  /\ prio \in [Task -> Nat] /\ prio'[u] \in 1 .. 255
                <5>1. l \in Seq(Task) /\ Occurs(v, l) /\ Descends(l, prio)
                    BY <1>1, <1>2, <2>1, <2>8, <4>l
                <5>2. prio'[u] \in 1 .. 255
                    BY <1>0 DEF SemType
                <5> QED
                    BY <1>0, <5>1, <5>2, PrioType
            <4>4. l # << >> /\ l[1] \in Task /\ prio[l[1]] >= prio[v]
                BY <4>3, HeadUrgent
            <4>5. prio'[u] >= prio[l[1]]
                BY <1>0, <1>6, <3>3, <4>2, <4>4, <4>l
            <4>6. prio'[u] \in Nat /\ prio[v] \in Nat /\ prio[l[1]] \in Nat
                BY <4>3, <4>4, ByteNat
            <4> QED
                BY <2>5, <4>4, <4>5, <4>6
        <3> QED
            BY <3>2, <3>3
    <2> QED
        BY <2>6, <2>7, <2>8
<1> QED
    BY <1>5, <1>9, <1>10, <1>8 DEF OwnerLayer

LEMMA SlowPostOwner ==
    ASSUME CountLayer, CountLayer', OwnerLayer, CutKept, NEW t \in Task, SlowPost(t)
    PROVE  OwnerLayer'
<1>s. PICK s : s = sem[t]
    OBVIOUS
<1>w. PICK w : w = Woken(s)
    OBVIOUS
<1>0. SemType /\ ShapeInv /\ Shape(t) /\ MutexInv /\ ErrInv /\ OrderInv
    BY DEF CountLayer, ShapeInv, OwnerLayer
<1>1. /\ t \in alive /\ pc[t] = "post" /\ s \in Sem
      /\ held[t] = IF s \in Event THEN Null ELSE s
      /\ PostSlow(s, t)
      /\ held' = [held EXCEPT ![t] = Null]
      /\ pc' = [u \in Task |-> CASE u = t -> "run" [] u = w -> "resumed" [] OTHER -> pc[u]]
      /\ sem' = [sem EXCEPT ![t] = Null]
    BY <1>0, <1>s, <1>w DEF SlowPost, Shape
<1>2. \A q \in Sem : ~Waits(t, q) /\ (Owns(t, q) <=> q = s /\ s \in Inherit)
    BY <1>0, <1>1, OwnsFacts, SemFacts DEF Waits
<1>3. /\ waitlist' = IF w = Null THEN waitlist ELSE [waitlist EXCEPT ![s] = Tail(@)]
      /\ IF s \in Mutex /\ Blocking(s)
         THEN mholder' = [mholder EXCEPT ![s] = HandOver(s, waitlist')]
         ELSE mholder' = IF s \in Mutex THEN [mholder EXCEPT ![s] = Free] ELSE mholder
      /\ holder' = PostedHolders(s, t)
      /\ prio' = Restored(ToRestore(s, t), holder', waitlist')
      /\ waitdog' = [u \in Task |-> u # w /\ waitdog[u]]
      /\ UNCHANGED <<errcode, alive>>
    BY <1>1, <1>w DEF PostSlow, Released
<1>4. w # Null => w \in Task /\ waitlist[s] # << >> /\ w = Head(waitlist[s]) /\ Waits(w, s) /\ Blocking(s)
    BY <1>1, <1>w, WokenFacts
<1>5. t # w
    BY <1>1, <1>2, <1>4, SemFacts
<1>6. /\ pc'[t] = "run" /\ held'[t] = Null /\ sem'[t] = Null
      /\ \A u \in Task \ {t, w} : pc'[u] = pc[u] /\ sem'[u] = sem[u] /\ held'[u] = held[u]
      /\ w # Null => pc'[w] = "resumed" /\ sem'[w] = sem[w] /\ held'[w] = held[w]
    BY <1>0, <1>1, <1>4, <1>5 DEF SemType
<1>7. (\A q \in Sem : ~Owns(t, q)') /\ \A u \in Task \ {t, w} : \A q : Owns(u, q)' <=> Owns(u, q)
    BY <1>3, <1>6, SemFacts DEF Owns
<1>8. w # Null => /\ pc[w] = "blocked" /\ sem[w] = s /\ held[w] = Null /\ w \in alive
                  /\ errcode[w] = "OK" /\ Shape(w)
    BY <1>0, <1>4 DEF ShapeInv, Shape, Waits
<1>9. ErrInv'
    <2> SUFFICES ASSUME NEW u \in Task
                 PROVE  Err(u)'
        BY DEF ErrInv
    <2>1. CASE u = t
        BY <1>6, <2>1 DEF Err
    <2>2. CASE u = w
        BY <1>3, <1>4, <1>6, <1>8, <2>2, SemFacts DEF Err
    <2>3. CASE u \notin {t, w}
        BY <1>0, <1>3, <1>6, <2>3 DEF Err, ErrInv
    <2> QED
        BY <2>1, <2>2, <2>3
<1>10. \A q \in Sem \ {s} : holder'[q] = holder[q]
    BY <1>0, <1>1, <1>3, SemFacts DEF PostedHolders, SemType
<1>11. CASE w = Null
    <2>1. prio' = prio
        BY <1>0, <1>1, <1>11, <1>w, PostPrioKept
    <2>2. Same(t) /\ Err(t)'
        <3>1. Null \notin Task /\ waitdog \in [Task -> BOOLEAN]
            BY <1>0, SemFacts DEF SemType
        <3>2. \A u \in Task : waitdog'[u] = waitdog[u]
            BY <1>3, <1>11, <3>1
        <3>3. \A u \in Task \ {t} : pc'[u] = pc[u] /\ sem'[u] = sem[u] /\ held'[u] = held[u]
            BY <1>6, <1>11, <3>1
        <3>4. Same(t)
            BY <1>3, <3>2, <3>3 DEF Same
        <3> QED
            BY <1>9, <3>4 DEF ErrInv
    <2>3. UNCHANGED <<prio, waitlist, alive>>
        BY <1>3, <1>11, <2>1
    <2>4. CASE s \in Mutex
        <3>1. waitlist[s] = << >> /\ ~Blocking(s)
            <4>1. MutexOk(s)
                BY <1>0, <2>4 DEF MutexInv
            <4>2. ~(Blocking(s) /\ waitlist[s] # << >>)
                <5>1. waitlist[s] # << >> => Head(waitlist[s]) \in Task
                    BY <1>0, <1>1 DEF SemType
                <5> QED
                    BY <1>11, <1>w, <5>1, SemFacts DEF Woken
            <4> QED
                BY <2>4, <4>1, <4>2 DEF MutexOk, Blocking
        <3>2. mholder' = [mholder EXCEPT ![s] = Free]
            BY <1>3, <2>4, <3>1
        <3>3. Owns(t, s) /\ \A q \in Inherit : ~Owns(t, q)'
            BY <1>1, <1>2, <1>7, <2>4, SemFacts
        <3>4. \A u \in Task : holder'[s][u] = 0
            BY <1>0, <1>1, <1>3, <2>4, SemFacts DEF PostedHolders, SemType
        <3> QED
            BY <1>10, <2>2, <2>3, <2>4, <3>1, <3>2, <3>3, <3>4, CalmPut
    <2>5. CASE s \notin Mutex
        <3>1. mholder' = mholder
            BY <1>3, <2>5
        <3>2. \A q \in Mutex : /\ Owns(t, q)' <=> Owns(t, q)
                               /\ \A u \in Task : holder'[q][u] = holder[q][u]
            BY <1>2, <1>7, <1>10, <2>5, SemFacts
        <3>3. s \in Pool => waitlist[s] = << >>
            <4> SUFFICES ASSUME s \in Pool
                         PROVE  waitlist[s] = << >>
                OBVIOUS
            <4>1. s \in Counting /\ count[s] >= 0
                BY <1>1, <1>11, <1>w, SemFacts, WokenFacts
            <4>2. waitlist[s] \in Seq(Task) /\ Len(waitlist[s]) = 0
                BY <1>0, <1>1, <4>1 DEF SemType, CountLayer, CountInv
            <4> QED
                BY <4>2
        <3>4. \A q \in Pool : /\ Owns(t, q)' => Owns(t, q) \/ waitlist[q] = << >>
                              /\ waitlist[q] # << >> => \A u \in Task : holder'[q][u] = holder[q][u]
            BY <1>7, <1>10, <3>3, SemFacts
        <3> QED
            BY <2>2, <2>3, <3>1, <3>2, <3>4, CalmTask
    <2> QED
        BY <2>4, <2>5
<1>12. CASE w # Null /\ s \in Event
    <2>1. prio' = prio
        BY <1>0, <1>1, <1>12, SemFacts, PostPrioKept
    <2>2. holder' = holder /\ mholder' = mholder
        BY <1>3, <1>12, SemFacts DEF PostedHolders
    <2>d. PICK d : d = Tail(waitlist[s])
        OBVIOUS
    <2>3. waitlist' = [waitlist EXCEPT ![s] = d] /\ Descends(d, prio)
        BY <1>1, <1>3, <1>4, <1>12, <2>d, TailOrder
    <2>4. \A q \in Inherit : \A u \in Task : Owns(u, q)' <=> Owns(u, q)
        <3> SUFFICES ASSUME NEW q \in Inherit, NEW u \in Task
                     PROVE  Owns(u, q)' <=> Owns(u, q)
            OBVIOUS
        <3>0. q \in Sem /\ q # s
            BY <1>12, SemFacts
        <3>1. CASE u = t
            BY <1>2, <1>7, <3>0, <3>1
        <3>2. CASE u = w
            BY <1>3, <1>6, <1>8, <1>12, <3>0, <3>2, SemFacts DEF Owns
        <3>3. CASE u \notin {t, w}
            BY <1>7, <3>3
        <3> QED
            BY <3>1, <3>2, <3>3
    <2> QED
        BY <1>3, <1>9, <1>12, <2>1, <2>2, <2>3, <2>4, EventStep
<1>13. CASE w # Null /\ s \notin Event
    <2>1. s \in Inherit /\ w \in Task /\ Owns(t, s)
        BY <1>1, <1>2, <1>4, <1>13, SemFacts
    <2>2. waitlist' = [waitlist EXCEPT ![s] = Tail(@)] /\ waitlist'[s] = Tail(waitlist[s])
        BY <1>0, <1>1, <1>3, <1>13 DEF SemType
    <2>3. s \in Mutex => mholder' = [mholder EXCEPT ![s] =
                             [tid |-> w, blocking |-> Tail(waitlist[s]) # << >>]]
        <3> SUFFICES ASSUME s \in Mutex
                     PROVE  mholder' = [mholder EXCEPT ![s] =
                                [tid |-> w, blocking |-> Tail(waitlist[s]) # << >>]]
            OBVIOUS
        <3>1. mholder' = [mholder EXCEPT ![s] = HandOver(s, waitlist')]
            BY <1>3, <1>4, <1>13
        <3>2. HandOver(s, waitlist') = [tid |-> w, blocking |-> waitlist'[s] # << >>]
            BY <1>13, <1>w DEF HandOver
        <3> QED
            BY <2>2, <3>1, <3>2, Zenon
    <2>4. s \notin Mutex => mholder' = mholder
        BY <1>3
    <2>5. s \in Mutex => holder' = [holder EXCEPT ![s] = [u \in Task |-> 0]]
        BY <1>3, SemFacts DEF PostedHolders
    <2>6. s \in Pool => \A u \in Task : holder'[s][u] =
              IF u = t THEN 0 ELSE IF u = w THEN 1 ELSE holder[s][u]
        <3>1. t \in Task \cup {Null} /\ (s \in Pool => t \in Task /\ Owns(t, s))
            BY <2>1
        <3>2. \A q \in Counting : \A u \in Task :
                  PostedHolders(s, t)[q][u] =
                      IF q = s /\ q \in Pool
                      THEN IF u = t THEN 0 ELSE IF u = Woken(s) THEN 1 ELSE holder[q][u]
                      ELSE holder[q][u]
            BY <1>1, <3>1, PostedFacts
        <3> QED
            BY <1>3, <1>w, <3>2, SemFacts
    <2>7. prio' = Restored(Holders(s, holder), holder', waitlist')
        BY <1>3, <1>13, <1>w, <2>1 DEF ToRestore
    <2>8. \A q \in Inherit : (Owns(w, q)' <=> q = s) /\ ~Owns(t, q)'
        BY <1>3, <1>6, <1>7, <1>8, <1>13, SemFacts DEF Owns
    <2>9. /\ Owns(w, s)' /\ \A q \in Inherit \ {s} : ~Owns(w, q)'
          /\ \A q \in Inherit : ~Owns(t, q)'
          /\ \A u \in Task \ {t, w} : \A q \in Inherit : Owns(u, q)' <=> Owns(u, q)
        BY <1>7, <2>1, <2>8
    <2>10. waitlist[s] # << >> /\ w = Head(waitlist[s]) /\ Waits(w, s) /\ alive' = alive
        BY <1>3, <1>4, <1>13
    <2> QED
        BY <1>5, <1>9, <1>10, <2>1, <2>2, <2>3, <2>4, <2>5, <2>6, <2>7, <2>9, <2>10, HandOwner
<1> QED
    BY <1>11, <1>12, <1>13

\* t blocks, and the owners it waits for are boosted.
LEMMA SlowBlockOwner ==
    ASSUME CountLayer, CountLayer', OwnerLayer, CutKept, NEW t \in Task, SlowBlock(t)
    PROVE  OwnerLayer'
<1>s. PICK s : s = sem[t]
    OBVIOUS
<1>0. /\ SemType /\ ShapeInv /\ Shape(t) /\ ListInv /\ EntryInv /\ ListInv' /\ SemType' /\ EntryInv'
      /\ MutexInv /\ PrioInv /\ OrderInv /\ HolderBoosted /\ ErrInv
    BY DEF CountLayer, ShapeInv, OwnerLayer
<1>1. /\ t \in alive /\ pc[t] = "wait" /\ s \in Sem /\ held[t] = Null
      /\ errcode' = [errcode EXCEPT ![t] = "OK"]
      /\ waitlist' = [waitlist EXCEPT ![s] = AddPrioritized(@, t)]
      /\ GoTo(t, "blocked", s) /\ UNCHANGED <<waitdog, alive, held>>
      /\ prio' = IF s \in Inherit THEN Boosted(s, t, holder') ELSE prio
    BY <1>0, <1>s DEF SlowBlock, Shape
<1>2. pc'[t] = "blocked" /\ sem'[t] = s /\ Same(t)
    BY <1>0, <1>1 DEF SemType, GoTo, Same
<1>3. (\A q \in Sem : ~Owns(t, q) /\ ~Owns(t, q)' /\ ~Waits(t, q))
      /\ \A u \in Task : \A q \in Sem : Owns(u, q)' <=> Owns(u, q)
    <2>1. \A q \in Sem : ~Owns(t, q) /\ ~Owns(t, q)' /\ ~Waits(t, q)
        BY <1>0, <1>1, <1>2, OwnsFacts, SemFacts DEF Owns, Waits
    <2> QED
        BY <1>2, <2>1, Others
<1> DEFINE d == AddPrioritized(waitlist[s], t)
<1>5. waitlist[s] \in Seq(Task) /\ OnceEach(waitlist[s]) /\ ~Occurs(t, waitlist[s])
    BY <1>0, <1>1, <1>3 DEF SemType, ListInv
<1>6. /\ Len(d) = Len(waitlist[s]) + 1 /\ \A u \in Task : Occurs(u, d) <=> Occurs(u, waitlist[s]) \/ u = t
      /\ d \in Seq(Task)
    BY <1>5, AddPrioritizedMembers
<1>7. Descends(d, prio)
    <2>1. Descends(waitlist[s], prio)
        BY <1>0, <1>1 DEF OrderInv
    <2> QED
        BY <1>0, <1>5, <2>1, AddPrioritizedOrder
<1>8. waitlist'[s] = d /\ \A q \in Sem \ {s} : waitlist'[q] = waitlist[q]
    BY <1>0, <1>1 DEF SemType
<1> HIDE DEF d
<1>9. waitlist'[s] # << >>
    BY <1>5, <1>6, <1>8
<1>11. ErrInv'
    <2> SUFFICES ASSUME NEW u \in Task
                 PROVE  Err(u)'
        BY DEF ErrInv
    <2> QED
        BY <1>0, <1>2 DEF ErrInv, Err, Same
<1>12. /\ \A q \in Sem \ {s} : holder'[q] = holder[q]
       /\ \A u \in Task : holder'[s][u] >= holder[s][u]
       /\ s \in Mutex => /\ mholder[s].tid \in alive /\ holder'[s][mholder[s].tid] > 0
                         /\ \A u \in Task \ {mholder[s].tid} : holder'[s][u] = holder[s][u]
                         /\ mholder'[s].tid = mholder[s].tid /\ mholder'[s].blocking
       /\ s \notin Mutex => holder' = holder
       /\ \A q \in Mutex \ {s} : mholder'[q] = mholder[q]
    <2>1. CASE s \in Mutex
        <3>1. /\ mholder[s].tid \in alive /\ mholder' = [mholder EXCEPT ![s].blocking = TRUE]
              /\ holder' = AddHolder(s, mholder[s].tid)
            BY <1>s, <2>1 DEF SlowBlock
        <3>2. PICK h \in Task : h = mholder[s].tid
            BY <1>0, <3>1 DEF SemType
        <3>3. /\ \A q \in Sem \ {s} : holder'[q] = holder[q]
              /\ holder'[s][h] = holder[s][h] + 1
              /\ \A u \in Task \ {h} : holder'[s][u] = holder[s][u]
            BY <1>0, <1>1, <2>1, <3>1, <3>2, SemFacts, AddHolderFacts
        <3>4. \A u \in Task : holder[s][u] \in Nat
            BY <1>0, <1>1 DEF SemType
        <3>5. \A u \in Task : holder'[s][u] >= holder[s][u]
            BY <3>2, <3>3, <3>4
        <3>6. holder'[s][h] > 0
            BY <3>2, <3>3, <3>4
        <3>7. mholder'[s].tid = mholder[s].tid /\ mholder'[s].blocking
              /\ \A q \in Mutex \ {s} : mholder'[q] = mholder[q]
            BY <1>0, <2>1, <3>1 DEF SemType, Word
        <3> QED
            BY <2>1, <3>1, <3>2, <3>3, <3>5, <3>6, <3>7
    <2>2. CASE s \notin Mutex
        <3>1. UNCHANGED <<mholder, holder>>
            BY <1>s, <2>2 DEF SlowBlock
        <3>2. \A u \in Task : holder[s][u] \in Nat
            BY <1>0, <1>1 DEF SemType
        <3>3. \A u \in Task : holder'[s][u] >= holder[s][u]
            BY <3>1, <3>2
        <3> QED
            BY <2>2, <3>1, <3>3
    <2> QED
        BY <2>1, <2>2
<1>13. MutexInv'
    <2> SUFFICES ASSUME NEW q \in Mutex
                 PROVE  MutexOk(q)'
        BY DEF MutexInv
    <2>0. q \in Sem /\ MutexOk(q)
        BY <1>0, SemFacts DEF MutexInv
    <2>1. CASE q # s
        <3>1. \A u \in Task : (Owns(u, q)' <=> Owns(u, q)) /\ holder'[q][u] = holder[q][u]
            BY <1>3, <1>12, <2>0, <2>1
        <3> QED
            BY <1>1, <1>8, <1>12, <2>0, <2>1, <3>1, MutexKept
    <2>2. CASE q = s
        <3>1. \A u \in Task : Owns(u, s)' <=> (u \in alive' /\ mholder'[s].tid = u)
            BY <1>1, <1>3, <1>12, <2>0, <2>2 DEF MutexOk
        <3>2. ASSUME NEW u \in Task, holder'[s][u] > 0
              PROVE  Owns(u, s)'
            <4>1. Owns(u, s)
                BY <1>12, <2>0, <2>2, <3>2 DEF MutexOk
            <4> QED
                BY <1>3, <2>0, <2>2, <4>1
        <3>3. mholder'[s].tid \in alive'
            BY <1>1, <1>12, <2>2
        <3>4. mholder'[s].blocking
            BY <1>12, <2>2
        <3> QED
            BY <1>9, <2>2, <3>1, <3>2, <3>3, <3>4 DEF MutexOk
    <2> QED
        BY <2>1, <2>2
<1>14. \A u \in Task : /\ prio[u] \in Nat /\ prio'[u] \in Nat /\ prio'[u] >= prio[u]
                       /\ prio'[u] # prio[u] => s \in Inherit /\ holder'[s][u] > 0
                       /\ s \in Inherit /\ holder'[s][u] > 0 => prio'[u] >= prio[t]
    <2> SUFFICES ASSUME NEW u \in Task
                 PROVE  /\ prio[u] \in Nat /\ prio'[u] \in Nat /\ prio'[u] >= prio[u]
                        /\ prio'[u] # prio[u] => s \in Inherit /\ holder'[s][u] > 0
                        /\ s \in Inherit /\ holder'[s][u] > 0 => prio'[u] >= prio[t]
        OBVIOUS
    <2>1. prio[u] \in Nat /\ prio[t] \in Nat
        <3>1. prio[u] \in 1 .. 255 /\ prio[t] \in 1 .. 255
            BY <1>0 DEF SemType
        <3> QED
            BY <3>1, ByteNat
    <2>2. prio'[u] = IF s \in Inherit /\ holder'[s][u] > 0 /\ prio[t] > prio[u] THEN prio[t] ELSE prio[u]
        BY <1>1 DEF Boosted
    <2> QED
        BY <2>1, <2>2
<1>15. ASSUME NEW v \in Task, NEW q \in Sem, Waits(v, q)'
       PROVE  prio'[v] = prio[v]
    <2>1. ~Owns(v, s)'
        <3>1. pc'[v] = "blocked" /\ ShapeInv'
            BY <1>15 DEF Waits, CountLayer
        <3>2. held'[v] = Null
            BY <3>1 DEF ShapeInv, Shape
        <3> QED
            BY <1>1, <3>1, <3>2, SemFacts DEF Owns
    <2>2. s \in Mutex => ~(holder'[s][v] > 0)
        BY <1>13, <2>1 DEF MutexInv, MutexOk
    <2>3. s \in Pool => ~(holder'[s][v] > 0)
        BY <1>0, <2>1 DEF EntryInv
    <2> QED
        BY <1>14, <2>2, <2>3 DEF Inherit
<1>16. OrderInv'
    <2>1. waitlist' \in [Sem -> Seq(Task)]
        BY <1>0 DEF SemType
    <2>2. \A q \in Sem : Descends(waitlist'[q], prio)
        BY <1>0, <1>7, <1>8 DEF OrderInv
    <2>3. \A q \in Sem : \A u \in Task : Occurs(u, waitlist'[q]) => Waits(u, q)'
        BY <1>0 DEF ListInv
    <2> QED
        BY <1>15, <2>1, <2>2, <2>3, OrderKept
<1>17. PrioInv'
    <2> SUFFICES ASSUME NEW u \in Task, prio'[u] # BasePrio[u], u \notin cut'
                 PROVE  Boost(u)'
        BY DEF PrioInv
    <2>1. CASE prio'[u] # prio[u]
        BY <1>9, <1>14, <2>1 DEF Boost
    <2>2. CASE prio'[u] = prio[u]
        <3>1. PICK q \in Inherit : holder[q][u] > 0 /\ waitlist[q] # << >>
            BY <1>0, <2>2 DEF PrioInv, Boost, CutKept
        <3>2. q \in Sem
            BY SemFacts
        <3>3. CASE q = s
            <4>1. holder[s][u] \in Nat /\ holder'[s][u] \in Nat
                BY <1>0, <1>1 DEF SemType
            <4>2. holder'[s][u] > 0
                BY <1>12, <3>1, <3>3, <4>1
            <4> QED
                BY <1>9, <3>3, <4>2 DEF Boost
        <3>4. CASE q # s
            BY <1>8, <1>12, <3>1, <3>2, <3>4 DEF Boost
        <3> QED
            BY <3>3, <3>4
    <2> QED
        BY <2>1, <2>2
<1>18. HolderBoosted'
    <2> SUFFICES ASSUME NEW q \in Inherit, NEW u \in Task, NEW v \in Task, Owns(u, q)', Waits(v, q)'
                 PROVE  prio'[u] >= prio'[v]
        BY DEF HolderBoosted
    <2>0. q \in Sem /\ Owns(u, q)
        BY <1>3, SemFacts
    <2>2. prio'[v] = prio[v]
        BY <1>15, <2>0
    <2>3. prio'[u] >= prio[u] /\ prio'[u] \in Nat /\ prio[u] \in Nat /\ prio[v] \in Nat
        BY <1>14
    <2>4. CASE v # t
        <3>1. Waits(v, q)
            BY <1>2, <2>4, Others
        <3>2. prio[u] >= prio[v]
            BY <1>0, <2>0, <3>1 DEF HolderBoosted
        <3> QED
            BY <2>2, <2>3, <3>2
    <2>5. CASE v = t
        <3>1. q = s
            BY <1>2, <2>5 DEF Waits
        <3>2. holder'[s][u] > 0
            <4>1. CASE s \in Mutex
                <5>1. mholder[s].tid = u
                    BY <1>0, <2>0, <3>1, <4>1 DEF MutexInv, MutexOk
                <5> QED
                    BY <1>12, <4>1, <5>1
            <4>2. CASE s \in Pool
                BY <1>0, <3>1, <4>2 DEF EntryInv
            <4> QED
                BY <3>1, <4>1, <4>2 DEF Inherit
        <3>3. prio'[u] >= prio[t]
            BY <1>14, <3>1, <3>2
        <3> QED
            BY <2>2, <2>5, <3>3
    <2> QED
        BY <2>4, <2>5
<1> QED
    BY <1>16, <1>11, <1>13, <1>17, <1>18 DEF OwnerLayer

-----------------------------------------------------------------------------
(* Mutexes and priority inheritance. *)

LEMMA OwnerInit == Init => OwnerLayer
<1> SUFFICES ASSUME Init
             PROVE  OwnerLayer
    OBVIOUS
<1>1. \A s \in Sem : \A t \in Task : ~Owns(t, s) /\ ~Waits(t, s)
    BY SemFacts DEF Init, Owns, Waits
<1>2. \A s \in Sem : waitlist[s] = << >> /\ \A t \in Task : holder[s][t] = 0
    BY DEF Init
<1>3. \A s \in Mutex : mholder[s].tid = Null /\ ~mholder[s].blocking
    BY DEF Init, Free
<1>4. MutexInv
    BY <1>1, <1>2, <1>3, SemFacts DEF MutexInv, MutexOk
<1>5. ErrInv /\ PrioInv
    BY DEF Init, ErrInv, Err, PrioInv
<1>6. OrderInv
    BY <1>2 DEF OrderInv, Descends
<1>7. HolderBoosted
    BY <1>1, SemFacts DEF HolderBoosted
<1> QED
    BY <1>4, <1>5, <1>6, <1>7 DEF OwnerLayer

\* No wait for a mutex is ended by a timeout or a signal.
MutexWaits == (Timed \cup Signalled) \cap Mutex = {}

\* What the history variable does in every step.
LEMMA CutFacts ==
    ASSUME [Next]_vars
    PROVE  /\ CutKept
           /\ \A t \in Task : \A s \in Inherit : Next /\ CutShort(t, s) => CutOwners(s)
<1>1. CASE UNCHANGED vars
    <2>1. UNCHANGED <<prio, cut, pc>>
        BY <1>1 DEF vars, sysVars, tcbVars, userVars
    <2>2. \A t \in Task : \A s \in Inherit : ~CutShort(t, s)
        BY <2>1 DEF CutShort, Waits
    <2> QED
        BY <2>1, <2>2 DEF CutKept
<1>2. CASE Next
    <2>1. \A u \in Task :
              /\ u \in cut \/ \E s \in Inherit : Owns(u, s) /\ \E t \in Task : CutShort(t, s)
              /\ prio'[u] # BasePrio[u]
              => u \in cut'
        BY <1>2 DEF Next, Remember
    <2>2. CutKept
        BY <2>1 DEF CutKept
    <2>3. \A t \in Task : \A s \in Inherit : CutShort(t, s) => CutOwners(s)
        BY <2>1 DEF CutOwners
    <2> QED
        BY <2>2, <2>3
<1> QED
    BY <1>1, <1>2

LEMMA OwnerNext ==
    ASSUME CarefulDelete, MutexWaits, CountLayer, OwnerLayer, [Next]_vars
    PROVE  OwnerLayer'
<1>0. CountLayer' /\ CutKept
    BY CountNext, CutFacts
<1>c. ASSUME Next, NEW t \in Task
      PROVE  \A s \in Inherit : CutShort(t, s) => CutOwners(s)
    BY <1>c, CutFacts
<1>1. ASSUME NEW t \in Task, Begin(t)
      PROVE  OwnerLayer'
    <2>1. PICK s \in Sem : Wait(t, s) \/ TickWait(t, s) \/ Post(t, s)
        BY <1>1 DEF Begin
    <2> QED
        BY <1>0, <2>1, WaitOwner, PostOwner
<1>2. ASSUME NEW t \in Task, Finish(t)
      PROVE  OwnerLayer'
    BY <1>0, <1>2, SlowTakeOwner, SlowBlockOwner, ResumeOwner, SlowPostOwner, PostOwner, SemFacts
       DEF Finish
<1>3. ASSUME NEW t \in Task, Signal(t), Next
      PROVE  OwnerLayer'
    <2>1. /\ pc[t] = "blocked" /\ sem[t] \in Sem /\ sem[t] \notin Mutex /\ WaitIrq(t, "EINTR")
          /\ UNCHANGED <<alive, held>>
        BY <1>3, SemAssumption DEF Signal, MutexWaits
    <2> QED
        BY <1>0, <1>3, <1>c, <2>1, CutOwner
<1>4. ASSUME NEW t \in Task, Expire(t), Next
      PROVE  OwnerLayer'
    <2>1. Timed \cap Mutex = {}
        BY DEF MutexWaits
    <2> QED
        BY <1>0, <1>4, <1>c, <2>1, ExpireOwner
<1>5. CASE Done \/ UNCHANGED vars
    <2>1. UNCHANGED <<count, mholder, waitlist, holder, prio, errcode, waitdog, alive, irqlock, pc, sem, held>>
        BY <1>5 DEF Done, vars, sysVars, semVars, tcbVars, userVars
    <2>2. \A u \in Task : \A q : (Waits(u, q)' <=> Waits(u, q)) /\ (Owns(u, q)' <=> Owns(u, q))
        BY <2>1 DEF Waits, Owns
    <2>3. ErrInv' /\ OrderInv'
        BY <2>1 DEF OwnerLayer, ErrInv, Err, OrderInv
    <2>4. MutexInv'
        BY <2>1, <2>2 DEF OwnerLayer, MutexInv, MutexOk
    <2>5. HolderBoosted'
        BY <2>1, <2>2 DEF OwnerLayer, HolderBoosted
    <2>6. PrioInv'
        BY <1>0, <2>1 DEF OwnerLayer, PrioInv, Boost, CutKept
    <2> QED
        BY <2>3, <2>4, <2>5, <2>6 DEF OwnerLayer
<1>6. ASSUME NEW t \in Task, Delete(t)
      PROVE  OwnerLayer'
    BY <1>0, <1>6, DeleteOwner
<1>7. ASSUME NEW s \in Event, InterruptPost(s)
      PROVE  OwnerLayer'
    BY <1>0, <1>7, InterruptPostOwner
<1> QED
    BY <1>1, <1>2, <1>3, <1>4, <1>5, <1>6, <1>7 DEF Next, Step

\* The mutex words, the priorities and the order of the wait lists agree with who
\* owns and who waits, also when waits for events and pools time out, are
\* interrupted or end with the waiter; no wait for a mutex is ended by a timeout
\* or a signal, and no task is deleted while others wait with it or for it.
THEOREM OwnerLayerHolds ==
    ASSUME CarefulDelete, MutexWaits
    PROVE  Spec => [](CountLayer /\ OwnerLayer)
<1>1. CountLayer /\ OwnerLayer /\ [Next]_vars => (CountLayer /\ OwnerLayer)'
    BY CountNext, OwnerNext
<1> QED
    BY <1>1, CountInit, OwnerInit, PTL DEF Spec

\* A mutex names a living task exactly while that task owns it: two tasks never
\* own it, and one nobody owns can be taken.
THEOREM HolderIsCurrentHolds ==
    ASSUME CarefulDelete, MutexWaits
    PROVE  Spec => []HolderIsCurrent
<1>1. CountLayer /\ OwnerLayer => HolderIsCurrent
    <2> SUFFICES ASSUME CountLayer, OwnerLayer, NEW s \in Mutex
                 PROVE  {t \in Task : Owns(t, s)} = {mholder[s].tid} \cap alive
        BY DEF HolderIsCurrent
    <2>1. MutexOk(s) /\ alive \subseteq Task
        BY DEF OwnerLayer, MutexInv, CountLayer, SemType
    <2> QED
        BY <2>1 DEF MutexOk
<1> QED
    BY <1>1, OwnerLayerHolds, PTL

\* Whoever owns a mutex or a count of a pool runs at least at the priority of
\* every task waiting for it, whatever ends the waits for pools and events and
\* also after a waiter of a mutex has been deleted.
THEOREM HolderBoostedHolds ==
    ASSUME CarefulDelete, MutexWaits
    PROVE  Spec => []HolderBoosted
<1>1. OwnerLayer => HolderBoosted
    BY DEF OwnerLayer
<1> QED
    BY <1>1, OwnerLayerHolds, PTL

\* A task that owns nothing has its base priority again, unless a timeout or a
\* signal has ended a wait for what it owned since it last had it.
THEOREM BoostReturnedHolds ==
    ASSUME CarefulDelete, MutexWaits
    PROVE  Spec => []BoostReturned
<1>1. CountLayer /\ OwnerLayer => BoostReturned
    <2> SUFFICES ASSUME CountLayer, OwnerLayer, NEW t \in Task, prio[t] # BasePrio[t], t \notin cut
                 PROVE  \E s \in Inherit : Owns(t, s)
        BY DEF BoostReturned
    <2>1. MutexInv /\ Boost(t)
        BY DEF OwnerLayer, PrioInv
    <2> QED
        BY <2>1, EntryOwns DEF Boost
<1> QED
    BY <1>1, OwnerLayerHolds, PTL

\* A wait that ends with the semaphore ends by a post, which takes the first task
\* of the list.
LEMMA WokenByPost ==
    ASSUME CountLayer, [Next]_vars, NEW t \in Task, NEW s \in Sem, Waits(t, s),
           pc'[t] = "resumed", errcode'[t] = "OK"
    PROVE  waitlist[s] # << >> /\ t = Head(waitlist[s])
<1>0. SemType /\ pc[t] = "blocked" /\ sem[t] = s
    BY DEF CountLayer, Waits
<1>1. ASSUME NEW u \in Task, NEW q \in Sem, Wait(u, q) \/ TickWait(u, q) \/ Post(u, q)
      PROVE  FALSE
    <2>1. pc'[t] = pc[t] \/ pc'[t] \in {"wait", "post"}
        BY <1>0, <1>1 DEF Wait, TickWait, Take, GoTo, Post, SemType
    <2> QED
        BY <1>0, <2>1
<1>2. ASSUME NEW u \in Task, SlowTake(u) \/ SlowBlock(u) \/ Resume(u)
      PROVE  FALSE
    <2>1. pc'[t] = pc[t] \/ pc'[t] \in {"run", "blocked"}
        BY <1>0, <1>2 DEF SlowTake, SlowBlock, Resume, GoTo, SemType
    <2> QED
        BY <1>0, <2>1
<1>3. ASSUME NEW u \in Task, Expire(u) \/ Signal(u) \/ Delete(u)
      PROVE  FALSE
    <2>1. CASE u = t
        <3>1. pc'[t] = "run" \/ WaitIrq(t, "ETIMEDOUT") \/ WaitIrq(t, "EINTR")
            BY <1>0, <1>3, <2>1 DEF Expire, Signal, Delete, Terminate, SemType
        <3>2. errcode'[t] # "OK"
            BY <1>0, <3>1 DEF WaitIrq, SemType
        <3> QED
            BY <3>2
    <2>2. CASE u # t
        <3>1. pc'[t] = pc[t]
            BY <1>0, <1>3, <2>2 DEF Expire, Signal, Delete, Terminate, WaitIrq, SemType
        <3> QED
            BY <1>0, <3>1
    <2> QED
        BY <2>1, <2>2
<1>4. ASSUME NEW q \in Sem, t = Woken(q)
      PROVE  waitlist[s] # << >> /\ t = Head(waitlist[s])
    <2>1. Woken(q) # Null
        BY <1>4, SemFacts
    <2>2. waitlist[q] # << >> /\ Woken(q) = Head(waitlist[q]) /\ Waits(Woken(q), q)
        BY <2>1, WokenFacts
    <2> QED
        BY <1>0, <1>4, <2>2 DEF Waits
<1>5. ASSUME NEW u \in Task, SlowPost(u)
      PROVE  waitlist[s] # << >> /\ t = Head(waitlist[s])
    <2>1. pc' = [v \in Task |-> CASE v = u -> "run" [] v = Woken(sem[u]) -> "resumed" [] OTHER -> pc[v]]
        BY <1>5 DEF SlowPost
    <2>2. t = Woken(sem[u])
        BY <1>0, <2>1
    <2>3. sem[u] \in Sem
        BY <1>5 DEF SlowPost, CountLayer, ShapeInv, Shape
    <2> QED
        BY <1>4, <2>2, <2>3
<1>6. ASSUME NEW q \in Event, InterruptPost(q)
      PROVE  waitlist[s] # << >> /\ t = Head(waitlist[s])
    <2>1. pc' = [v \in Task |-> IF v = Woken(q) THEN "resumed" ELSE pc[v]]
        BY <1>6 DEF InterruptPost
    <2>2. t = Woken(q)
        BY <1>0, <2>1
    <2> QED
        BY <1>4, <2>2, SemFacts
<1>7. ASSUME Done \/ UNCHANGED vars
      PROVE  FALSE
    BY <1>0, <1>7 DEF Done, vars, sysVars, userVars
<1>8. ASSUME NEW u \in Task, Begin(u) \/ Finish(u)
      PROVE  waitlist[s] # << >> /\ t = Head(waitlist[s])
    BY <1>1, <1>2, <1>5, <1>8, SemFacts DEF Begin, Finish
<1> QED
    BY <1>3, <1>6, <1>7, <1>8 DEF Next, Step

\* A post wakes the most urgent waiter, whatever was changed in the list while it
\* waited.
THEOREM MostUrgentFirstHolds ==
    ASSUME CarefulDelete, MutexWaits
    PROVE  Spec => MostUrgentFirst
<1> DEFINE Urgent == \A t, u \in Task : \A s \in Sem :
               /\ Waits(t, s) /\ Waits(u, s)
               /\ pc'[t] = "resumed" /\ errcode'[t] = "OK" /\ pc'[u] = "blocked"
               => prio[t] >= prio[u]
<1>1. CountLayer /\ OwnerLayer /\ [Next]_vars => Urgent
    <2> SUFFICES ASSUME CountLayer, OwnerLayer, [Next]_vars,
                        NEW t \in Task, NEW u \in Task, NEW s \in Sem, Waits(t, s), Waits(u, s),
                        pc'[t] = "resumed", errcode'[t] = "OK", pc'[u] = "blocked"
                 PROVE  prio[t] >= prio[u]
        OBVIOUS
    <2>1. waitlist[s] # << >> /\ t = Head(waitlist[s])
        BY WokenByPost
    <2>2. waitlist[s] \in Seq(Task) /\ OnceEach(waitlist[s]) /\ Occurs(u, waitlist[s]) /\ u # t
        BY DEF CountLayer, SemType, ListInv
    <2>3. Occurs(u, Tail(waitlist[s]))
        BY <2>1, <2>2, TailMembers
    <2> QED
        BY <2>1, <2>3, TailOrder
<1>2. CountLayer /\ OwnerLayer /\ [Next]_vars => [Urgent]_vars
    BY <1>1
<1>3. Spec => [][Urgent]_vars
    BY <1>2, OwnerLayerHolds, PTL DEF Spec
<1> QED
    BY <1>3 DEF MostUrgentFirst

=============================================================================
