--------------------------- MODULE NxSchedLemmas ----------------------------
(***************************************************************************)
(* What the scheduler operators of NxSched do to a scheduler state, for    *)
(* every number of tasks and CPUs: which fields a call changes, that every *)
(* task stays in exactly the one place its task_state names, and that the  *)
(* ready list stays in order.  The proofs about the modules that use the   *)
(* scheduler rest on these lemmas.                                         *)
(***************************************************************************)
EXTENDS NxSched, NxListLemmas

-----------------------------------------------------------------------------
(* Scheduler states. *)

\* The types of the fields; the callers say more about the priorities.
SchedState ==
    [ready : Seq(Task), assigned : [Cpu -> Task \cup {Null}],
     running : [Cpu -> Task \cup {Null}],
     state : [Task -> {"running", "ready", "blocked"}],
     prio : [Task -> Nat], lock : [Task -> {0, 1}], cpu : [Task -> Cpu],
     aff : [Task -> (SUBSET Cpu) \ {{}}], deliver : [Cpu -> Deliver],
     irqlock : Cpu \cup {NoCpu}, irqcount : [Task -> {0, 1}]]

\* The ready list is in order, and u is where its task_state says.
QueueOK(s) == OnceEach(s.ready) /\ Descends(s.ready, s.prio)
Linked(s, u) ==
    /\ Occurs(u, s.ready) <=> s.state[u] = "ready"
    /\ \A c \in Cpu : s.assigned[c] = u <=> s.state[u] = "running" /\ s.cpu[u] = c

\* All tasks are; and all but t, which is nowhere.
Placed(s) == QueueOK(s) /\ \A u \in Task : Linked(s, u)
Loose(s, t) ==
    /\ QueueOK(s)
    /\ \A u \in Task \ {t} : Linked(s, u)
    /\ ~Occurs(t, s.ready) /\ \A c \in Cpu : s.assigned[c] # t

LEMMA CpuType == Cpu \in SUBSET Nat /\ Cpu \in SUBSET (0 .. NCpus)
BY SchedAssumption DEF Cpu

LEMMA PrioOnType ==
    ASSUME NEW s \in SchedState, NEW c \in Cpu
    PROVE  PrioOn(s, c) \in Nat
BY DEF SchedState, PrioOn

\* nxsched_select_cpu() returns a CPU of the mask.
LEMMA SelectCpuInMask ==
    ASSUME NEW s \in SchedState, NEW mask \in (SUBSET Cpu) \ {{}}
    PROVE  SelectCpu(s, mask) \in mask /\ SelectCpu(s, mask) \in Cpu
<1> DEFINE allowed == Cpu \cap mask
           idle == {c \in allowed : s.assigned[c] = Null}
           lowest == {c \in allowed : \A d \in allowed : PrioOn(s, c) <= PrioOn(s, d)}
<1>1. idle \in SUBSET Nat /\ allowed # {} /\ NCpus \in Nat /\ lowest \in SUBSET (0 .. NCpus)
    BY CpuType, SchedAssumption
<1>2. lowest # {}
    <2> DEFINE P == {PrioOn(s, c) : c \in allowed}
    <2>1. P \in SUBSET Nat /\ P # {}
        BY <1>1, PrioOnType
    <2>2. Min(P) \in P /\ \A y \in P : Min(P) <= y
        BY <2>1, LeastNatural
    <2>3. PICK c \in allowed : Min(P) = PrioOn(s, c)
        BY <2>2
    <2>4. c \in lowest
        BY <2>2, <2>3
    <2> QED
        BY <2>4
<1>3. idle # {} => Min(idle) \in idle
    BY <1>1, LeastNatural
<1>4. Max(lowest) \in lowest
    BY <1>1, <1>2, GreatestNatural
<1>5. SelectCpu(s, mask) = IF idle # {} THEN Min(idle) ELSE Max(lowest)
    BY DEF SelectCpu
<1> QED
    BY <1>3, <1>4, <1>5

\* nxsched_add_prioritized()
LEMMA AddPrioritizedFacts ==
    ASSUME NEW s \in SchedState, NEW t \in Task, QueueOK(s), ~Occurs(t, s.ready)
    PROVE  /\ AddPrioritized(s, t).ready \in Seq(Task)
           /\ AddPrioritized(s, t) = [s EXCEPT !.ready = AddPrioritized(s, t).ready]
           /\ QueueOK(AddPrioritized(s, t))
           /\ \A u \in Task : Occurs(u, AddPrioritized(s, t).ready) <=> Occurs(u, s.ready) \/ u = t
<1> DEFINE q == s.ready
           pr == s.prio
           lower == {i \in 1 .. Len(q) : pr[q[i]] < pr[t]}
           k == IF lower = {} THEN Len(q) + 1 ELSE Min(lower)
<1>1. q \in Seq(Task) /\ Len(q) \in Nat /\ pr \in [Task -> Nat] /\ OnceEach(q) /\ Descends(q, pr)
    BY DEF SchedState, QueueOK
<1>2. /\ AddPrioritized(s, t).ready = InsertAt(q, k, t)
      /\ AddPrioritized(s, t) = [s EXCEPT !.ready = AddPrioritized(s, t).ready]
      /\ AddPrioritized(s, t).prio = pr
    BY DEF AddPrioritized, SchedState
<1> HIDE DEF q, pr
<1>3. /\ k \in 1 .. Len(q) + 1
      /\ \A i \in 1 .. Len(q) : i < k <=> pr[q[i]] >= pr[t]
    <2>1. CASE lower = {}
        BY <2>1, <1>1
    <2>2. CASE lower # {}
        <3>1. lower \in SUBSET Nat
            OBVIOUS
        <3>2. k \in lower /\ \A y \in lower : k <= y
            BY <2>2, <3>1, LeastNatural
        <3>3. k \in 1 .. Len(q) /\ pr[q[k]] < pr[t]
            BY <3>2
        <3> HIDE DEF k
        <3>4. ASSUME NEW i \in 1 .. Len(q)
              PROVE  i < k <=> pr[q[i]] >= pr[t]
            <4>1. q[i] \in Task /\ q[k] \in Task /\ pr[q[i]] \in Nat /\ pr[q[k]] \in Nat /\ pr[t] \in Nat
                BY <1>1, <3>3
            <4>2. i < k => ~(pr[q[i]] < pr[t])
                BY <3>2, <3>3
            <4>3. i > k => pr[q[k]] >= pr[q[i]]
                BY <3>3, <1>1 DEF Descends
            <4>4. i = k => pr[q[k]] >= pr[q[i]]
                BY <4>1
            <4> QED
                BY <4>1, <4>2, <4>3, <4>4, <3>3
        <3> QED
            BY <3>3, <3>4
    <2> QED
        BY <2>1, <2>2
<1> HIDE DEF k, lower
<1>4. ~Occurs(t, q)
    BY DEF q
<1>5. /\ InsertAt(q, k, t) \in Seq(Task) /\ OnceEach(InsertAt(q, k, t))
      /\ \A u \in Task : Occurs(u, InsertAt(q, k, t)) <=> Occurs(u, q) \/ u = t
      /\ Descends(InsertAt(q, k, t), pr)
    BY <1>1, <1>3, <1>4, InsertAtMembers
<1>6. QueueOK(AddPrioritized(s, t))
    BY <1>2, <1>5 DEF QueueOK
<1> QED
    BY <1>2, <1>5, <1>6 DEF q

\* The fields, without the ready list, after a ready task has taken a CPU.
TookCpu(s, s2, c, new) ==
    /\ s2.assigned = [s.assigned EXCEPT ![c] = new]
    /\ s2.state = [u \in Task |-> IF u = new THEN "running"
                                 ELSE IF u = s.assigned[c] THEN "ready" ELSE s.state[u]]
    /\ s2.cpu = [s.cpu EXCEPT ![new] = c]
    /\ s2.running = s.running /\ s2.prio = s.prio /\ s2.lock = s.lock /\ s2.aff = s.aff
    /\ s2.deliver = s.deliver /\ s2.irqlock = s.irqlock /\ s2.irqcount = s.irqcount

LEMMA TakeFields ==
    ASSUME NEW s \in SchedState, NEW c \in Cpu, NEW i \in 1 .. Len(s.ready)
    PROVE  TookCpu(s, Take(s, c, i), c, s.ready[i])
BY SchedAssumption DEF TookCpu, Take, AddPrioritized, SchedState

LEMMA TakeReady ==
    ASSUME NEW s \in SchedState, Placed(s), NEW c \in Cpu, NEW i \in 1 .. Len(s.ready)
    PROVE  LET s2 == Take(s, c, i) IN
           /\ s2 \in SchedState
           /\ QueueOK(s2)
           /\ \A u \in Task : Occurs(u, s2.ready) <=>
                 (Occurs(u, s.ready) /\ u # s.ready[i]) \/ u = s.assigned[c]
<1> DEFINE cur == s.assigned[c]
           new == s.ready[i]
           q == RemoveAt(s.ready, i)
           out == [s EXCEPT !.ready = q]
           back == [out EXCEPT !.state[cur] = "ready"]
           s2 == Take(s, c, i)
<1>1. s.ready \in Seq(Task) /\ cur \in Task \cup {Null} /\ new \in Task /\ QueueOK(s)
    BY DEF SchedState, Placed
<1>2. /\ q \in Seq(Task) /\ OnceEach(q) /\ Descends(q, s.prio)
      /\ \A u \in Task : Occurs(u, q) <=> Occurs(u, s.ready) /\ u # new
    BY <1>1, RemoveAtMembers DEF QueueOK
<1>3. ASSUME NEW p \in SchedState
      PROVE  [p EXCEPT !.assigned[c] = new, !.cpu[new] = c, !.state[new] = "running"] \in SchedState
    BY <1>1 DEF SchedState
<1>4. CASE cur = Null
    <2>1. s2.ready = q /\ s2.prio = s.prio
        BY <1>4 DEF Take, SchedState
    <2>2. \A u \in Task : u # cur
        BY <1>4, SchedAssumption
    <2>3. s2 \in SchedState
        <3>1. out \in SchedState
            BY <1>2 DEF SchedState
        <3> QED
            BY <1>3, <1>4, <3>1 DEF Take
    <2> HIDE DEF q, cur, s2
    <2> QED
        BY <1>2, <2>1, <2>2, <2>3 DEF QueueOK, s2, cur
<1>5. CASE cur # Null
    <2>1. cur \in Task
        BY <1>1, <1>5
    <2>2. s.state[cur] = "running"
        BY <2>1 DEF Placed, Linked
    <2>3. ~Occurs(cur, q)
        BY <1>2, <2>1, <2>2 DEF Placed, Linked
    <2>4. back \in SchedState /\ back.ready = q /\ back.prio = s.prio
        BY <1>2, <2>1 DEF SchedState
    <2>5. s2.ready = AddPrioritized(back, cur).ready /\ s2.prio = s.prio
        BY <1>5 DEF Take, AddPrioritized, SchedState
    <2> HIDE DEF back, q, cur
    <2>6. /\ AddPrioritized(back, cur).ready \in Seq(Task)
          /\ AddPrioritized(back, cur) = [back EXCEPT !.ready = AddPrioritized(back, cur).ready]
          /\ QueueOK(AddPrioritized(back, cur))
          /\ \A u \in Task : Occurs(u, AddPrioritized(back, cur).ready) <=> Occurs(u, q) \/ u = cur
        BY <1>2, <2>1, <2>3, <2>4, AddPrioritizedFacts DEF QueueOK
    <2>7. AddPrioritized(back, cur).prio = s.prio
        BY <2>4, <2>6 DEF SchedState
    <2>8. s2 \in SchedState
        <3>1. AddPrioritized(back, cur) \in SchedState
            BY <2>4, <2>6 DEF SchedState
        <3>2. s2 = [AddPrioritized(back, cur) EXCEPT
                      !.assigned[c] = new, !.cpu[new] = c, !.state[new] = "running"]
            BY <1>5, Zenon DEF Take, back, cur, q
        <3> HIDE DEF s2
        <3> QED
            BY <1>3, <3>1, <3>2
    <2> HIDE DEF s2
    <2> QED
        BY <1>2, <2>5, <2>6, <2>7, <2>8 DEF QueueOK, s2, cur
<1> QED
    BY <1>4, <1>5

\* A ready task that takes a CPU leaves every task in its place.
LEMMA TakePlaced ==
    ASSUME NEW s \in SchedState, Placed(s), NEW c \in Cpu, NEW i \in 1 .. Len(s.ready)
    PROVE  Take(s, c, i) \in SchedState /\ Placed(Take(s, c, i))
<1> DEFINE s2 == Take(s, c, i)
           new == s.ready[i]
           cur == s.assigned[c]
<1>a. TookCpu(s, s2, c, new)
    BY TakeFields
<1>1. /\ s2.assigned = [s.assigned EXCEPT ![c] = new]
      /\ s2.state = [u \in Task |-> IF u = new THEN "running"
                                   ELSE IF u = cur THEN "ready" ELSE s.state[u]]
      /\ s2.cpu = [s.cpu EXCEPT ![new] = c]
    BY <1>a DEF TookCpu
<1>2. /\ s2 \in SchedState
      /\ QueueOK(s2)
      /\ \A u \in Task : Occurs(u, s2.ready) <=> (Occurs(u, s.ready) /\ u # new) \/ u = cur
    BY TakeReady
<1>3. /\ s.assigned \in [Cpu -> Task \cup {Null}] /\ s.cpu \in [Task -> Cpu]
      /\ s.state \in [Task -> {"running", "ready", "blocked"}]
      /\ s.ready \in Seq(Task)
    BY DEF SchedState
<1>4. new \in Task /\ Occurs(new, s.ready)
    BY <1>3 DEF Occurs
<1>5. s.state[new] = "ready" /\ \A d \in Cpu : s.assigned[d] # new
    BY <1>4 DEF Placed, Linked
<1> HIDE DEF s2, new, cur
<1>6. cur # Null => cur \in Task /\ cur # new /\ s.state[cur] = "running" /\ s.cpu[cur] = c
    BY <1>3, <1>5 DEF Placed, Linked, cur
<1>7. ASSUME NEW u \in Task
      PROVE  Linked(s2, u)
    <2>1. CASE u = new
        BY <2>1, <1>1, <1>2, <1>3, <1>4, <1>5, <1>6, SchedAssumption DEF Linked, cur
    <2>2. CASE u = cur
        BY <2>2, <1>1, <1>2, <1>3, <1>4, <1>5, <1>6, SchedAssumption DEF Linked, cur, Placed
    <2>3. CASE u # new /\ u # cur
        <3>1. s2.state[u] = s.state[u] /\ s2.cpu[u] = s.cpu[u]
            BY <2>3, <1>1, <1>3, <1>4, <1>6
        <3>2. \A d \in Cpu : s2.assigned[d] = u <=> s.assigned[d] = u
            BY <2>3, <1>1, <1>3 DEF cur
        <3> QED
            BY <2>3, <3>1, <3>2, <1>2 DEF Linked, Placed
    <2> QED
        BY <2>1, <2>2, <2>3
<1> QED
    BY <1>1, <1>2, <1>7 DEF Placed, s2

-----------------------------------------------------------------------------
(* Scheduler calls. *)

\* What a call on CPU c may do, apart from priorities, masks and notes: every
\* task stays in its place, only c changes its task, and only to one that no CPU
\* has and whose mask allows c, unless the current one has locked the scheduler.
Reschedules(s, s2, c) ==
    /\ s2 \in SchedState /\ Placed(s2)
    /\ s2.running = s.running /\ s2.lock = s.lock
    /\ s2.irqlock = s.irqlock /\ s2.irqcount = s.irqcount
    /\ \A d \in Cpu \ {c} : s2.assigned[d] = s.assigned[d]
    /\ s2.assigned[c] # s.assigned[c] =>
          /\ ~Locked(s, c)
          /\ s2.assigned[c] \in Task /\ \A d \in Cpu : s.assigned[d] # s2.assigned[c]
          /\ c \in s2.aff[s2.assigned[c]]

\* The same tasks are blocked, at the same priorities and with the same masks.
SameTasks(s, s2) ==
    /\ s2.prio = s.prio /\ s2.aff = s.aff
    /\ \A t \in Task : s2.state[t] = "blocked" <=> s.state[t] = "blocked"

LEMMA NothingDone ==
    ASSUME NEW s \in SchedState, Placed(s), NEW c \in Cpu
    PROVE  Reschedules(s, s, c) /\ SameTasks(s, s)
BY DEF Reschedules, SameTasks

\* nxsched_switch_running() takes the first eligible task, or does nothing.
LEMMA SwitchRunningCases ==
    ASSUME NEW s \in SchedState, NEW c \in Cpu, NEW equal \in BOOLEAN
    PROVE  \/ Locked(s, c) /\ SwitchRunning(s, c, equal) = s
           \/ Eligible(s, c, equal) = {} /\ SwitchRunning(s, c, equal) = s
           \/ /\ ~Locked(s, c)
              /\ \E i \in Eligible(s, c, equal) :
                   /\ \A j \in Eligible(s, c, equal) : i <= j
                   /\ i \in 1 .. Len(s.ready) /\ c \in s.aff[s.ready[i]]
                   /\ SwitchRunning(s, c, equal) = Take(s, c, i)
<1> DEFINE E == Eligible(s, c, equal)
<1>1. E \in SUBSET Nat
    BY DEF Eligible
<1>2. E # {} => Min(E) \in E /\ \A j \in E : Min(E) <= j
    BY <1>1, LeastNatural
<1>3. \A i \in E : i \in 1 .. Len(s.ready) /\ c \in s.aff[s.ready[i]]
    BY DEF Eligible
<1> HIDE DEF E
<1>4. SwitchRunning(s, c, equal) = IF Locked(s, c) \/ E = {} THEN s ELSE Take(s, c, Min(E))
    BY <1>2 DEF SwitchRunning, E
<1> QED
    BY <1>2, <1>3, <1>4 DEF E

\* The task at the i-th place takes CPU c, which its mask allows.
LEMMA TakeStep ==
    ASSUME NEW s \in SchedState, Placed(s), NEW c \in Cpu, NEW i \in 1 .. Len(s.ready)
    PROVE  /\ ~Locked(s, c) /\ c \in s.aff[s.ready[i]] => Reschedules(s, Take(s, c, i), c)
           /\ SameTasks(s, Take(s, c, i))
           /\ Take(s, c, i).deliver = s.deliver
<1> DEFINE s2 == Take(s, c, i)
           new == s.ready[i]
           cur == s.assigned[c]
<1>1. s2 \in SchedState /\ Placed(s2)
    BY TakePlaced
<1>2. /\ s2.assigned = [s.assigned EXCEPT ![c] = new]
      /\ s2.state = [u \in Task |-> IF u = new THEN "running"
                                   ELSE IF u = cur THEN "ready" ELSE s.state[u]]
      /\ s2.cpu = [s.cpu EXCEPT ![new] = c]
      /\ s2.running = s.running /\ s2.prio = s.prio /\ s2.lock = s.lock /\ s2.aff = s.aff
      /\ s2.deliver = s.deliver /\ s2.irqlock = s.irqlock /\ s2.irqcount = s.irqcount
    BY TakeFields DEF TookCpu
<1>4. new \in Task /\ s.assigned \in [Cpu -> Task \cup {Null}]
    BY DEF SchedState
<1>5. s.state[new] = "ready" /\ \A d \in Cpu : s.assigned[d] # new
    BY <1>4 DEF Placed, Linked, Occurs
<1>6. cur # Null => s.state[cur] = "running"
    BY <1>4 DEF Placed, Linked
<1> HIDE DEF s2
<1>7. s2.assigned[c] = new /\ \A d \in Cpu \ {c} : s2.assigned[d] = s.assigned[d]
    BY <1>2, <1>4
<1>8. ~Locked(s, c) /\ c \in s.aff[new] => Reschedules(s, s2, c)
    BY <1>1, <1>2, <1>4, <1>5, <1>7 DEF Reschedules
<1>9. SameTasks(s, s2)
    BY <1>2, <1>4, <1>5, <1>6, SchedAssumption DEF SameTasks
<1> QED
    BY <1>2, <1>8, <1>9 DEF s2

LEMMA SwitchRunningStep ==
    ASSUME NEW s \in SchedState, Placed(s), NEW c \in Cpu, NEW equal \in BOOLEAN
    PROVE  /\ Reschedules(s, SwitchRunning(s, c, equal), c)
           /\ SameTasks(s, SwitchRunning(s, c, equal))
           /\ SwitchRunning(s, c, equal).deliver = s.deliver
<1> DEFINE s2 == SwitchRunning(s, c, equal)
<1>1. CASE s2 = s
    BY <1>1, NothingDone, Zenon
<1>2. CASE s2 # s
    <2>1. PICK i \in 1 .. Len(s.ready) : ~Locked(s, c) /\ c \in s.aff[s.ready[i]] /\ s2 = Take(s, c, i)
        BY <1>2, SwitchRunningCases
    <2> QED
        BY <2>1, TakeStep
<1> QED
    BY <1>1, <1>2

\* After nxsched_switch_running() no ready task that may run on c is above the
\* task of c, unless that task has locked the scheduler.
LEMMA SwitchRunningServes ==
    ASSUME NEW s \in SchedState, Placed(s), NEW c \in Cpu, NEW equal \in BOOLEAN
    PROVE  LET s2 == SwitchRunning(s, c, equal) IN
           \/ Locked(s, c) /\ s2 = s
           \/ \A u \in Task : s2.state[u] = "ready" /\ c \in s2.aff[u]
                                => s2.prio[u] <= PrioOn(s2, c)
<1> DEFINE E == Eligible(s, c, equal)
           F == Floor(s, c, equal)
           s2 == SwitchRunning(s, c, equal)
<1>1. /\ PrioOn(s, c) \in Nat /\ F \in Nat /\ F <= PrioOn(s, c)
      /\ PrioOn(s, c) <= F + 1
    <2>1. PrioOn(s, c) \in Nat
        BY PrioOnType
    <2> QED
        BY <2>1 DEF Floor
<1>2. s.ready \in Seq(Task) /\ s.prio \in [Task -> Nat] /\ Descends(s.ready, s.prio)
    BY DEF SchedState, Placed, QueueOK
<1>3. ASSUME NEW u \in Task, s.state[u] = "ready", c \in s.aff[u], s.prio[u] > F
      PROVE  \E i \in E : s.ready[i] = u
    <2>1. PICK i \in 1 .. Len(s.ready) : s.ready[i] = u
        BY <1>3 DEF Placed, Linked, Occurs
    <2>2. ASSUME NEW j \in 1 .. i
          PROVE  s.prio[s.ready[j]] > F
        <3>1. j \in 1 .. Len(s.ready) /\ (j < i \/ j = i) /\ s.ready[j] \in Task
            BY <2>1, <1>2
        <3>2. s.prio[s.ready[j]] >= s.prio[u]
            BY <2>1, <3>1, <1>2 DEF Descends
        <3> QED
            BY <3>1, <3>2, <1>1, <1>2, <1>3
    <2>3. i \in E
        BY <2>1, <2>2, <1>3 DEF Eligible
    <2> QED
        BY <2>1, <2>3
<1>4. CASE Locked(s, c) /\ s2 = s
    BY <1>4
<1>5. CASE E = {} /\ s2 = s
    <2>1. \A u \in Task : s.state[u] = "ready" /\ c \in s.aff[u] => s.prio[u] <= PrioOn(s, c)
        BY <1>1, <1>2, <1>3, <1>5
    <2> HIDE DEF s2
    <2> QED
        BY <1>5, <2>1 DEF s2
<1>6. CASE ~Locked(s, c) /\ \E i \in E :
                   /\ \A j \in E : i <= j
                   /\ i \in 1 .. Len(s.ready) /\ c \in s.aff[s.ready[i]]
                   /\ s2 = Take(s, c, i)
    <2>1. PICK i \in E : /\ \A j \in E : i <= j
                         /\ i \in 1 .. Len(s.ready) /\ c \in s.aff[s.ready[i]]
                         /\ s2 = Take(s, c, i)
        BY <1>6
    <2> DEFINE new == s.ready[i]
    <2>2. new \in Task /\ s.prio[new] > F /\ s.prio[new] \in Nat
        BY <2>1, <1>2 DEF Eligible
    <2>a. TookCpu(s, s2, c, new)
        BY <2>1, TakeFields
    <2> HIDE DEF s2
    <2>3. /\ s2.assigned = [s.assigned EXCEPT ![c] = new]
          /\ s2.state = [u \in Task |-> IF u = new THEN "running"
                                       ELSE IF u = s.assigned[c] THEN "ready" ELSE s.state[u]]
          /\ s2.prio = s.prio /\ s2.aff = s.aff
        BY <2>a DEF TookCpu
    <2>4. s.assigned \in [Cpu -> Task \cup {Null}]
        BY DEF SchedState
    <2> HIDE DEF E, F
    <2>5. PrioOn(s2, c) = s.prio[new]
        BY <2>2, <2>3, <2>4, SchedAssumption DEF PrioOn
    <2>6. ASSUME NEW u \in Task, s2.state[u] = "ready", c \in s2.aff[u]
          PROVE  s2.prio[u] <= PrioOn(s2, c)
        <3>1. CASE u = s.assigned[c]
            <4>1. PrioOn(s, c) = s.prio[u]
                BY <3>1, SchedAssumption DEF PrioOn
            <4> QED
                BY <4>1, <1>1, <2>2, <2>3, <2>5
        <3>2. CASE u # s.assigned[c]
            <4>1. s.state[u] = "ready" /\ c \in s.aff[u] /\ s.prio[u] \in Nat
                BY <3>2, <2>3, <2>6, <1>2
            <4>2. CASE s.prio[u] > F
                <5>1. PICK j \in E : s.ready[j] = u
                    BY <4>1, <4>2, <1>3
                <5>2. i <= j /\ i \in 1 .. Len(s.ready) /\ j \in 1 .. Len(s.ready)
                    BY <5>1, <2>1 DEF E, Eligible
                <5>3. s.prio[new] >= s.prio[u]
                    BY <5>1, <5>2, <1>2, <2>2 DEF Descends
                <5> QED
                    BY <5>3, <4>1, <2>2, <2>3, <2>5
            <4>3. CASE ~(s.prio[u] > F)
                BY <4>1, <4>3, <1>1, <2>2, <2>3, <2>5
            <4> QED
                BY <4>2, <4>3
        <3> QED
            BY <3>1, <3>2
    <2> QED
        BY <2>6 DEF s2
<1> QED
    BY <1>4, <1>5, <1>6, SwitchRunningCases

\* nxsched_deliver_task()
LEMMA DeliverTaskStep ==
    ASSUME NEW s \in SchedState, Placed(s), NEW c \in Cpu, NEW target \in Cpu,
           NEW how \in Deliver
    PROVE  /\ Reschedules(s, DeliverTask(s, c, target, how), c)
           /\ SameTasks(s, DeliverTask(s, c, target, how))
<1>1. CASE s.deliver[target] = how
    BY <1>1, NothingDone DEF DeliverTask
<1>2. CASE s.deliver[target] # how /\ c = target
    BY <1>2, SwitchRunningStep DEF DeliverTask
<1>3. CASE s.deliver[target] # how /\ c # target
    <2> DEFINE s2 == [s EXCEPT !.deliver[target] = how]
    <2>1. DeliverTask(s, c, target, how) = s2
        BY <1>3 DEF DeliverTask
    <2>2. s2 \in SchedState
        BY DEF SchedState
    <2>3. /\ s2.assigned = s.assigned /\ s2.running = s.running /\ s2.prio = s.prio
          /\ s2.lock = s.lock /\ s2.aff = s.aff /\ s2.irqlock = s.irqlock
          /\ s2.irqcount = s.irqcount /\ s2.state = s.state /\ s2.ready = s.ready
          /\ s2.cpu = s.cpu
        BY DEF SchedState
    <2> HIDE DEF s2
    <2>4. Placed(s2)
        BY <2>3 DEF Placed, QueueOK, Linked
    <2> QED
        BY <2>1, <2>2, <2>3, <2>4 DEF Reschedules, SameTasks
<1> QED
    BY <1>1, <1>2, <1>3

\* nxsched_add_readytorun() of a task that is nowhere, before it tells a CPU.
LEMMA AddedPlaced ==
    ASSUME NEW s \in SchedState, NEW t \in Task, Loose(s, t)
    PROVE  LET target == SelectCpu(s, s.aff[t])
               added == [AddPrioritized([s EXCEPT !.state[t] = "ready"], t)
                            EXCEPT !.cpu[t] = target]
           IN  /\ added \in SchedState /\ Placed(added)
               /\ added.assigned = s.assigned /\ added.running = s.running
               /\ added.prio = s.prio /\ added.lock = s.lock /\ added.aff = s.aff
               /\ added.irqlock = s.irqlock /\ added.irqcount = s.irqcount
               /\ added.state = [s.state EXCEPT ![t] = "ready"]
<1> DEFINE ready == [s EXCEPT !.state[t] = "ready"]
           target == SelectCpu(s, s.aff[t])
           listed == AddPrioritized(ready, t)
           added == [listed EXCEPT !.cpu[t] = target]
<1>1. target \in Cpu
    BY SelectCpuInMask DEF SchedState
<1>2. ready \in SchedState /\ QueueOK(ready) /\ ready.ready = s.ready
    BY DEF Loose, QueueOK, SchedState
<1>3. ~Occurs(t, ready.ready)
    BY <1>2 DEF Loose
<1> HIDE DEF target, ready
<1>4. /\ listed.ready \in Seq(Task)
      /\ listed = [ready EXCEPT !.ready = listed.ready]
      /\ QueueOK(listed)
      /\ \A u \in Task : Occurs(u, listed.ready) <=> Occurs(u, s.ready) \/ u = t
    BY <1>2, <1>3, AddPrioritizedFacts
<1>5. listed \in SchedState
    <2> HIDE DEF ready, listed
    <2> QED
        BY <1>2, <1>4 DEF SchedState
<1>6. /\ listed.assigned = s.assigned /\ listed.running = s.running /\ listed.prio = s.prio
      /\ listed.lock = s.lock /\ listed.aff = s.aff /\ listed.irqlock = s.irqlock
      /\ listed.irqcount = s.irqcount /\ listed.cpu = s.cpu
      /\ listed.state = [s.state EXCEPT ![t] = "ready"]
    BY DEF SchedState, AddPrioritized, ready
<1> HIDE DEF listed
<1>7. /\ added \in SchedState
      /\ added.assigned = s.assigned /\ added.running = s.running /\ added.prio = s.prio
      /\ added.lock = s.lock /\ added.aff = s.aff /\ added.irqlock = s.irqlock
      /\ added.irqcount = s.irqcount /\ added.cpu = [s.cpu EXCEPT ![t] = target]
      /\ added.ready = listed.ready
      /\ added.state = [s.state EXCEPT ![t] = "ready"]
    BY <1>1, <1>5, <1>6 DEF SchedState
<1> HIDE DEF added
<1>8. QueueOK(added)
    BY <1>4, <1>6, <1>7 DEF QueueOK
<1>9. s.state \in [Task -> {"running", "ready", "blocked"}] /\ s.cpu \in [Task -> Cpu]
    BY DEF SchedState
<1>10. ASSUME NEW u \in Task
       PROVE  Linked(added, u)
    <2>1. CASE u = t
        BY <2>1, <1>4, <1>7, <1>9 DEF Linked, Loose
    <2>2. CASE u # t
        BY <2>2, <1>4, <1>7, <1>9 DEF Linked, Loose
    <2> QED
        BY <2>1, <2>2
<1>11. Placed(added)
    BY <1>8, <1>10 DEF Placed
<1> QED
    BY <1>7, <1>11 DEF added, listed, ready, target

LEMMA AddReadyToRunStep ==
    ASSUME NEW s \in SchedState, NEW c \in Cpu, NEW t \in Task, Loose(s, t)
    PROVE  LET s2 == AddReadyToRun(s, c, t) IN
           /\ Reschedules(s, s2, c)
           /\ s2.prio = s.prio /\ s2.aff = s.aff
           /\ s2.state[t] # "blocked"
           /\ \A u \in Task \ {t} : s2.state[u] = "blocked" <=> s.state[u] = "blocked"
<1> DEFINE target == SelectCpu(s, s.aff[t])
           added == [AddPrioritized([s EXCEPT !.state[t] = "ready"], t) EXCEPT !.cpu[t] = target]
           s2 == AddReadyToRun(s, c, t)
<1>1. target \in Cpu /\ "higher" \in Deliver
    BY SelectCpuInMask DEF SchedState, Deliver
<1>2. /\ added \in SchedState /\ Placed(added)
      /\ added.assigned = s.assigned /\ added.running = s.running
      /\ added.prio = s.prio /\ added.lock = s.lock /\ added.aff = s.aff
      /\ added.irqlock = s.irqlock /\ added.irqcount = s.irqcount
      /\ added.state = [s.state EXCEPT ![t] = "ready"]
    BY AddedPlaced
<1>3. s2 = IF PrioOn(s, target) < s.prio[t] THEN DeliverTask(added, c, target, "higher") ELSE added
    BY DEF AddReadyToRun
<1> HIDE DEF added, s2, target
<1>4. Reschedules(added, s2, c) /\ SameTasks(added, s2)
    BY <1>1, <1>2, <1>3, DeliverTaskStep, NothingDone
<1>5. Reschedules(s, s2, c)
    BY <1>2, <1>4 DEF Reschedules, Locked
<1>6. s.state \in [Task -> {"running", "ready", "blocked"}]
    BY DEF SchedState
<1> QED
    BY <1>2, <1>4, <1>5, <1>6 DEF SameTasks, s2

\* The parts of a state that Reschedules compares.
SameCpus(s, s2) ==
    /\ s2.running = s.running /\ s2.lock = s.lock
    /\ s2.irqlock = s.irqlock /\ s2.irqcount = s.irqcount
    /\ s2.assigned = s.assigned

LEMMA ReschedulesFrom ==
    ASSUME NEW s \in SchedState, NEW s1 \in SchedState, NEW s2 \in SchedState, NEW c \in Cpu,
           SameCpus(s, s1), Reschedules(s1, s2, c)
    PROVE  Reschedules(s, s2, c)
BY DEF SameCpus, Reschedules, Locked

\* A new priority of a task that is not in the ready list.
LEMMA PrioChanged ==
    ASSUME NEW s \in SchedState, Placed(s), NEW t \in Task, NEW p \in Nat,
           s.state[t] # "ready"
    PROVE  LET s1 == [s EXCEPT !.prio[t] = p] IN
           /\ s1 \in SchedState /\ Placed(s1) /\ SameCpus(s, s1)
           /\ s1.prio = [s.prio EXCEPT ![t] = p] /\ s1.aff = s.aff /\ s1.state = s.state
           /\ s1.cpu = s.cpu /\ s1.ready = s.ready /\ s1.deliver = s.deliver
<1> DEFINE s1 == [s EXCEPT !.prio[t] = p]
<1>1. /\ s1 \in SchedState /\ SameCpus(s, s1)
      /\ s1.prio = [s.prio EXCEPT ![t] = p] /\ s1.aff = s.aff /\ s1.state = s.state
      /\ s1.cpu = s.cpu /\ s1.ready = s.ready /\ s1.deliver = s.deliver
    BY DEF SchedState, SameCpus
<1>2. ~Occurs(t, s.ready) /\ s.ready \in Seq(Task) /\ s.prio \in [Task -> Nat]
    BY DEF Placed, Linked, SchedState
<1> HIDE DEF s1
<1>3. \A i \in 1 .. Len(s.ready) : s.ready[i] \in Task /\ s1.prio[s.ready[i]] = s.prio[s.ready[i]]
    BY <1>1, <1>2 DEF Occurs
<1>4. QueueOK(s1)
    BY <1>1, <1>3 DEF QueueOK, Descends, Placed
<1>5. \A u \in Task : Linked(s1, u)
    BY <1>1 DEF Placed, Linked, SameCpus
<1> QED
    BY <1>1, <1>4, <1>5 DEF Placed, s1

\* What a call that sets the priority of t to p does.
SetsPriority(s, s2, c, t, p) ==
    /\ Reschedules(s, s2, c)
    /\ s2.prio = [s.prio EXCEPT ![t] = p] /\ s2.aff = s.aff
    /\ \A u \in Task : s2.state[u] = "blocked" <=> s.state[u] = "blocked"

\* nxsched_running_setpriority()
LEMMA RunningSetPriorityStep ==
    ASSUME NEW s \in SchedState, Placed(s), NEW c \in Cpu, NEW t \in Task, NEW p \in Nat,
           s.state[t] # "ready"
    PROVE  SetsPriority(s, RunningSetPriority(s, c, t, p), c, t, p)
<1> DEFINE s1 == [s EXCEPT !.prio[t] = p]
           s2 == RunningSetPriority(s, c, t, p)
<1>1. /\ s1 \in SchedState /\ Placed(s1) /\ SameCpus(s, s1)
      /\ s1.prio = [s.prio EXCEPT ![t] = p] /\ s1.aff = s.aff /\ s1.state = s.state
    BY PrioChanged
<1>2. s2 = DeliverTask(s1, c, s.cpu[t], "equal") \/ s2 = s1
    BY DEF RunningSetPriority
<1>3. s.cpu[t] \in Cpu /\ "equal" \in Deliver
    BY DEF SchedState, Deliver
<1> HIDE DEF s1, s2
<1>4. Reschedules(s1, s2, c) /\ SameTasks(s1, s2)
    BY <1>1, <1>2, <1>3, DeliverTaskStep, NothingDone
<1>5. Reschedules(s, s2, c)
    BY <1>1, <1>4, ReschedulesFrom DEF Reschedules
<1> QED
    BY <1>1, <1>4, <1>5 DEF SetsPriority, SameTasks, s2

\* A ready task taken out of the list, to be added at another priority.
LEMMA TakenOut ==
    ASSUME NEW s \in SchedState, Placed(s), NEW t \in Task, NEW p \in Nat,
           s.state[t] = "ready"
    PROVE  LET s1 == [s EXCEPT !.ready = RemoveFirst(@, t), !.prio[t] = p] IN
           /\ s1 \in SchedState /\ Loose(s1, t) /\ SameCpus(s, s1)
           /\ s1.prio = [s.prio EXCEPT ![t] = p] /\ s1.aff = s.aff /\ s1.state = s.state
           /\ s1.cpu = s.cpu /\ s1.deliver = s.deliver
<1> DEFINE q == RemoveFirst(s.ready, t)
           s1 == [s EXCEPT !.ready = RemoveFirst(@, t), !.prio[t] = p]
<1>1. s.ready \in Seq(Task) /\ s.prio \in [Task -> Nat] /\ QueueOK(s) /\ Occurs(t, s.ready)
    BY DEF Placed, Linked, SchedState
<1>2. /\ q \in Seq(Task) /\ OnceEach(q) /\ Descends(q, s.prio)
      /\ \A u \in Task : Occurs(u, q) <=> Occurs(u, s.ready) /\ u # t
    BY <1>1, RemoveFirstMembers DEF QueueOK
<1>3. s1 = [s EXCEPT !.ready = q, !.prio[t] = p]
    OBVIOUS
<1> HIDE DEF q, s1
<1>4. /\ s1 \in SchedState /\ SameCpus(s, s1) /\ s1.ready = q
      /\ s1.prio = [s.prio EXCEPT ![t] = p] /\ s1.aff = s.aff /\ s1.state = s.state
      /\ s1.cpu = s.cpu /\ s1.deliver = s.deliver
    BY <1>2, <1>3 DEF SchedState, SameCpus
<1>5. \A i \in 1 .. Len(q) : q[i] \in Task /\ s1.prio[q[i]] = s.prio[q[i]]
    <2>1. ~Occurs(t, q)
        BY <1>2
    <2> QED
        BY <1>1, <1>2, <1>4, <2>1 DEF Occurs
<1>6. QueueOK(s1)
    BY <1>2, <1>4, <1>5 DEF QueueOK, Descends
<1>7. Loose(s1, t)
    BY <1>2, <1>4, <1>6 DEF Loose, Placed, Linked, SameCpus
<1> QED
    BY <1>4, <1>7 DEF s1

\* nxsched_readytorun_setpriority()
LEMMA ReadyToRunSetPriorityStep ==
    ASSUME NEW s \in SchedState, Placed(s), NEW c \in Cpu, NEW t \in Task, NEW p \in Nat,
           s.state[t] = "ready"
    PROVE  SetsPriority(s, ReadyToRunSetPriority(s, c, t, p), c, t, p)
<1> DEFINE s1 == [s EXCEPT !.ready = RemoveFirst(@, t), !.prio[t] = p]
           s2 == ReadyToRunSetPriority(s, c, t, p)
<1>1. /\ s1 \in SchedState /\ Loose(s1, t) /\ SameCpus(s, s1)
      /\ s1.prio = [s.prio EXCEPT ![t] = p] /\ s1.aff = s.aff /\ s1.state = s.state
    BY TakenOut
<1>2. s2 = AddReadyToRun(s1, c, t)
    BY DEF ReadyToRunSetPriority
<1> HIDE DEF s1, s2
<1>3. /\ Reschedules(s1, s2, c)
      /\ s2.prio = s1.prio /\ s2.aff = s1.aff
      /\ s2.state[t] # "blocked"
      /\ \A u \in Task \ {t} : s2.state[u] = "blocked" <=> s1.state[u] = "blocked"
    BY <1>1, <1>2, AddReadyToRunStep
<1>4. Reschedules(s, s2, c)
    BY <1>1, <1>3, ReschedulesFrom DEF Reschedules
<1> QED
    BY <1>1, <1>3, <1>4 DEF SetsPriority, s2

\* nxsched_set_priority()
LEMMA SetPriorityStep ==
    ASSUME NEW s \in SchedState, Placed(s), NEW c \in Cpu, NEW t \in Task, NEW p \in Nat
    PROVE  SetsPriority(s, SetPriority(s, c, t, p), c, t, p)
<1>1. CASE s.state[t] = "running"
    BY <1>1, RunningSetPriorityStep DEF SetPriority
<1>2. CASE s.state[t] = "ready"
    BY <1>2, ReadyToRunSetPriorityStep DEF SetPriority
<1>3. CASE s.state[t] \notin {"running", "ready"}
    <2> DEFINE s1 == [s EXCEPT !.prio[t] = p]
    <2>1. SetPriority(s, c, t, p) = s1
        BY <1>3 DEF SetPriority
    <2>2. /\ s1 \in SchedState /\ Placed(s1) /\ SameCpus(s, s1)
          /\ s1.prio = [s.prio EXCEPT ![t] = p] /\ s1.aff = s.aff /\ s1.state = s.state
        BY <1>3, PrioChanged
    <2> HIDE DEF s1
    <2>3. Reschedules(s, s1, c)
        BY <2>2, NothingDone, ReschedulesFrom
    <2> QED
        BY <2>1, <2>2, <2>3 DEF SetsPriority
<1> QED
    BY <1>1, <1>2, <1>3

\* nxsched_set_affinity()
LEMMA MaskChanged ==
    ASSUME NEW s \in SchedState, Placed(s), NEW t \in Task, NEW mask \in (SUBSET Cpu) \ {{}}
    PROVE  LET s1 == [s EXCEPT !.aff[t] = mask] IN
           /\ s1 \in SchedState /\ Placed(s1) /\ SameCpus(s, s1)
           /\ s1.aff = [s.aff EXCEPT ![t] = mask] /\ s1.prio = s.prio /\ s1.state = s.state
           /\ s1.deliver = s.deliver
<1> DEFINE s1 == [s EXCEPT !.aff[t] = mask]
<1>1. /\ s1 \in SchedState /\ SameCpus(s, s1)
      /\ s1.aff = [s.aff EXCEPT ![t] = mask] /\ s1.prio = s.prio /\ s1.state = s.state
      /\ s1.cpu = s.cpu /\ s1.ready = s.ready /\ s1.deliver = s.deliver
    BY DEF SchedState, SameCpus
<1> HIDE DEF s1
<1>2. Placed(s1)
    BY <1>1 DEF Placed, QueueOK, Linked, SameCpus
<1> QED
    BY <1>1, <1>2 DEF s1

LEMMA SetAffinityStep ==
    ASSUME NEW s \in SchedState, Placed(s), NEW c \in Cpu, NEW t \in Task,
           NEW mask \in (SUBSET Cpu) \ {{}}
    PROVE  LET s2 == SetAffinity(s, c, t, mask) IN
           /\ Reschedules(s, s2, c)
           /\ s2.prio = s.prio /\ s2.aff = [s.aff EXCEPT ![t] = mask]
           /\ \A u \in Task : s2.state[u] = "blocked" <=> s.state[u] = "blocked"
<1> DEFINE s1 == [s EXCEPT !.aff[t] = mask]
           s2 == SetAffinity(s, c, t, mask)
<1>1. /\ s1 \in SchedState /\ Placed(s1) /\ SameCpus(s, s1)
      /\ s1.aff = [s.aff EXCEPT ![t] = mask] /\ s1.prio = s.prio /\ s1.state = s.state
    BY MaskChanged
<1>2. s2 = s1 \/ s2 = SetPriority(s1, c, t, s.prio[t])
    BY DEF SetAffinity
<1>3. s.prio \in [Task -> Nat] /\ s.prio[t] \in Nat /\ [s.prio EXCEPT ![t] = s.prio[t]] = s.prio
    BY DEF SchedState
<1> HIDE DEF s1, s2
<1>4. /\ Reschedules(s1, s2, c)
      /\ s2.prio = s1.prio /\ s2.aff = s1.aff
      /\ \A u \in Task : s2.state[u] = "blocked" <=> s1.state[u] = "blocked"
    <2>1. CASE s2 = s1
        BY <2>1, <1>1, NothingDone DEF SameTasks
    <2>2. CASE s2 = SetPriority(s1, c, t, s.prio[t])
        <3>1. SetsPriority(s1, s2, c, t, s.prio[t])
            BY <2>2, <1>1, <1>3, SetPriorityStep
        <3> QED
            BY <3>1, <1>1, <1>3 DEF SetsPriority
    <2> QED
        BY <2>1, <2>2, <1>2
<1>5. Reschedules(s, s2, c)
    <2>1. Reschedules(s1, s2, c) /\ s2 \in SchedState
        BY <1>4 DEF Reschedules
    <2> QED
        BY <1>1, <2>1, ReschedulesFrom
<1> QED
    BY <1>1, <1>4, <1>5 DEF s2

\* The running task of CPU c blocks: nxsched_remove_self() before it looks at the
\* ready list.
SelfOut(s, c, t) == [s EXCEPT !.state[t] = "blocked", !.assigned[c] = Null]

LEMMA SelfRemoved ==
    ASSUME NEW s \in SchedState, Placed(s), NEW c \in Cpu, NEW t \in Task, s.assigned[c] = t
    PROVE  LET s1 == SelfOut(s, c, t) IN
           /\ s1 \in SchedState /\ Placed(s1)
           /\ s1.assigned = [s.assigned EXCEPT ![c] = Null]
           /\ s1.state = [s.state EXCEPT ![t] = "blocked"]
           /\ s1.running = s.running /\ s1.lock = s.lock /\ s1.irqlock = s.irqlock
           /\ s1.irqcount = s.irqcount /\ s1.prio = s.prio /\ s1.aff = s.aff
           /\ s1.deliver = s.deliver
<1> DEFINE s1 == SelfOut(s, c, t)
<1>1. /\ s1 \in SchedState
      /\ s1.assigned = [s.assigned EXCEPT ![c] = Null]
      /\ s1.state = [s.state EXCEPT ![t] = "blocked"]
      /\ s1.running = s.running /\ s1.lock = s.lock /\ s1.irqlock = s.irqlock
      /\ s1.irqcount = s.irqcount /\ s1.prio = s.prio /\ s1.aff = s.aff
      /\ s1.deliver = s.deliver /\ s1.ready = s.ready /\ s1.cpu = s.cpu
    BY DEF SchedState, SelfOut
<1>2. /\ s.assigned \in [Cpu -> Task \cup {Null}]
      /\ s.state \in [Task -> {"running", "ready", "blocked"}]
    BY DEF SchedState
<1> HIDE DEF s1
<1>3. QueueOK(s1)
    BY <1>1 DEF Placed, QueueOK
<1>4. s.state[t] = "running" /\ s.cpu[t] = c
    BY DEF Placed, Linked
<1>5. ASSUME NEW u \in Task
      PROVE  Linked(s1, u)
    <2>1. CASE u = t
        <3>1. \A d \in Cpu : s1.assigned[d] # t
            BY <1>1, <1>2, <1>4, SchedAssumption DEF Placed, Linked
        <3>2. s1.state[t] = "blocked" /\ ~Occurs(t, s1.ready)
            BY <1>1, <1>2, <1>4 DEF Placed, Linked
        <3> QED
            BY <2>1, <3>1, <3>2 DEF Linked
    <2>2. CASE u # t
        <3>1. s1.state[u] = s.state[u] /\ s1.cpu[u] = s.cpu[u] /\ s1.ready = s.ready
            BY <2>2, <1>1, <1>2
        <3>2. \A d \in Cpu : s1.assigned[d] = u <=> s.assigned[d] = u
            BY <2>2, <1>1, <1>2, SchedAssumption
        <3> QED
            BY <3>1, <3>2 DEF Placed, Linked
    <2> QED
        BY <2>1, <2>2
<1> QED
    BY <1>1, <1>3, <1>5 DEF Placed, s1

\* nxsched_remove_self(): the CPU goes to another ready task or to idle.
LEMMA RemoveSelfStep ==
    ASSUME NEW s \in SchedState, Placed(s), NEW c \in Cpu, NEW t \in Task, s.assigned[c] = t
    PROVE  LET s2 == RemoveSelf(s, c) IN
           /\ s2 \in SchedState /\ Placed(s2)
           /\ s2.running = s.running /\ s2.lock = s.lock
           /\ s2.irqlock = s.irqlock /\ s2.irqcount = s.irqcount
           /\ \A d \in Cpu \ {c} : s2.assigned[d] = s.assigned[d]
           /\ s2.assigned[c] # t
           /\ s2.assigned[c] # Null => \A d \in Cpu : s.assigned[d] # s2.assigned[c]
           /\ s2.prio = s.prio /\ s2.aff = s.aff /\ s2.state[t] = "blocked"
           /\ \A u \in Task \ {t} : s2.state[u] = "blocked" <=> s.state[u] = "blocked"
<1> DEFINE s1 == SelfOut(s, c, t)
           s2 == RemoveSelf(s, c)
<1>1. /\ s1 \in SchedState /\ Placed(s1)
      /\ s1.assigned = [s.assigned EXCEPT ![c] = Null]
      /\ s1.state = [s.state EXCEPT ![t] = "blocked"]
      /\ s1.running = s.running /\ s1.lock = s.lock /\ s1.irqlock = s.irqlock
      /\ s1.irqcount = s.irqcount /\ s1.prio = s.prio /\ s1.aff = s.aff
      /\ s1.deliver = s.deliver
    BY SelfRemoved
<1>2. s2 = SwitchRunning(s1, c, FALSE)
    BY DEF RemoveSelf, SelfOut
<1> HIDE DEF s1, s2
<1>3. Reschedules(s1, s2, c) /\ SameTasks(s1, s2)
    BY <1>1, <1>2, SwitchRunningStep
<1>4. /\ s.assigned \in [Cpu -> Task \cup {Null}]
      /\ s.state \in [Task -> {"running", "ready", "blocked"}]
    BY DEF SchedState
<1>5. s2.state[t] = "blocked"
    BY <1>1, <1>3, <1>4 DEF SameTasks
<1>6. s2.assigned[c] # t
    BY <1>3, <1>5 DEF Reschedules, Placed, Linked
<1>7. s1.assigned[c] = Null /\ \A d \in Cpu \ {c} : s1.assigned[d] = s.assigned[d]
    BY <1>1, <1>4
<1>8. s2.assigned[c] # Null => \A d \in Cpu : s.assigned[d] # s2.assigned[c]
    BY <1>3, <1>6, <1>7 DEF Reschedules
<1>9. \A u \in Task \ {t} : s2.state[u] = "blocked" <=> s.state[u] = "blocked"
    BY <1>1, <1>3, <1>4 DEF SameTasks
<1>10. \A d \in Cpu \ {c} : s2.assigned[d] = s.assigned[d]
    BY <1>3, <1>7 DEF Reschedules
<1>11. /\ s2 \in SchedState /\ Placed(s2)
       /\ s2.running = s.running /\ s2.lock = s.lock
       /\ s2.irqlock = s.irqlock /\ s2.irqcount = s.irqcount
       /\ s2.prio = s.prio /\ s2.aff = s.aff
    BY <1>1, <1>3 DEF Reschedules, SameTasks
<1> QED
    BY <1>5, <1>6, <1>8, <1>9, <1>10, <1>11 DEF s2

\* The task that replaces it may run there.
LEMMA RemoveSelfMask ==
    ASSUME NEW s \in SchedState, Placed(s), NEW c \in Cpu, NEW t \in Task, s.assigned[c] = t
    PROVE  LET s2 == RemoveSelf(s, c) IN
           s2.assigned[c] # Null => c \in s2.aff[s2.assigned[c]]
<1> DEFINE s1 == SelfOut(s, c, t)
           s2 == RemoveSelf(s, c)
<1>1. /\ s1 \in SchedState /\ Placed(s1)
      /\ s1.assigned = [s.assigned EXCEPT ![c] = Null]
      /\ s1.state = [s.state EXCEPT ![t] = "blocked"]
      /\ s1.running = s.running /\ s1.lock = s.lock /\ s1.irqlock = s.irqlock
      /\ s1.irqcount = s.irqcount /\ s1.prio = s.prio /\ s1.aff = s.aff
      /\ s1.deliver = s.deliver
    BY SelfRemoved
<1>2. s2 = SwitchRunning(s1, c, FALSE)
    BY DEF RemoveSelf, SelfOut
<1> HIDE DEF s1, s2
<1>3. Reschedules(s1, s2, c)
    BY <1>1, <1>2, SwitchRunningStep
<1>4. s1.assigned[c] = Null
    BY <1>1 DEF SchedState
<1> QED
    BY <1>3, <1>4 DEF Reschedules, s2

\* A changed lock count leaves every task in its place.
LEMMA LockChanged ==
    ASSUME NEW s \in SchedState, Placed(s), NEW t \in Task, NEW n \in {0, 1}
    PROVE  LET s1 == [s EXCEPT !.lock[t] = n] IN
           /\ s1 \in SchedState /\ Placed(s1)
           /\ s1.lock = [s.lock EXCEPT ![t] = n]
           /\ s1.assigned = s.assigned /\ s1.running = s.running /\ s1.irqlock = s.irqlock
           /\ s1.irqcount = s.irqcount /\ s1.prio = s.prio /\ s1.aff = s.aff
           /\ s1.deliver = s.deliver /\ s1.state = s.state /\ s1.ready = s.ready
<1> DEFINE s1 == [s EXCEPT !.lock[t] = n]
<1>1. /\ s1 \in SchedState
      /\ s1.lock = [s.lock EXCEPT ![t] = n]
      /\ s1.assigned = s.assigned /\ s1.running = s.running /\ s1.irqlock = s.irqlock
      /\ s1.irqcount = s.irqcount /\ s1.prio = s.prio /\ s1.aff = s.aff
      /\ s1.deliver = s.deliver /\ s1.state = s.state /\ s1.ready = s.ready
      /\ s1.cpu = s.cpu
    BY DEF SchedState
<1> HIDE DEF s1
<1>2. Placed(s1)
    BY <1>1 DEF Placed, QueueOK, Linked
<1> QED
    BY <1>1, <1>2 DEF s1

\* sched_unlock(): a call on c in the state where t no longer holds the lock.
LEMMA SchedUnlockStep ==
    ASSUME NEW s \in SchedState, Placed(s), NEW c \in Cpu, NEW t \in Task
    PROVE  LET s1 == [s EXCEPT !.lock[t] = 0]
               s2 == SchedUnlock(s, c, t)
           IN  s1 \in SchedState /\ Placed(s1) /\ Reschedules(s1, s2, c) /\ SameTasks(s1, s2)
<1> DEFINE s1 == [s EXCEPT !.lock[t] = 0]
           s2 == SchedUnlock(s, c, t)
<1>1. s1 \in SchedState /\ Placed(s1)
    BY LockChanged
<1>2. s2 = DeliverTask(s1, c, c, "higher") \/ s2 = s1
    BY DEF SchedUnlock
<1>3. "higher" \in Deliver
    BY DEF Deliver
<1> HIDE DEF s1, s2
<1>4. Reschedules(s1, s2, c) /\ SameTasks(s1, s2)
    BY <1>1, <1>2, <1>3, DeliverTaskStep, NothingDone
<1> QED
    BY <1>1, <1>4 DEF s1, s2

\* The note of a CPU is taken.
LEMMA NoteTaken ==
    ASSUME NEW s \in SchedState, Placed(s), NEW c \in Cpu
    PROVE  LET s1 == [s EXCEPT !.deliver[c] = "none"] IN
           /\ s1 \in SchedState /\ Placed(s1) /\ SameCpus(s, s1)
           /\ s1.deliver = [s.deliver EXCEPT ![c] = "none"]
           /\ s1.prio = s.prio /\ s1.aff = s.aff /\ s1.state = s.state /\ s1.ready = s.ready
<1> DEFINE s1 == [s EXCEPT !.deliver[c] = "none"]
<1>1. /\ s1 \in SchedState /\ SameCpus(s, s1)
      /\ s1.deliver = [s.deliver EXCEPT ![c] = "none"]
      /\ s1.prio = s.prio /\ s1.aff = s.aff /\ s1.state = s.state /\ s1.ready = s.ready
      /\ s1.cpu = s.cpu
    BY DEF SchedState, SameCpus, Deliver
<1> HIDE DEF s1
<1>2. Placed(s1)
    BY <1>1 DEF Placed, QueueOK, Linked, SameCpus
<1> QED
    BY <1>1, <1>2 DEF s1

\* nxsched_process_delivered() has three outcomes.
LEMMA ProcessDeliveredCases ==
    ASSUME NEW s \in SchedState, Placed(s), NEW c \in Cpu
    PROVE  LET s1 == [s EXCEPT !.deliver[c] = "none"]
               s2 == ProcessDelivered(s, c)
           IN  \/ s2 = SwitchRunning(s1, c, s.deliver[c] = "equal")
               \/ /\ s1 = SwitchRunning(s1, c, s.deliver[c] = "equal")
                  /\ \E target \in Cpu \ {c} : s2 = DeliverTask(s1, c, target, s.deliver[c])
<1> DEFINE s1 == [s EXCEPT !.deliver[c] = "none"]
           s2 == ProcessDelivered(s, c)
           after == SwitchRunning(s1, c, s.deliver[c] = "equal")
           first == Head(s.ready)
           target == SelectCpu(s1, s.aff[first])
<1>1. s2 = IF after # s1 THEN after
           ELSE IF s.ready # <<>> /\ target # c /\ PrioOn(s, target) < s.prio[first]
                THEN DeliverTask(s1, c, target, s.deliver[c]) ELSE s1
    BY DEF ProcessDelivered
<1>2. s1 \in SchedState
    BY NoteTaken
<1>3. s.ready # <<>> => target \in Cpu
    <2> SUFFICES ASSUME s.ready # <<>> PROVE target \in Cpu
        OBVIOUS
    <2>1. first \in Task /\ s.aff[first] \in (SUBSET Cpu) \ {{}}
        BY DEF SchedState
    <2> HIDE DEF s1, first
    <2> QED
        BY <1>2, <2>1, SelectCpuInMask
<1> HIDE DEF s1, s2, after, first, target
<1>4. s2 = after \/ (s1 = after /\ \E d \in Cpu \ {c} : s2 = DeliverTask(s1, c, d, s.deliver[c]))
    BY <1>1, <1>3
<1> QED
    BY <1>4 DEF s1, s2, after

LEMMA ProcessDeliveredStep ==
    ASSUME NEW s \in SchedState, Placed(s), NEW c \in Cpu
    PROVE  /\ Reschedules(s, ProcessDelivered(s, c), c)
           /\ SameTasks(s, ProcessDelivered(s, c))
<1> DEFINE s1 == [s EXCEPT !.deliver[c] = "none"]
           s2 == ProcessDelivered(s, c)
           how == s.deliver[c]
<1>1. /\ s1 \in SchedState /\ Placed(s1) /\ SameCpus(s, s1)
      /\ s1.prio = s.prio /\ s1.aff = s.aff /\ s1.state = s.state
    BY NoteTaken
<1>2. how \in Deliver /\ (how = "equal") \in BOOLEAN
    BY DEF SchedState
<1>3. \/ s2 = SwitchRunning(s1, c, how = "equal")
      \/ \E target \in Cpu \ {c} : s2 = DeliverTask(s1, c, target, how)
    BY ProcessDeliveredCases
<1> HIDE DEF s1, s2, how
<1>4. Reschedules(s1, s2, c) /\ SameTasks(s1, s2)
    BY <1>1, <1>2, <1>3, SwitchRunningStep, DeliverTaskStep
<1>5. Reschedules(s, s2, c)
    BY <1>1, <1>4, ReschedulesFrom DEF Reschedules
<1> QED
    BY <1>1, <1>4, <1>5 DEF SameTasks, s2

-----------------------------------------------------------------------------
(* Critical sections and context switches: running, irqlock and irqcount.  *)

\* Only those three fields differ.
SameSched(s, s2) ==
    /\ s2 \in SchedState
    /\ s2.ready = s.ready /\ s2.assigned = s.assigned /\ s2.state = s.state
    /\ s2.prio = s.prio /\ s2.lock = s.lock /\ s2.cpu = s.cpu /\ s2.aff = s.aff
    /\ s2.deliver = s.deliver

LEMMA SameSchedPlaced ==
    ASSUME NEW s, NEW s2, SameSched(s, s2), Placed(s)
    PROVE  Placed(s2)
BY DEF SameSched, Placed, QueueOK, Linked

LEMMA TaskCallFields ==
    ASSUME NEW s \in SchedState, NEW c \in Cpu, NEW s1 \in SchedState,
           s.assigned[c] \in Task
    PROVE  LET s2 == TaskCall(s, c, s1) IN
           /\ SameSched(s1, s2)
           /\ s2.running = s1.running
           /\ s1.assigned[c] = s.assigned[c] =>
                s2.irqlock = s1.irqlock /\ s2.irqcount = s1.irqcount
           /\ s1.assigned[c] # s.assigned[c] =>
                s2.irqlock = c /\ s2.irqcount = [s1.irqcount EXCEPT ![s.assigned[c]] = 1]
<1>1. CASE s1.assigned[c] = s.assigned[c]
    BY <1>1 DEF TaskCall, SameSched
<1>2. CASE s1.assigned[c] # s.assigned[c]
    <2> DEFINE t == s.assigned[c]
               s2 == [s1 EXCEPT !.irqlock = c, !.irqcount[t] = 1]
    <2>1. TaskCall(s, c, s1) = s2 /\ t \in Task
        BY <1>2 DEF TaskCall
    <2> HIDE DEF t
    <2>2. /\ SameSched(s1, s2) /\ s2.running = s1.running
          /\ s2.irqlock = c /\ s2.irqcount = [s1.irqcount EXCEPT ![t] = 1]
        BY <2>1 DEF SameSched, SchedState
    <2> HIDE DEF s2
    <2> QED
        BY <1>2, <2>1, <2>2 DEF t
<1> QED
    BY <1>1, <1>2

LEMMA IrqCallFields ==
    ASSUME NEW s \in SchedState, NEW c \in Cpu
    PROVE  LET s2 == IrqCall(s, c) IN
           /\ SameSched(s, s2)
           /\ s2.running = s.running /\ s2.irqcount = s.irqcount
           /\ s2.irqlock = IF s.assigned[c] # Null /\ s.irqcount[s.assigned[c]] > 0 THEN c ELSE NoCpu
BY DEF IrqCall, SameSched, SchedState

LEMMA LeaveSectionFields ==
    ASSUME NEW s \in SchedState, NEW t \in Task
    PROVE  LET s2 == LeaveSection(s, t) IN
           /\ SameSched(s, s2)
           /\ s2.running = s.running /\ s2.irqcount = [s.irqcount EXCEPT ![t] = 0]
           /\ s2.irqlock = NoCpu
BY DEF LeaveSection, SameSched, SchedState

LEMMA EndSyscallFields ==
    ASSUME NEW s \in SchedState, NEW c \in Cpu
    PROVE  LET s2 == EndSyscall(s, c) IN
           /\ SameSched(s, s2)
           /\ s2.running = [s.running EXCEPT ![c] = s.assigned[c]] /\ s2.irqcount = s.irqcount
           /\ s2.irqlock =
                IF ~(s.assigned[c] # Null /\ s.irqcount[s.assigned[c]] > 0) /\ s.irqlock = c
                THEN NoCpu ELSE s.irqlock
BY DEF EndSyscall, SameSched, SchedState

LEMMA EndInterruptFields ==
    ASSUME NEW s \in SchedState, NEW c \in Cpu
    PROVE  LET s2 == EndInterrupt(s, c) IN
           /\ SameSched(s, s2)
           /\ s2.running = [s.running EXCEPT ![c] = s.assigned[c]]
           /\ s2.irqcount = s.irqcount /\ s2.irqlock = s.irqlock
BY DEF EndInterrupt, SameSched, SchedState

LEMMA SchedInitFacts ==
    ASSUME NEW p \in [Task -> Nat], NEW m \in [Task -> (SUBSET Cpu) \ {{}}]
    PROVE  SchedInit(p, m) \in SchedState /\ Placed(SchedInit(p, m))
<1>1. 0 \in Cpu
    BY SchedAssumption DEF Cpu
<1>2. SchedInit(p, m) \in SchedState
    BY <1>1 DEF SchedInit, SchedState, Deliver
<1>3. Placed(SchedInit(p, m))
    BY SchedAssumption DEF SchedInit, Placed, QueueOK, OnceEach, Descends, Linked, Occurs
<1> QED
    BY <1>2, <1>3

=============================================================================
