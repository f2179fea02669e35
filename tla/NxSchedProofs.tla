--------------------------- MODULE NxSchedProofs ----------------------------
(***************************************************************************)
(* The SMP scheduler, for every number of tasks, CPUs, priorities and      *)
(* masks: every task is where its task_state says, the critical section    *)
(* belongs to the CPU whose task is inside it, a task under sched_lock()   *)
(* keeps its CPU, and a CPU that runs something lower than a ready task    *)
(* pinned to it has been told.                                             *)
(***************************************************************************)
EXTENDS NxSchedSpec, NxSchedLemmas

-----------------------------------------------------------------------------
(* The ready tasks a CPU owes its time to. *)

\* u runs only where its mask allows; and CPU d has a note, may not be preempted,
\* or runs nothing lower than u if u is ready and pinned to it.
Allowed(s, u) == \A d \in Cpu : s.assigned[d] = u => d \in s.aff[u]
Served(s, d, u) ==
    \/ s.deliver[d] # "none"
    \/ Locked(s, d)
    \/ s.state[u] = "ready" /\ s.aff[u] = {d} => s.prio[u] <= PrioOn(s, d)
Kept(s, u) == Allowed(s, u) /\ \A d \in Cpu : Served(s, d, u)

\* A call on c that changes no priority and no mask changes nothing for the
\* CPUs other than c, whose notes it keeps.
LEMMA OtherCpus ==
    ASSUME NEW s \in SchedState, Placed(s), NEW s2, NEW c \in Cpu, NEW u \in Task,
           Reschedules(s, s2, c), SameTasks(s, s2), Allowed(s, u)
    PROVE  /\ Allowed(s2, u)
           /\ \A d \in Cpu \ {c} : s2.deliver[d] = s.deliver[d] /\ Served(s, d, u)
                                     => Served(s2, d, u)
<1>1. /\ s2 \in SchedState /\ Placed(s2) /\ s2.lock = s.lock
      /\ \A d \in Cpu \ {c} : s2.assigned[d] = s.assigned[d]
      /\ s2.assigned[c] # s.assigned[c] => c \in s2.aff[s2.assigned[c]]
      /\ s2.prio = s.prio /\ s2.aff = s.aff
      /\ s2.state[u] = "blocked" <=> s.state[u] = "blocked"
    BY DEF Reschedules, SameTasks
<1>2. Allowed(s2, u)
    BY <1>1 DEF Allowed
<1>3. ASSUME NEW d \in Cpu \ {c}, s2.deliver[d] = s.deliver[d], Served(s, d, u)
      PROVE  Served(s2, d, u)
    <2>1. PrioOn(s2, d) = PrioOn(s, d) /\ (Locked(s2, d) <=> Locked(s, d))
        BY <1>1 DEF PrioOn, Locked
    <2>2. s2.state[u] = "ready" /\ s2.aff[u] = {d} => s.state[u] = "ready"
        <3> SUFFICES ASSUME s2.state[u] = "ready", s2.aff[u] = {d}, s.state[u] # "ready"
                     PROVE  FALSE
            OBVIOUS
        <3>1. s.state[u] = "running" /\ s.cpu[u] \in Cpu
            BY <1>1 DEF SchedState
        <3>2. s.assigned[s.cpu[u]] = u
            BY <3>1 DEF Placed, Linked
        <3>3. s.cpu[u] = d
            BY <3>1, <3>2, <1>1 DEF Allowed
        <3>4. s2.assigned[d] = u
            BY <3>2, <3>3, <1>1
        <3> QED
            BY <3>4, <1>1 DEF Placed, Linked
    <2> QED
        BY <1>1, <1>3, <2>1, <2>2 DEF Served
<1> QED
    BY <1>2, <1>3

LEMMA SwitchRunningKeeps ==
    ASSUME NEW s \in SchedState, Placed(s), NEW c \in Cpu, NEW equal \in BOOLEAN, NEW u \in Task,
           Allowed(s, u), \A d \in Cpu \ {c} : Served(s, d, u)
    PROVE  Kept(SwitchRunning(s, c, equal), u)
<1> DEFINE s2 == SwitchRunning(s, c, equal)
<1>1. Reschedules(s, s2, c) /\ SameTasks(s, s2) /\ s2.deliver = s.deliver
    BY SwitchRunningStep
<1>2. \/ Locked(s, c) /\ s2 = s
      \/ \A v \in Task : s2.state[v] = "ready" /\ c \in s2.aff[v] => s2.prio[v] <= PrioOn(s2, c)
    BY SwitchRunningServes
<1> HIDE DEF s2
<1>3. Served(s2, c, u)
    BY <1>2 DEF Served
<1>4. Allowed(s2, u) /\ \A d \in Cpu \ {c} : Served(s2, d, u)
    BY <1>1, OtherCpus
<1> QED
    BY <1>3, <1>4 DEF Kept, s2

\* nxsched_deliver_task() makes the target CPU see to its ready tasks.
LEMMA DeliverTaskKeeps ==
    ASSUME NEW s \in SchedState, Placed(s), NEW c \in Cpu, NEW target \in Cpu,
           NEW how \in {"higher", "equal"}, NEW u \in Task,
           Allowed(s, u), \A d \in Cpu \ {target} : Served(s, d, u)
    PROVE  Kept(DeliverTask(s, c, target, how), u)
<1>1. CASE s.deliver[target] = how
    BY <1>1 DEF DeliverTask, Kept, Served
<1>2. CASE s.deliver[target] # how /\ c = target
    <2>1. DeliverTask(s, c, target, how) = SwitchRunning(s, c, how = "equal")
        BY <1>2 DEF DeliverTask
    <2>2. (how = "equal") \in BOOLEAN
        OBVIOUS
    <2> QED
        BY <1>2, <2>1, <2>2, SwitchRunningKeeps
<1>3. CASE s.deliver[target] # how /\ c # target
    <2> DEFINE s2 == [s EXCEPT !.deliver[target] = how]
    <2>1. DeliverTask(s, c, target, how) = s2
        BY <1>3 DEF DeliverTask
    <2>2. /\ s2.assigned = s.assigned /\ s2.prio = s.prio /\ s2.lock = s.lock /\ s2.aff = s.aff
          /\ s2.state = s.state
          /\ s2.deliver[target] = how /\ \A d \in Cpu \ {target} : s2.deliver[d] = s.deliver[d]
        BY DEF SchedState
    <2> HIDE DEF s2
    <2>3. Allowed(s2, u) /\ Served(s2, target, u)
        BY <2>2 DEF Allowed, Served
    <2>4. \A d \in Cpu \ {target} : Served(s2, d, u)
        BY <2>2 DEF Served, Locked, PrioOn
    <2> QED
        BY <2>1, <2>3, <2>4 DEF Kept
<1> QED
    BY <1>1, <1>2, <1>3

\* nxsched_add_readytorun() tells the CPU of the task it adds.
LEMMA AddReadyToRunKeeps ==
    ASSUME NEW s \in SchedState, NEW c \in Cpu, NEW t \in Task, Loose(s, t), NEW u \in Task,
           u # t => Kept(s, u)
    PROVE  Kept(AddReadyToRun(s, c, t), u)
<1> DEFINE target == SelectCpu(s, s.aff[t])
           added == [AddPrioritized([s EXCEPT !.state[t] = "ready"], t) EXCEPT !.cpu[t] = target]
           s2 == AddReadyToRun(s, c, t)
<1>1. /\ target \in Cpu /\ target \in s.aff[t]
      /\ s.state \in [Task -> {"running", "ready", "blocked"}]
      /\ s.prio \in [Task -> Nat]
    BY SelectCpuInMask DEF SchedState
<1>2. s2 = IF PrioOn(s, target) < s.prio[t] THEN DeliverTask(added, c, target, "higher") ELSE added
    BY DEF AddReadyToRun
<1>3. /\ added.assigned = s.assigned /\ added.prio = s.prio /\ added.lock = s.lock
      /\ added.aff = s.aff /\ added.deliver = s.deliver
      /\ added.state = [s.state EXCEPT ![t] = "ready"]
    BY DEF AddPrioritized, SchedState
<1>4. added \in SchedState /\ Placed(added)
    BY AddedPlaced
<1> HIDE DEF s2, added, target
<1>5. Allowed(added, u)
    BY <1>3 DEF Loose, Kept, Allowed
<1>6. \A d \in Cpu \ {target} : Served(added, d, u)
    <2>1. CASE u = t
        BY <2>1, <1>1, <1>3 DEF Served
    <2>2. CASE u # t
        BY <2>2, <1>1, <1>3 DEF Kept, Served, Locked, PrioOn
    <2> QED
        BY <2>1, <2>2
<1>7. CASE PrioOn(s, target) < s.prio[t]
    BY <1>1, <1>2, <1>4, <1>5, <1>6, <1>7, DeliverTaskKeeps DEF s2
<1>8. CASE ~(PrioOn(s, target) < s.prio[t])
    <2>1. PrioOn(added, target) = PrioOn(s, target) /\ PrioOn(s, target) \in Nat
        BY <1>1, <1>3, PrioOnType DEF PrioOn
    <2>2. Served(added, target, u)
        <3>1. CASE u = t
            BY <3>1, <1>1, <1>3, <1>8, <2>1 DEF Served
        <3>2. CASE u # t
            BY <3>2, <1>1, <1>3 DEF Kept, Served, Locked, PrioOn
        <3> QED
            BY <3>1, <3>2
    <2> QED
        BY <1>2, <1>5, <1>6, <1>8, <2>2 DEF Kept, s2
<1> QED
    BY <1>7, <1>8

LEMMA SetPriorityKeeps ==
    ASSUME NEW s \in SchedState, Placed(s), NEW c \in Cpu, NEW t \in Task, NEW p \in Nat,
           NEW u \in Task, Kept(s, u)
    PROVE  Kept(SetPriority(s, c, t, p), u)
<1> DEFINE s1 == [s EXCEPT !.prio[t] = p]
           s2 == SetPriority(s, c, t, p)
<1>1. s.state \in [Task -> {"running", "ready", "blocked"}] /\ s.prio \in [Task -> Nat]
    BY DEF SchedState
<1>2. CASE s.state[t] = "ready"
    <2> DEFINE out == [s EXCEPT !.ready = RemoveFirst(@, t), !.prio[t] = p]
    <2>1. /\ out \in SchedState /\ Loose(out, t) /\ SameCpus(s, out)
          /\ out.prio = [s.prio EXCEPT ![t] = p] /\ out.aff = s.aff /\ out.state = s.state
          /\ out.cpu = s.cpu /\ out.deliver = s.deliver
        BY <1>2, TakenOut
    <2>2. s2 = AddReadyToRun(out, c, t)
        BY <1>2 DEF SetPriority, ReadyToRunSetPriority
    <2> HIDE DEF out, s2
    <2>3. \A d \in Cpu : s.assigned[d] # t /\ out.assigned[d] = s.assigned[d]
        BY <2>1, <1>2 DEF Placed, Linked, SameCpus
    <2>4. \A d \in Cpu : PrioOn(out, d) = PrioOn(s, d) /\ (Locked(out, d) <=> Locked(s, d))
        BY <1>1, <2>1, <2>3 DEF PrioOn, Locked, SameCpus
    <2>5. u # t => Kept(out, u)
        BY <1>1, <2>1, <2>3, <2>4 DEF Kept, Allowed, Served
    <2> QED
        BY <2>1, <2>2, <2>5, AddReadyToRunKeeps DEF s2
<1>3. CASE s.state[t] # "ready"
    <2>1. /\ s1 \in SchedState /\ Placed(s1) /\ SameCpus(s, s1)
          /\ s1.prio = [s.prio EXCEPT ![t] = p] /\ s1.aff = s.aff /\ s1.state = s.state
          /\ s1.cpu = s.cpu /\ s1.ready = s.ready /\ s1.deliver = s.deliver
        BY <1>3, PrioChanged
    <2>2. \/ s.state[t] = "blocked" /\ s2 = s1
          \/ /\ s.state[t] = "running"
             /\ s2 = IF /\ s.ready # <<>>
                        /\ p <= s.prio[Head(s.ready)] \/ s.cpu[t] \notin s.aff[t]
                     THEN DeliverTask(s1, c, s.cpu[t], "equal")
                     ELSE s1
        BY <1>1, <1>3 DEF SetPriority, RunningSetPriority
    <2> HIDE DEF s1, s2
    <2>3. Allowed(s1, u)
        BY <2>1 DEF Kept, Allowed, SameCpus
    <2>4. ASSUME NEW d \in Cpu, s.assigned[d] # t
          PROVE  Served(s1, d, u)
        <3>1. PrioOn(s1, d) = PrioOn(s, d) /\ (Locked(s1, d) <=> Locked(s, d))
            BY <1>1, <2>1, <2>4 DEF PrioOn, Locked, SameCpus, SchedState
        <3>2. s1.state[u] = "ready" => s1.prio[u] = s.prio[u]
            BY <1>1, <1>3, <2>1
        <3> QED
            BY <2>1, <3>1, <3>2 DEF Kept, Served
    <2>5. CASE s.state[t] = "blocked"
        <3>1. \A d \in Cpu : s.assigned[d] # t
            BY <2>5 DEF Placed, Linked
        <3> QED
            BY <2>2, <2>3, <2>4, <2>5, <3>1 DEF Kept, s2
    <2>6. CASE s.state[t] = "running"
        <3>1. s.cpu[t] \in Cpu /\ s.assigned[s.cpu[t]] = t
            BY <2>6 DEF SchedState, Placed, Linked
        <3>2. \A d \in Cpu \ {s.cpu[t]} : s.assigned[d] # t
            BY <2>6 DEF Placed, Linked
        <3>3. \A d \in Cpu \ {s.cpu[t]} : Served(s1, d, u)
            BY <2>4, <3>2
        <3>4. CASE s2 = DeliverTask(s1, c, s.cpu[t], "equal")
            BY <2>1, <2>3, <3>1, <3>3, <3>4, DeliverTaskKeeps DEF s2
        <3>5. CASE s2 = s1 /\ (s.ready = <<>> \/ ~(p <= s.prio[Head(s.ready)]))
            <4>1. PrioOn(s1, s.cpu[t]) = p
                BY <1>1, <2>1, <3>1, SchedAssumption DEF PrioOn, SameCpus
            <4>2. s.state[u] = "ready" => s1.prio[u] = s.prio[u] /\ s.prio[u] < p
                <5> SUFFICES ASSUME s.state[u] = "ready"
                             PROVE  s1.prio[u] = s.prio[u] /\ s.prio[u] < p
                    OBVIOUS
                <5>1. s.ready \in Seq(Task) /\ Descends(s.ready, s.prio)
                    BY DEF SchedState, Placed, QueueOK
                <5>2. PICK i \in 1 .. Len(s.ready) : s.ready[i] = u
                    BY DEF Placed, Linked, Occurs
                <5>3. /\ 1 \in 1 .. Len(s.ready) /\ s.ready # <<>>
                      /\ Head(s.ready) = s.ready[1] /\ s.ready[1] \in Task
                    BY <5>1, <5>2
                <5>4. s.prio[s.ready[1]] >= s.prio[u]
                    <6>1. i = 1 \/ 1 < i
                        BY <5>2
                    <6> QED
                        BY <1>1, <5>1, <5>2, <5>3, <6>1 DEF Descends
                <5>5. u # t
                    BY <1>3
                <5> QED
                    BY <1>1, <2>1, <3>5, <5>3, <5>4, <5>5
            <4>3. Served(s1, s.cpu[t], u)
                BY <1>1, <2>1, <4>1, <4>2 DEF Served
            <4> QED
                BY <2>3, <3>3, <3>5, <4>3 DEF Kept, s2
        <3> QED
            BY <2>2, <2>6, <3>4, <3>5
    <2> QED
        BY <2>2, <2>5, <2>6
<1> QED
    BY <1>2, <1>3

LEMMA SetAffinityKeeps ==
    ASSUME NEW s \in SchedState, Placed(s), NEW c \in Cpu, NEW t \in Task,
           NEW mask \in (SUBSET Cpu) \ {{}}, NEW u \in Task, u # t, Kept(s, u)
    PROVE  Kept(SetAffinity(s, c, t, mask), u)
<1> DEFINE s1 == [s EXCEPT !.aff[t] = mask]
           s2 == SetAffinity(s, c, t, mask)
<1>1. /\ s1 \in SchedState /\ Placed(s1) /\ SameCpus(s, s1)
      /\ s1.aff = [s.aff EXCEPT ![t] = mask] /\ s1.prio = s.prio /\ s1.state = s.state
      /\ s1.deliver = s.deliver
    BY MaskChanged
<1>2. s2 = s1 \/ s2 = SetPriority(s1, c, t, s.prio[t])
    BY DEF SetAffinity
<1>3. s.aff \in [Task -> (SUBSET Cpu) \ {{}}] /\ s.prio[t] \in Nat
    BY DEF SchedState
<1> HIDE DEF s1, s2
<1>4. s1.aff[u] = s.aff[u]
    BY <1>1, <1>3
<1>5. Kept(s1, u)
    BY <1>1, <1>4 DEF Kept, Allowed, Served, Locked, PrioOn, SameCpus
<1> QED
    BY <1>1, <1>2, <1>3, <1>5, SetPriorityKeeps DEF s2

LEMMA RemoveSelfKeeps ==
    ASSUME NEW s \in SchedState, Placed(s), NEW c \in Cpu, NEW t \in Task, s.assigned[c] = t,
           NEW u \in Task, Kept(s, u)
    PROVE  Kept(RemoveSelf(s, c), u)
<1> DEFINE s1 == SelfOut(s, c, t)
           s2 == RemoveSelf(s, c)
<1>1. /\ s1 \in SchedState /\ Placed(s1)
      /\ s1.assigned = [s.assigned EXCEPT ![c] = Null]
      /\ s1.state = [s.state EXCEPT ![t] = "blocked"]
      /\ s1.running = s.running /\ s1.lock = s.lock /\ s1.irqlock = s.irqlock
      /\ s1.irqcount = s.irqcount /\ s1.prio = s.prio /\ s1.aff = s.aff
      /\ s1.deliver = s.deliver
    BY SelfRemoved
<1>2. s2 = SwitchRunning(s1, c, FALSE)
    BY DEF RemoveSelf, SelfOut
<1>3. /\ s.assigned \in [Cpu -> Task \cup {Null}]
      /\ s.state \in [Task -> {"running", "ready", "blocked"}]
    BY DEF SchedState
<1> HIDE DEF s1, s2
<1>4. s1.assigned[c] = Null /\ \A d \in Cpu \ {c} : s1.assigned[d] = s.assigned[d]
    BY <1>1, <1>3
<1>5. s1.state[u] = "ready" => s.state[u] = "ready"
    BY <1>1, <1>3
<1>6. Allowed(s1, u)
    BY <1>1, <1>4, SchedAssumption DEF Kept, Allowed
<1>7. \A d \in Cpu \ {c} : Served(s1, d, u)
    BY <1>1, <1>4, <1>5 DEF Kept, Served, Locked, PrioOn
<1>8. Kept(SwitchRunning(s1, c, FALSE), u)
    BY <1>1, <1>6, <1>7, SwitchRunningKeeps
<1> QED
    BY <1>2, <1>8 DEF s2

LEMMA SchedUnlockKeeps ==
    ASSUME NEW s \in SchedState, Placed(s), NEW c \in Cpu, NEW t \in Task, s.assigned[c] = t,
           NEW u \in Task, Kept(s, u)
    PROVE  Kept(SchedUnlock(s, c, t), u)
<1> DEFINE s1 == [s EXCEPT !.lock[t] = 0]
           s2 == SchedUnlock(s, c, t)
<1>1. /\ s1 \in SchedState /\ Placed(s1)
      /\ s1.lock = [s.lock EXCEPT ![t] = 0]
      /\ s1.assigned = s.assigned /\ s1.running = s.running /\ s1.irqlock = s.irqlock
      /\ s1.irqcount = s.irqcount /\ s1.prio = s.prio /\ s1.aff = s.aff
      /\ s1.deliver = s.deliver /\ s1.state = s.state /\ s1.ready = s.ready
    BY LockChanged
<1>2. s2 = IF s.ready # <<>> /\ s.prio[Head(s.ready)] > s.prio[t]
           THEN DeliverTask(s1, c, c, "higher") ELSE s1
    BY DEF SchedUnlock
<1>3. /\ s.assigned \in [Cpu -> Task \cup {Null}] /\ s.lock \in [Task -> {0, 1}]
      /\ s.prio \in [Task -> Nat] /\ s.ready \in Seq(Task) /\ Descends(s.ready, s.prio)
    BY DEF SchedState, Placed, QueueOK
<1> HIDE DEF s1, s2
<1>4. Allowed(s1, u)
    BY <1>1 DEF Kept, Allowed
<1>5. ASSUME NEW d \in Cpu \ {c}
      PROVE  Served(s1, d, u)
    <2>1. s.assigned[d] # t
        BY DEF Placed, Linked
    <2>2. Locked(s1, d) <=> Locked(s, d)
        BY <1>1, <1>3, <2>1 DEF Locked
    <2> QED
        BY <1>1, <2>2 DEF Kept, Served, PrioOn
<1>6. CASE s2 = DeliverTask(s1, c, c, "higher")
    BY <1>1, <1>4, <1>5, <1>6, DeliverTaskKeeps DEF s2
<1>7. CASE s2 = s1 /\ (s.ready = <<>> \/ ~(s.prio[Head(s.ready)] > s.prio[t]))
    <2>1. PrioOn(s1, c) = s.prio[t]
        BY <1>1, SchedAssumption DEF PrioOn
    <2>2. s.state[u] = "ready" => s.prio[u] <= s.prio[t]
        <3> SUFFICES ASSUME s.state[u] = "ready"
                     PROVE  s.prio[u] <= s.prio[t]
            OBVIOUS
        <3>1. PICK i \in 1 .. Len(s.ready) : s.ready[i] = u
            BY DEF Placed, Linked, Occurs
        <3>2. /\ 1 \in 1 .. Len(s.ready) /\ s.ready # <<>>
              /\ Head(s.ready) = s.ready[1] /\ s.ready[1] \in Task
            BY <1>3, <3>1
        <3>3. s.prio[s.ready[1]] >= s.prio[u]
            <4>1. i = 1 \/ 1 < i
                BY <3>1
            <4> QED
                BY <1>3, <3>1, <3>2, <4>1 DEF Descends
        <3> QED
            BY <1>3, <1>7, <3>2, <3>3
    <2>3. Served(s1, c, u)
        BY <1>1, <2>1, <2>2 DEF Served
    <2> QED
        BY <1>4, <1>5, <1>7, <2>3 DEF Kept, s2
<1> QED
    BY <1>2, <1>6, <1>7

LEMMA ProcessDeliveredKeeps ==
    ASSUME NEW s \in SchedState, Placed(s), NEW c \in Cpu, s.deliver[c] # "none",
           NEW u \in Task, Kept(s, u)
    PROVE  Kept(ProcessDelivered(s, c), u)
<1> DEFINE s1 == [s EXCEPT !.deliver[c] = "none"]
           s2 == ProcessDelivered(s, c)
           how == s.deliver[c]
           after == SwitchRunning(s1, c, how = "equal")
<1>1. /\ s1 \in SchedState /\ Placed(s1) /\ SameCpus(s, s1)
      /\ s1.deliver = [s.deliver EXCEPT ![c] = "none"]
      /\ s1.prio = s.prio /\ s1.aff = s.aff /\ s1.state = s.state /\ s1.ready = s.ready
    BY NoteTaken
<1>2. how \in {"higher", "equal"} /\ s.deliver \in [Cpu -> Deliver]
    BY DEF SchedState, Deliver
<1>3. \/ s2 = after
      \/ s1 = after /\ \E target \in Cpu \ {c} : s2 = DeliverTask(s1, c, target, how)
    BY ProcessDeliveredCases
<1> HIDE DEF s1, s2, how
<1>4. Allowed(s1, u) /\ \A d \in Cpu \ {c} : Served(s1, d, u)
    BY <1>1, <1>2 DEF Kept, Allowed, Served, Locked, PrioOn, SameCpus
<1>5. Kept(after, u)
    <2>1. (how = "equal") \in BOOLEAN
        OBVIOUS
    <2> QED
        BY <1>1, <1>4, <2>1, SwitchRunningKeeps
<1> HIDE DEF after
<1>6. CASE s2 = after
    BY <1>5, <1>6 DEF s2
<1>7. CASE s1 = after /\ \E target \in Cpu \ {c} : s2 = DeliverTask(s1, c, target, how)
    <2>1. Kept(s1, u)
        BY <1>5, <1>7
    <2> QED
        BY <1>1, <1>2, <1>7, <2>1, DeliverTaskKeeps DEF Kept, s2
<1> QED
    BY <1>3, <1>6, <1>7

-----------------------------------------------------------------------------
(* The inductive invariant. *)

\* A task that has locked the scheduler has a CPU.
LockedRun(s) == \A t \in Task : s.lock[t] > 0 => s.state[t] = "running"

Sections(s) ==
    \A c \in Cpu : s.assigned[c] # Null /\ s.irqcount[s.assigned[c]] > 0 => s.irqlock = c

StateOK(s) ==
    /\ s \in SchedState
    /\ s.prio \in [Task -> Prio] /\ s.aff \in [Task -> Mask \cup NewMask]
    /\ Placed(s)
    /\ LockedRun(s)
    /\ \A u \in Task \ Movable : Kept(s, u)

SchedInv ==
    /\ StateOK(sch)
    /\ Sections(sch)
    /\ level \in [Cpu -> {"task", "isr", "svc"}]

\* What a scheduler call on CPU c leaves behind in a state s.
KeepsLocked(s, s2) ==
    \A d \in Cpu : Locked(s, d) => s2.assigned[d] = s.assigned[d] \/ ~Locked(s2, d)

CallOK(s, s2, c) ==
    /\ StateOK(s2)
    /\ s2.running = s.running /\ s2.irqlock = s.irqlock /\ s2.irqcount = s.irqcount
    /\ \A d \in Cpu \ {c} : s2.assigned[d] = s.assigned[d]
    /\ KeepsLocked(s, s2)

LEMMA PrioNat == Prio \subseteq Nat
BY SpecAssumption

LEMMA RescheduledOK ==
    ASSUME NEW s, StateOK(s), NEW c \in Cpu, NEW s2, Reschedules(s, s2, c),
           s2.prio \in [Task -> Prio], s2.aff \in [Task -> Mask \cup NewMask],
           \A u \in Task \ Movable : Kept(s2, u)
    PROVE  CallOK(s, s2, c)
<1>1. /\ s2 \in SchedState /\ Placed(s2)
      /\ s2.running = s.running /\ s2.lock = s.lock
      /\ s2.irqlock = s.irqlock /\ s2.irqcount = s.irqcount
      /\ \A d \in Cpu \ {c} : s2.assigned[d] = s.assigned[d]
      /\ s2.assigned[c] # s.assigned[c] => ~Locked(s, c)
    BY DEF Reschedules
<1>2. s \in SchedState /\ Placed(s) /\ LockedRun(s)
    BY DEF StateOK
<1>3. \A d \in Cpu : Locked(s, d) => s2.assigned[d] = s.assigned[d]
    BY <1>1
<1>4. ASSUME NEW t \in Task, s2.lock[t] > 0
      PROVE  s2.state[t] = "running"
    <2>1. s.state[t] = "running" /\ s.cpu[t] \in Cpu
        BY <1>1, <1>2, <1>4 DEF LockedRun, SchedState
    <2>2. s.assigned[s.cpu[t]] = t
        BY <1>2, <2>1 DEF Placed, Linked
    <2>3. Locked(s, s.cpu[t])
        BY <1>1, <1>4, <2>2, SchedAssumption DEF Locked
    <2>4. s2.assigned[s.cpu[t]] = t
        BY <1>3, <2>1, <2>2, <2>3
    <2> QED
        BY <1>1, <2>1, <2>4 DEF Placed, Linked
<1> QED
    BY <1>1, <1>3, <1>4 DEF CallOK, StateOK, LockedRun, KeepsLocked

(* The calls the actions make. *)

LEMMA SleepOK ==
    ASSUME NEW s, StateOK(s), NEW c \in Cpu, NEW t \in Task, s.assigned[c] = t, s.lock[t] = 0
    PROVE  CallOK(s, RemoveSelf(s, c), c)
<1> DEFINE s2 == RemoveSelf(s, c)
<1>1. s \in SchedState /\ Placed(s) /\ LockedRun(s) /\ \A u \in Task \ Movable : Kept(s, u)
    BY DEF StateOK
<1>2. /\ s2 \in SchedState /\ Placed(s2)
      /\ s2.running = s.running /\ s2.lock = s.lock
      /\ s2.irqlock = s.irqlock /\ s2.irqcount = s.irqcount
      /\ \A d \in Cpu \ {c} : s2.assigned[d] = s.assigned[d]
      /\ s2.assigned[c] # t
      /\ s2.assigned[c] # Null => \A d \in Cpu : s.assigned[d] # s2.assigned[c]
      /\ s2.prio = s.prio /\ s2.aff = s.aff /\ s2.state[t] = "blocked"
      /\ \A u \in Task \ {t} : s2.state[u] = "blocked" <=> s.state[u] = "blocked"
    BY <1>1, RemoveSelfStep
<1>3. \A u \in Task \ Movable : Kept(s2, u)
    BY <1>1, RemoveSelfKeeps
<1> HIDE DEF s2
<1>4. LockedRun(s2)
    <2> SUFFICES ASSUME NEW u \in Task, s.lock[u] > 0
                 PROVE  s2.state[u] = "running"
        BY <1>2 DEF LockedRun
    <2>1. u # t /\ s.state[u] = "running" /\ s.cpu[u] \in Cpu
        BY <1>1 DEF LockedRun, SchedState
    <2>2. s.assigned[s.cpu[u]] = u /\ s.cpu[u] # c
        BY <1>1, <2>1 DEF Placed, Linked
    <2>3. s2.assigned[s.cpu[u]] = u
        BY <1>2, <2>1, <2>2
    <2> QED
        BY <1>2, <2>1, <2>3 DEF Placed, Linked
<1>5. KeepsLocked(s, s2)
    BY <1>2 DEF KeepsLocked, Locked
<1> QED
    BY <1>2, <1>3, <1>4, <1>5 DEF CallOK, StateOK, s2

LEMMA SetParamOK ==
    ASSUME NEW s, StateOK(s), NEW c \in Cpu, NEW u \in Task, NEW p \in Prio
    PROVE  CallOK(s, SetPriority(s, c, u, p), c)
<1> DEFINE s2 == SetPriority(s, c, u, p)
<1>1. /\ s \in SchedState /\ Placed(s) /\ s.prio \in [Task -> Prio] /\ p \in Nat
      /\ s.aff \in [Task -> Mask \cup NewMask] /\ \A v \in Task \ Movable : Kept(s, v)
    BY PrioNat DEF StateOK
<1>2. SetsPriority(s, s2, c, u, p)
    BY <1>1, SetPriorityStep
<1>3. \A v \in Task \ Movable : Kept(s2, v)
    BY <1>1, SetPriorityKeeps
<1> HIDE DEF s2
<1>4. /\ Reschedules(s, s2, c)
      /\ s2.prio \in [Task -> Prio] /\ s2.aff \in [Task -> Mask \cup NewMask]
    BY <1>1, <1>2 DEF SetsPriority
<1> QED
    BY <1>3, <1>4, RescheduledOK DEF s2

LEMMA ChangeAffinityOK ==
    ASSUME NEW s, StateOK(s), NEW c \in Cpu, NEW u \in Movable, NEW m \in NewMask
    PROVE  CallOK(s, SetAffinity(s, c, u, m), c)
<1> DEFINE s2 == SetAffinity(s, c, u, m)
<1>1. /\ s \in SchedState /\ Placed(s) /\ s.prio \in [Task -> Prio]
      /\ s.aff \in [Task -> Mask \cup NewMask] /\ \A v \in Task \ Movable : Kept(s, v)
    BY DEF StateOK
<1>2. u \in Task /\ m \in (SUBSET Cpu) \ {{}}
    BY SpecAssumption
<1>3. /\ Reschedules(s, s2, c)
      /\ s2.prio = s.prio /\ s2.aff = [s.aff EXCEPT ![u] = m]
      /\ \A v \in Task : s2.state[v] = "blocked" <=> s.state[v] = "blocked"
    BY <1>1, <1>2, SetAffinityStep
<1>4. \A v \in Task \ Movable : Kept(s2, v)
    BY <1>1, <1>2, SetAffinityKeeps
<1> HIDE DEF s2
<1>5. s2.prio \in [Task -> Prio] /\ s2.aff \in [Task -> Mask \cup NewMask]
    BY <1>1, <1>3
<1> QED
    BY <1>3, <1>4, <1>5, RescheduledOK DEF s2

LEMMA UnlockOK ==
    ASSUME NEW s, StateOK(s), NEW c \in Cpu, NEW t \in Task, s.assigned[c] = t
    PROVE  CallOK(s, SchedUnlock(s, c, t), c)
<1> DEFINE s1 == [s EXCEPT !.lock[t] = 0]
           s2 == SchedUnlock(s, c, t)
<1>1. /\ s \in SchedState /\ Placed(s) /\ LockedRun(s) /\ s.prio \in [Task -> Prio]
      /\ s.aff \in [Task -> Mask \cup NewMask] /\ \A u \in Task \ Movable : Kept(s, u)
    BY DEF StateOK
<1>2. /\ s1 \in SchedState /\ Placed(s1)
      /\ s1.lock = [s.lock EXCEPT ![t] = 0]
      /\ s1.assigned = s.assigned /\ s1.running = s.running /\ s1.irqlock = s.irqlock
      /\ s1.irqcount = s.irqcount /\ s1.prio = s.prio /\ s1.aff = s.aff
      /\ s1.deliver = s.deliver /\ s1.state = s.state /\ s1.ready = s.ready
    BY <1>1, LockChanged
<1>3. Reschedules(s1, s2, c) /\ SameTasks(s1, s2)
    BY <1>1, SchedUnlockStep
<1>4. \A u \in Task \ Movable : Kept(s2, u)
    BY <1>1, SchedUnlockKeeps
<1> HIDE DEF s1, s2
<1>5. /\ s2 \in SchedState /\ Placed(s2)
      /\ s2.running = s.running /\ s2.lock = s1.lock
      /\ s2.irqlock = s.irqlock /\ s2.irqcount = s.irqcount
      /\ s2.prio = s.prio /\ s2.aff = s.aff
      /\ \A d \in Cpu \ {c} : s2.assigned[d] = s.assigned[d]
      /\ s2.assigned[c] # t =>
            s2.assigned[c] \in Task /\ \A d \in Cpu : s.assigned[d] # s2.assigned[c]
    BY <1>2, <1>3 DEF Reschedules, SameTasks
<1>6. s.lock \in [Task -> {0, 1}] /\ s.state \in [Task -> {"running", "ready", "blocked"}]
      /\ s.cpu \in [Task -> Cpu]
    BY <1>1 DEF SchedState
<1>7. \A u \in Task : s.lock[u] > 0 => s.assigned[s.cpu[u]] = u
    BY <1>1, <1>6 DEF LockedRun, Placed, Linked
<1>8. LockedRun(s2)
    <2> SUFFICES ASSUME NEW u \in Task, s2.lock[u] > 0
                 PROVE  s2.state[u] = "running"
        BY DEF LockedRun
    <2>1. u # t /\ s.lock[u] > 0
        BY <1>2, <1>5, <1>6
    <2>2. s2.assigned[s.cpu[u]] = u
        BY <1>5, <1>6, <1>7, <2>1
    <2> QED
        BY <1>5, <1>6, <2>2 DEF Placed, Linked
<1>9. KeepsLocked(s, s2)
    <2> SUFFICES ASSUME s2.assigned[c] # t
                 PROVE  ~Locked(s2, c)
        BY <1>5 DEF KeepsLocked
    <2>1. ~(s.lock[s2.assigned[c]] > 0)
        BY <1>5, <1>6, <1>7
    <2> QED
        BY <1>2, <1>5, <1>6, <2>1 DEF Locked
<1> QED
    BY <1>1, <1>4, <1>5, <1>8, <1>9 DEF CallOK, StateOK, s2

LEMMA WakeOK ==
    ASSUME NEW s, StateOK(s), NEW c \in Cpu, NEW t \in Task, s.state[t] = "blocked"
    PROVE  CallOK(s, AddReadyToRun(s, c, t), c)
<1> DEFINE s2 == AddReadyToRun(s, c, t)
<1>1. /\ s \in SchedState /\ Placed(s) /\ s.prio \in [Task -> Prio]
      /\ s.aff \in [Task -> Mask \cup NewMask] /\ \A u \in Task \ Movable : Kept(s, u)
    BY DEF StateOK
<1>2. Loose(s, t)
    BY <1>1 DEF Placed, Loose, Linked
<1>3. Reschedules(s, s2, c) /\ s2.prio = s.prio /\ s2.aff = s.aff
    BY <1>1, <1>2, AddReadyToRunStep
<1>4. \A u \in Task \ Movable : Kept(s2, u)
    BY <1>1, <1>2, AddReadyToRunKeeps
<1> HIDE DEF s2
<1> QED
    BY <1>1, <1>3, <1>4, RescheduledOK DEF s2

LEMMA DeliveryOK ==
    ASSUME NEW s, StateOK(s), NEW c \in Cpu, s.deliver[c] # "none"
    PROVE  CallOK(s, ProcessDelivered(s, c), c)
<1> DEFINE s2 == ProcessDelivered(s, c)
<1>1. /\ s \in SchedState /\ Placed(s) /\ s.prio \in [Task -> Prio]
      /\ s.aff \in [Task -> Mask \cup NewMask] /\ \A u \in Task \ Movable : Kept(s, u)
    BY DEF StateOK
<1>2. Reschedules(s, s2, c) /\ SameTasks(s, s2)
    BY <1>1, ProcessDeliveredStep
<1>3. \A u \in Task \ Movable : Kept(s2, u)
    BY <1>1, ProcessDeliveredKeeps
<1> HIDE DEF s2
<1> QED
    BY <1>1, <1>2, <1>3, RescheduledOK DEF s2, SameTasks

LEMMA TimeSliceOK ==
    ASSUME NEW s, StateOK(s), NEW c \in Cpu
    PROVE  CallOK(s, SwitchRunning(s, c, TRUE), c)
<1> DEFINE s2 == SwitchRunning(s, c, TRUE)
<1>1. /\ s \in SchedState /\ Placed(s) /\ s.prio \in [Task -> Prio]
      /\ s.aff \in [Task -> Mask \cup NewMask] /\ \A u \in Task \ Movable : Kept(s, u)
    BY DEF StateOK
<1>2. Reschedules(s, s2, c) /\ SameTasks(s, s2)
    BY <1>1, SwitchRunningStep
<1>3. \A u \in Task \ Movable : Kept(s2, u)
    BY <1>1, SwitchRunningKeeps DEF Kept
<1> HIDE DEF s2
<1> QED
    BY <1>1, <1>2, <1>3, RescheduledOK DEF s2, SameTasks

-----------------------------------------------------------------------------
(* The steps. *)

\* A change of running, irqlock and irqcount only.
LEMMA SameSchedOK ==
    ASSUME NEW s, StateOK(s), NEW s2, SameSched(s, s2)
    PROVE  StateOK(s2) /\ KeepsLocked(s, s2)
<1>1. Placed(s2)
    BY SameSchedPlaced DEF StateOK
<1>2. \A u \in Task : Kept(s, u) => Kept(s2, u)
    BY DEF SameSched, Kept, Allowed, Served, Locked, PrioOn
<1>3. LockedRun(s2) /\ KeepsLocked(s, s2)
    BY DEF StateOK, SameSched, LockedRun, KeepsLocked
<1> QED
    BY <1>1, <1>2, <1>3 DEF StateOK, SameSched

\* A system call: the critical section of the task that loses the CPU stays with
\* the CPU.
LEMMA CallsPreserves ==
    ASSUME NEW c \in Cpu, NEW t \in Task, NEW after,
           SchedInv, CanCall(c, t), CallOK(sch, after, c), Calls(c, after)
    PROVE  SchedInv' /\ KeepsLocked(sch, sch')
<1>1. /\ StateOK(sch) /\ sch \in SchedState /\ Placed(sch) /\ Sections(sch)
      /\ sch.assigned[c] = t /\ sch.irqcount[t] = 0 /\ sch.irqlock = NoCpu
      /\ sch' = TaskCall(sch, c, after)
    BY DEF SchedInv, StateOK, CanCall, Executes, Calls
<1>2. /\ StateOK(after) /\ after \in SchedState
      /\ after.running = sch.running /\ after.irqlock = sch.irqlock
      /\ after.irqcount = sch.irqcount
      /\ \A d \in Cpu \ {c} : after.assigned[d] = sch.assigned[d]
      /\ KeepsLocked(sch, after)
    BY DEF CallOK, StateOK
<1>3. /\ SameSched(after, sch')
      /\ sch'.running = after.running
      /\ after.assigned[c] = sch.assigned[c] =>
            sch'.irqlock = after.irqlock /\ sch'.irqcount = after.irqcount
      /\ after.assigned[c] # sch.assigned[c] =>
            sch'.irqlock = c /\ sch'.irqcount = [after.irqcount EXCEPT ![sch.assigned[c]] = 1]
    BY <1>1, <1>2, TaskCallFields
<1>4. StateOK(sch')
    BY <1>2, <1>3, SameSchedOK
<1>5. sch'.assigned = after.assigned /\ sch'.lock = after.lock
    BY <1>3 DEF SameSched
<1>6. KeepsLocked(sch, sch')
    BY <1>2, <1>5 DEF KeepsLocked, Locked
<1>7. Sections(sch')
    <2>1. \A d \in Cpu : ~(sch.assigned[d] # Null /\ sch.irqcount[sch.assigned[d]] > 0)
        BY <1>1, SchedAssumption DEF Sections
    <2>2. \A d \in Cpu \ {c} : sch.assigned[d] # t
        BY <1>1 DEF Placed, Linked
    <2>3. /\ sch.irqcount \in [Task -> {0, 1}]
          /\ sch.assigned \in [Cpu -> Task \cup {Null}]
        BY <1>1 DEF SchedState
    <2>4. CASE after.assigned[c] = sch.assigned[c]
        BY <1>2, <1>3, <1>5, <2>1, <2>4 DEF Sections
    <2>5. CASE after.assigned[c] # sch.assigned[c]
        <3>1. sch'.irqlock = c /\ sch'.irqcount = [sch.irqcount EXCEPT ![t] = 1]
            BY <1>1, <1>2, <1>3, <2>5
        <3>2. \A d \in Cpu \ {c} : sch'.assigned[d] = sch.assigned[d]
            BY <1>2, <1>5
        <3> QED
            BY <2>1, <2>2, <2>3, <3>1, <3>2 DEF Sections
    <2> QED
        BY <2>4, <2>5
<1>8. level' \in [Cpu -> {"task", "isr", "svc"}]
    BY DEF SchedInv, Calls
<1> QED
    BY <1>4, <1>6, <1>7, <1>8 DEF SchedInv

\* An interrupt: the lock is kept exactly when the task of the CPU is inside.
LEMMA InterruptsPreserves ==
    ASSUME NEW c \in Cpu, NEW after,
           SchedInv, Interruptible(c), CallOK(sch, after, c), Interrupts(c, after)
    PROVE  SchedInv' /\ KeepsLocked(sch, sch')
<1>1. /\ StateOK(sch) /\ sch \in SchedState /\ Sections(sch)
      /\ sch.irqlock \in {NoCpu, c}
      /\ sch' = IrqCall(after, c)
    BY DEF SchedInv, StateOK, Interruptible, MayEnter, Interrupts
<1>2. /\ StateOK(after) /\ after \in SchedState
      /\ after.running = sch.running /\ after.irqlock = sch.irqlock
      /\ after.irqcount = sch.irqcount
      /\ \A d \in Cpu \ {c} : after.assigned[d] = sch.assigned[d]
      /\ KeepsLocked(sch, after)
    BY DEF CallOK, StateOK
<1>3. /\ SameSched(after, sch')
      /\ sch'.running = after.running /\ sch'.irqcount = after.irqcount
      /\ sch'.irqlock = IF after.assigned[c] # Null /\ after.irqcount[after.assigned[c]] > 0
                        THEN c ELSE NoCpu
    BY <1>1, <1>2, IrqCallFields
<1>4. StateOK(sch')
    BY <1>2, <1>3, SameSchedOK
<1>5. sch'.assigned = after.assigned /\ sch'.lock = after.lock
    BY <1>3 DEF SameSched
<1>6. KeepsLocked(sch, sch')
    BY <1>2, <1>5 DEF KeepsLocked, Locked
<1>7. Sections(sch')
    <2>1. \A d \in Cpu \ {c} : ~(sch.assigned[d] # Null /\ sch.irqcount[sch.assigned[d]] > 0)
        BY <1>1, SchedAssumption DEF Sections
    <2> QED
        BY <1>2, <1>3, <1>5, <2>1 DEF Sections
<1>8. level' \in [Cpu -> {"task", "isr", "svc"}]
    BY DEF SchedInv, Interrupts
<1> QED
    BY <1>4, <1>6, <1>7, <1>8 DEF SchedInv

LEMMA SchedLockPreserves ==
    ASSUME NEW c \in Cpu, NEW t \in Task, SchedInv, SchedLock(c, t)
    PROVE  SchedInv' /\ KeepsLocked(sch, sch')
<1>1. /\ StateOK(sch) /\ sch \in SchedState /\ Placed(sch) /\ Sections(sch)
      /\ LockedRun(sch) /\ \A u \in Task \ Movable : Kept(sch, u)
      /\ sch.assigned[c] = t /\ sch' = [sch EXCEPT !.lock[t] = 1] /\ 1 \in {0, 1}
    BY DEF SchedInv, StateOK, SchedLock, Executes
<1> DEFINE s1 == [sch EXCEPT !.lock[t] = 1]
<1>2. /\ s1 \in SchedState /\ Placed(s1)
      /\ s1.lock = [sch.lock EXCEPT ![t] = 1]
      /\ s1.assigned = sch.assigned /\ s1.running = sch.running /\ s1.irqlock = sch.irqlock
      /\ s1.irqcount = sch.irqcount /\ s1.prio = sch.prio /\ s1.aff = sch.aff
      /\ s1.deliver = sch.deliver /\ s1.state = sch.state /\ s1.ready = sch.ready
    BY <1>1, LockChanged
<1>3. s1 = sch' /\ sch.lock \in [Task -> {0, 1}]
    BY <1>1 DEF SchedState
<1> HIDE DEF s1
<1>4. sch.state[t] = "running"
    BY <1>1 DEF Placed, Linked
<1>5. \A d \in Cpu : Locked(sch, d) => Locked(s1, d)
    BY <1>1, <1>2, <1>3 DEF Locked, SchedState
<1>6. \A u \in Task \ Movable : Kept(s1, u)
    BY <1>1, <1>2, <1>5 DEF Kept, Allowed, Served, PrioOn
<1>7. LockedRun(s1)
    BY <1>1, <1>2, <1>3, <1>4 DEF LockedRun
<1>8. StateOK(s1)
    BY <1>1, <1>2, <1>6, <1>7 DEF StateOK
<1>9. Sections(s1) /\ KeepsLocked(sch, s1)
    BY <1>1, <1>2 DEF Sections, KeepsLocked
<1>10. level' \in [Cpu -> {"task", "isr", "svc"}]
    BY DEF SchedInv, SchedLock
<1> QED
    BY <1>3, <1>8, <1>9, <1>10 DEF SchedInv

LEMMA LeavePreserves ==
    ASSUME NEW c \in Cpu, NEW t \in Task, SchedInv, Leave(c, t)
    PROVE  SchedInv' /\ KeepsLocked(sch, sch')
<1>1. /\ StateOK(sch) /\ sch \in SchedState /\ Sections(sch)
      /\ sch.assigned[c] = t /\ sch.irqcount[t] > 0
      /\ sch' = LeaveSection(sch, t)
    BY DEF SchedInv, StateOK, Leave, Executes
<1>2. /\ SameSched(sch, sch')
      /\ sch'.running = sch.running /\ sch'.irqcount = [sch.irqcount EXCEPT ![t] = 0]
      /\ sch'.irqlock = NoCpu
    BY <1>1, LeaveSectionFields
<1>3. StateOK(sch') /\ KeepsLocked(sch, sch')
    BY <1>1, <1>2, SameSchedOK
<1>4. Sections(sch')
    <2>1. sch.irqlock = c
        BY <1>1, SchedAssumption DEF Sections
    <2>2. \A d \in Cpu \ {c} : ~(sch.assigned[d] # Null /\ sch.irqcount[sch.assigned[d]] > 0)
        BY <1>1, <2>1 DEF Sections
    <2>3. sch'.assigned = sch.assigned /\ sch.assigned \in [Cpu -> Task \cup {Null}]
          /\ sch.irqcount \in [Task -> {0, 1}]
        BY <1>1, <1>2 DEF SameSched, SchedState
    <2> QED
        BY <1>1, <1>2, <2>2, <2>3 DEF Sections
<1>5. level' \in [Cpu -> {"task", "isr", "svc"}]
    BY DEF SchedInv, Leave
<1> QED
    BY <1>3, <1>4, <1>5 DEF SchedInv

LEMMA EndSwitchPreserves ==
    ASSUME NEW c \in Cpu, SchedInv, EndSwitch(c)
    PROVE  SchedInv' /\ KeepsLocked(sch, sch')
<1>1. StateOK(sch) /\ sch \in SchedState /\ Sections(sch)
    BY DEF SchedInv, StateOK
<1>2. /\ SameSched(sch, sch')
      /\ sch'.irqcount = sch.irqcount
      /\ \/ sch'.irqlock = sch.irqlock
         \/ /\ sch'.irqlock = NoCpu /\ sch.irqlock = c
            /\ ~(sch.assigned[c] # Null /\ sch.irqcount[sch.assigned[c]] > 0)
    <2>1. CASE level[c] = "svc"
        BY <1>1, <2>1, EndSyscallFields DEF EndSwitch
    <2>2. CASE level[c] # "svc"
        BY <1>1, <2>2, EndInterruptFields DEF EndSwitch
    <2> QED
        BY <2>1, <2>2
<1>3. StateOK(sch') /\ KeepsLocked(sch, sch')
    BY <1>1, <1>2, SameSchedOK
<1>4. Sections(sch')
    BY <1>1, <1>2, SchedAssumption DEF Sections, SameSched
<1>5. level' \in [Cpu -> {"task", "isr", "svc"}]
    BY DEF SchedInv, EndSwitch
<1> QED
    BY <1>3, <1>4, <1>5 DEF SchedInv

LEMMA InitInv == Init => SchedInv
<1> SUFFICES ASSUME Init PROVE SchedInv
    OBVIOUS
<1>1. PICK p \in [Task -> Prio], m \in [Task -> Mask] : sch = SchedInit(p, m)
    BY DEF Init
<1>2. /\ p \in [Task -> Nat] /\ m \in [Task -> (SUBSET Cpu) \ {{}}]
      /\ m \in [Task -> Mask \cup NewMask]
    BY PrioNat, SpecAssumption
<1>3. sch \in SchedState /\ Placed(sch)
    BY <1>1, <1>2, SchedInitFacts
<1>4. /\ sch.prio = p /\ sch.aff = m /\ sch.state = [t \in Task |-> "blocked"]
      /\ sch.lock = [t \in Task |-> 0] /\ sch.assigned = [c \in Cpu |-> Null]
    BY <1>1 DEF SchedInit
<1>5. LockedRun(sch) /\ Sections(sch)
    BY <1>4 DEF LockedRun, Sections
<1>6. \A u \in Task : Kept(sch, u)
    BY <1>4, SchedAssumption DEF Kept, Allowed, Served
<1>7. StateOK(sch)
    BY <1>2, <1>3, <1>4, <1>5, <1>6 DEF StateOK
<1> QED
    BY <1>5, <1>7 DEF SchedInv, Init

LEMMA NextInv == SchedInv /\ [Next]_vars => SchedInv' /\ KeepsLocked(sch, sch')
<1> SUFFICES ASSUME SchedInv, [Next]_vars
             PROVE  SchedInv' /\ KeepsLocked(sch, sch')
    OBVIOUS
<1>a. StateOK(sch)
    BY DEF SchedInv
<1>1. CASE UNCHANGED vars
    BY <1>1 DEF SchedInv, vars, KeepsLocked
<1>2. ASSUME NEW c \in Cpu, NEW t \in Task, Sleep(c, t)
      PROVE  SchedInv' /\ KeepsLocked(sch, sch')
    <2>1. CanCall(c, t) /\ Calls(c, RemoveSelf(sch, c)) /\ sch.assigned[c] = t /\ sch.lock[t] = 0
        BY <1>2 DEF Sleep, CanCall, Executes
    <2>2. CallOK(sch, RemoveSelf(sch, c), c)
        BY <1>a, <2>1, SleepOK
    <2> QED
        BY <2>1, <2>2, CallsPreserves
<1>3. ASSUME NEW c \in Cpu, NEW t \in Task, NEW u \in Task, NEW p \in Prio, SetParam(c, t, u, p)
      PROVE  SchedInv' /\ KeepsLocked(sch, sch')
    <2>1. CanCall(c, t) /\ Calls(c, SetPriority(sch, c, u, p))
        BY <1>3 DEF SetParam
    <2>2. CallOK(sch, SetPriority(sch, c, u, p), c)
        BY <1>a, SetParamOK
    <2> QED
        BY <2>1, <2>2, CallsPreserves
<1>4. ASSUME NEW c \in Cpu, NEW t \in Task, NEW u \in Task, NEW m \in NewMask,
             ChangeAffinity(c, t, u, m)
      PROVE  SchedInv' /\ KeepsLocked(sch, sch')
    <2>1. CanCall(c, t) /\ Calls(c, SetAffinity(sch, c, u, m)) /\ u \in Movable
        BY <1>4 DEF ChangeAffinity
    <2>2. CallOK(sch, SetAffinity(sch, c, u, m), c)
        BY <1>a, <2>1, ChangeAffinityOK
    <2> QED
        BY <2>1, <2>2, CallsPreserves
<1>5. ASSUME NEW c \in Cpu, NEW t \in Task, Unlock(c, t)
      PROVE  SchedInv' /\ KeepsLocked(sch, sch')
    <2>1. CanCall(c, t) /\ Calls(c, SchedUnlock(sch, c, t)) /\ sch.assigned[c] = t
        BY <1>5 DEF Unlock, CanCall, Executes
    <2>2. CallOK(sch, SchedUnlock(sch, c, t), c)
        BY <1>a, <2>1, UnlockOK
    <2> QED
        BY <2>1, <2>2, CallsPreserves
<1>6. ASSUME NEW c \in Cpu, NEW t \in Task, Wake(c, t)
      PROVE  SchedInv' /\ KeepsLocked(sch, sch')
    <2>1. Interruptible(c) /\ Interrupts(c, AddReadyToRun(sch, c, t)) /\ sch.state[t] = "blocked"
        BY <1>6 DEF Wake
    <2>2. CallOK(sch, AddReadyToRun(sch, c, t), c)
        BY <1>a, <2>1, WakeOK
    <2> QED
        BY <2>1, <2>2, InterruptsPreserves
<1>7. ASSUME NEW c \in Cpu, HandleDelivery(c)
      PROVE  SchedInv' /\ KeepsLocked(sch, sch')
    <2>1. Interruptible(c) /\ Interrupts(c, ProcessDelivered(sch, c)) /\ sch.deliver[c] # "none"
        BY <1>7 DEF HandleDelivery
    <2>2. CallOK(sch, ProcessDelivered(sch, c), c)
        BY <1>a, <2>1, DeliveryOK
    <2> QED
        BY <2>1, <2>2, InterruptsPreserves
<1>8. ASSUME NEW c \in Cpu, TimeSlice(c)
      PROVE  SchedInv' /\ KeepsLocked(sch, sch')
    <2>1. Interruptible(c) /\ Interrupts(c, SwitchRunning(sch, c, TRUE))
        BY <1>8 DEF TimeSlice
    <2>2. CallOK(sch, SwitchRunning(sch, c, TRUE), c)
        BY <1>a, TimeSliceOK
    <2> QED
        BY <2>1, <2>2, InterruptsPreserves
<1> QED
    BY <1>1, <1>2, <1>3, <1>4, <1>5, <1>6, <1>7, <1>8,
       SchedLockPreserves, LeavePreserves, EndSwitchPreserves DEF Next, CpuStep

-----------------------------------------------------------------------------
(* The results. *)

\* The invariant holds of every behaviour.
THEOREM InvHolds == Spec => []SchedInv
<1>1. SchedInv /\ [Next]_vars => SchedInv'
    BY NextInv
<1> QED
    BY <1>1, InitInv, PTL DEF Spec

\* Every field of the scheduler's state keeps its type: no task, CPU or priority
\* is invented by nxsched_select_cpu(), nxsched_add_prioritized() or the others.
THEOREM TypeCorrect == Spec => []TypeOK
<1>1. SchedInv => TypeOK
    BY DEF SchedInv, StateOK, SchedState, TypeOK
<1> QED
    BY <1>1, InvHolds, PTL

\* Whatever calls and interrupts the CPUs make, every task is in exactly the one
\* place its task_state names and the ready list is in order.
THEOREM PlacementHolds == Spec => []Placement
<1>1. SchedInv => Placement
    <2> SUFFICES ASSUME SchedInv PROVE Placement
        OBVIOUS
    <2>1. sch \in SchedState /\ Placed(sch)
        BY DEF SchedInv, StateOK
    <2>2. ASSUME NEW t \in Task
          PROVE  /\ (sch.state[t] = "running") <=> (\E c \in Cpu : sch.assigned[c] = t)
                 /\ \A c \in Cpu : sch.assigned[c] = t => sch.cpu[t] = c
        BY <2>1 DEF SchedState, Placed, Linked
    <2>3. ASSUME NEW t \in Task
          PROVE  Cardinality({i \in 1 .. Len(sch.ready) : sch.ready[i] = t})
                    = IF sch.state[t] = "ready" THEN 1 ELSE 0
        <3> DEFINE I == {i \in 1 .. Len(sch.ready) : sch.ready[i] = t}
        <3>1. CASE sch.state[t] = "ready"
            <4>1. PICK k \in 1 .. Len(sch.ready) : sch.ready[k] = t
                BY <2>1, <3>1 DEF Placed, Linked, Occurs
            <4>2. I = {k}
                BY <2>1, <4>1 DEF Placed, QueueOK, OnceEach
            <4>3. Cardinality({k}) = 1
                BY FS_Singleton
            <4> QED
                BY <3>1, <4>2, <4>3
        <3>2. CASE sch.state[t] # "ready"
            <4>1. I = {}
                BY <2>1, <3>2 DEF Placed, Linked, Occurs
            <4>2. Cardinality({}) = 0
                BY FS_EmptySet
            <4> QED
                BY <3>2, <4>1, <4>2
        <3> QED
            BY <3>1, <3>2
    <2>4. \A i, j \in 1 .. Len(sch.ready) :
            i < j => sch.prio[sch.ready[i]] >= sch.prio[sch.ready[j]]
        BY <2>1 DEF Placed, QueueOK, Descends
    <2> QED
        BY <2>2, <2>3, <2>4 DEF Placement
<1> QED
    BY <1>1, InvHolds, PTL

\* g_cpu_irqlock stays with the CPU whose task is inside a critical section, so
\* the assertion of leave_critical_section() holds when a switched-out task
\* resumes, on whichever CPU.
THEOREM SectionHolds == Spec => []SectionOwned
<1>1. SchedInv => SectionOwned
    BY DEF SchedInv, Sections, SectionOwned, InSection
<1> QED
    BY <1>1, InvHolds, PTL

\* A ready task pinned to a CPU is above the task of that CPU only while a
\* scheduling interrupt is pending there or the CPU's task may not be preempted.
THEOREM PinnedServedHolds == Spec => []PinnedServed
<1>1. SchedInv => PinnedServed
    BY DEF SchedInv, StateOK, Kept, Served, PinnedServed, Settled
<1> QED
    BY <1>1, InvHolds, PTL

\* No step takes the CPU from a task under sched_lock(), other than that task's
\* own sched_unlock().
THEOREM LockRespectedHolds == Spec => LockRespected
<1>1. SchedInv /\ [Next]_vars =>
        [\A c \in Cpu : Locked(sch, c) => sch'.assigned[c] = sch.assigned[c]
                                          \/ ~Locked(sch', c)]_vars
    BY NextInv DEF KeepsLocked
<1> QED
    BY <1>1, InvHolds, PTL DEF Spec, LockRespected

=============================================================================
