------------------------------ MODULE NxSched -------------------------------
(***************************************************************************)
(* The SMP scheduler of sched/sched as operators on a scheduler state.     *)
(*                                                                         *)
(* A scheduler state is a record s with                                    *)
(*   ready     g_readytorun, head first                                    *)
(*   assigned  g_assignedtasks[c]: the task CPU c is to run, Null for idle *)
(*   running   g_running_tasks[c]: the task whose context CPU c last loaded*)
(*   state     tcb->task_state: running, ready or blocked                  *)
(*   prio      tcb->sched_priority                                         *)
(*   lock      tcb->lockcount                                              *)
(*   cpu       tcb->cpu                                                    *)
(*   aff       tcb->affinity                                               *)
(*   deliver   g_delivertasks[c]; not "none" while the inter-processor     *)
(*             scheduling interrupt of c is pending                        *)
(*   irqlock   the CPU that holds g_cpu_irqlock, or NoCpu                  *)
(*   irqcount  tcb->irqcount                                               *)
(*                                                                         *)
(* Every operator below runs inside one critical section (g_cpu_irqlock    *)
(* held, interrupts off on the calling CPU) and is therefore one step; the *)
(* argument c is this_cpu().                                               *)
(***************************************************************************)
EXTENDS Naturals, Sequences, FiniteSets, SequencesExt, NxTask

CONSTANTS
    NCpus,      \* CONFIG_SMP_NCPUS
    NoCpu       \* nobody holds g_cpu_irqlock

Cpu == 0 .. NCpus - 1

ASSUME SchedAssumption ==
    /\ NCpus \in Nat \ {0}
    /\ Null \notin Task
    /\ NoCpu \notin Cpu

Deliver == {"none", "higher", "equal"}      \* enum task_deliver_e

-----------------------------------------------------------------------------
PrioOn(s, c) == IF s.assigned[c] = Null THEN 0 ELSE s.prio[s.assigned[c]]
Locked(s, c) == s.assigned[c] # Null /\ s.lock[s.assigned[c]] > 0

\* nxsched_add_prioritized(): before the first task of lower priority, that is
\* behind the tasks of the same priority.
AddPrioritized(s, t) ==
    LET lower == {i \in 1 .. Len(s.ready) : s.prio[s.ready[i]] < s.prio[t]}
        at == IF lower = {} THEN Len(s.ready) + 1 ELSE Min(lower)
    IN  [s EXCEPT !.ready = InsertAt(@, at, t)]

\* nxsched_select_cpu(): the first allowed idle CPU, else the last one among
\* those that run the lowest priority.
SelectCpu(s, mask) ==
    LET allowed == Cpu \cap mask
        idle == {c \in allowed : s.assigned[c] = Null}
        lowest == {c \in allowed : \A d \in allowed : PrioOn(s, c) <= PrioOn(s, d)}
    IN  IF idle # {} THEN Min(idle) ELSE Max(lowest)

\* Variant with a bug: the current task is not put back.
Take_DropsCurrent(s, c, i) ==
    LET cur == s.assigned[c]
        new == s.ready[i]
        out == [s EXCEPT !.ready = RemoveAt(@, i)]
        put == IF cur = Null THEN out ELSE [out EXCEPT !.state[cur] = "ready"]
    IN  [put EXCEPT !.assigned[c] = new, !.cpu[new] = c, !.state[new] = "running"]

\* The effect of choosing the i-th ready task: it takes CPU c, and the current
\* task, unless it is the idle task, goes back to the ready list.
Take(s, c, i) ==
    LET cur == s.assigned[c]
        new == s.ready[i]
        out == [s EXCEPT !.ready = RemoveAt(@, i)]
        put == IF cur = Null THEN out
               ELSE AddPrioritized([out EXCEPT !.state[cur] = "ready"], cur)
    IN  [put EXCEPT !.assigned[c] = new, !.cpu[new] = c, !.state[new] = "running"]

\* The ready tasks that outrank the current one (or equal it) and may run on c.
Floor(s, c, equal) == IF equal /\ PrioOn(s, c) > 0 THEN PrioOn(s, c) - 1 ELSE PrioOn(s, c)
Eligible(s, c, equal) ==
    {i \in 1 .. Len(s.ready) :
        /\ \A j \in 1 .. i : s.prio[s.ready[j]] > Floor(s, c, equal)
        /\ c \in s.aff[s.ready[i]]}

\* Variants with a bug: sched_lock() is ignored; the decremented priority is
\* stored in the task.
SwitchRunning_IgnoresLock(s, c, equal) ==
    IF Eligible(s, c, equal) = {} THEN s
    ELSE Take(s, c, Min(Eligible(s, c, equal)))
SwitchRunning_StoresFloor(s, c, equal) ==
    IF Locked(s, c) \/ Eligible(s, c, equal) = {} THEN s
    ELSE Take(IF s.assigned[c] = Null THEN s
              ELSE [s EXCEPT !.prio[s.assigned[c]] = Floor(s, c, equal)],
              c, Min(Eligible(s, c, equal)))

\* nxsched_switch_running(): the first eligible task takes the CPU, unless the
\* current one has locked the scheduler.
SwitchRunning(s, c, equal) ==
    LET taken == [i \in Eligible(s, c, equal) |-> Take(s, c, i)] IN
    IF Locked(s, c) \/ Eligible(s, c, equal) = {} THEN s
    ELSE taken[Min(Eligible(s, c, equal))]

\* nxsched_deliver_task(): switch here, or leave a note for the target CPU and
\* interrupt it.  A pending note of the same kind makes the call do nothing.
DeliverTask(s, c, target, how) ==
    IF s.deliver[target] = how THEN s
    ELSE IF c = target THEN SwitchRunning(s, c, how = "equal")
    ELSE [s EXCEPT !.deliver[target] = how]

\* nxsched_add_readytorun()
AddReadyToRun(s, c, t) ==
    LET target == SelectCpu(s, s.aff[t])
        added == [AddPrioritized([s EXCEPT !.state[t] = "ready"], t)
                    EXCEPT !.cpu[t] = target]
    IN  IF PrioOn(s, target) < s.prio[t]
        THEN DeliverTask(added, c, target, "higher")
        ELSE added

\* nxsched_remove_self(): the idle task becomes current, then the best ready
\* task replaces it.  The caller then links the task into a wait list.
RemoveSelf(s, c) ==
    LET t == s.assigned[c] IN
    SwitchRunning([s EXCEPT !.state[t] = "blocked", !.assigned[c] = Null], c, FALSE)

\* nxsched_running_setpriority(): with a ready task at or above the new
\* priority, or a mask that lost this CPU, also give up the CPU.
RunningSetPriority(s, c, t, p) ==
    LET lowered == [s EXCEPT !.prio[t] = p] IN
    IF /\ s.ready # <<>>
       /\ p <= s.prio[Head(s.ready)] \/ s.cpu[t] \notin s.aff[t]
    THEN DeliverTask(lowered, c, s.cpu[t], "equal")
    ELSE lowered

\* Variant with a bug: the task keeps its place in the ready list.
ReadyToRunSetPriority_InPlace(s, c, t, p) == [s EXCEPT !.prio[t] = p]

\* nxsched_readytorun_setpriority()
ReadyToRunSetPriority(s, c, t, p) ==
    AddReadyToRun([s EXCEPT !.ready = RemoveFirst(@, t), !.prio[t] = p], c, t)

\* nxsched_set_priority(); the priorities in use are always in range.
SetPriority(s, c, t, p) ==
    CASE s.state[t] = "running" -> RunningSetPriority(s, c, t, p)
      [] s.state[t] = "ready"   -> ReadyToRunSetPriority(s, c, t, p)
      [] OTHER                  -> [s EXCEPT !.prio[t] = p]

\* nxsched_set_affinity()
SetAffinity(s, c, t, mask) ==
    LET masked == [s EXCEPT !.aff[t] = mask] IN
    IF s.state[t] # "blocked" /\ s.cpu[t] \notin mask
    THEN SetPriority(masked, c, t, s.prio[t])
    ELSE masked

\* Variant with a bug: the ready list is not looked at.
SchedUnlock_NoLook(s, c, t) == [s EXCEPT !.lock[t] = 0]

\* sched_unlock() of the outermost level, by the task running on CPU c.
SchedUnlock(s, c, t) ==
    LET open == [s EXCEPT !.lock[t] = 0] IN
    IF s.ready # <<>> /\ s.prio[Head(s.ready)] > s.prio[t]
    THEN DeliverTask(open, c, c, "higher")
    ELSE open

\* nxsched_process_delivered(): act on the note; if nothing could be switched
\* in, pass the head of the ready list on to a CPU that runs something lower.
ProcessDelivered(s, c) ==
    LET how == s.deliver[c]
        taken == [s EXCEPT !.deliver[c] = "none"]
        after == SwitchRunning(taken, c, how = "equal")
        first == Head(s.ready)
        target == SelectCpu(taken, s.aff[first])
    IN  IF after # taken THEN after
        ELSE IF /\ s.ready # <<>>
                /\ target # c /\ PrioOn(s, target) < s.prio[first]
        THEN DeliverTask(taken, c, target, how)
        ELSE taken

-----------------------------------------------------------------------------
(* Critical sections and context switches.                                 *)

\* enter_critical_section() by CPU c: g_cpu_irqlock is free, or c kept it since
\* an earlier section of the same interrupt handler.
MayEnter(s, c) == s.irqlock \in {NoCpu, c}

\* A task-level call made on CPU c with result after.  up_switch_context() traps
\* with the critical section still held; it is left when the task resumes.
TaskCall(s, c, after) ==
    IF after.assigned[c] = s.assigned[c] THEN after
    ELSE [after EXCEPT !.irqlock = c, !.irqcount[s.assigned[c]] = 1]

\* Variant with a bug: the lock is always released.
IrqCall_Clears(s, c) == [s EXCEPT !.irqlock = NoCpu]

\* leave_critical_section() and the end of nxsched_process_delivered() in an
\* interrupt handler: the lock is kept if the CPU's task is inside a section.
IrqCall(s, c) ==
    LET cur == s.assigned[c] IN
    [s EXCEPT !.irqlock = IF cur # Null /\ s.irqcount[cur] > 0 THEN c ELSE NoCpu]

\* leave_critical_section() by the task running on CPU c.
LeaveSection(s, t) == [s EXCEPT !.irqcount[t] = 0, !.irqlock = NoCpu]

\* Variant with a bug: restore_critical_section() does not look at irqcount.
EndSyscall_Clears(s, c) ==
    [s EXCEPT !.running[c] = s.assigned[c], !.irqlock = IF @ = c THEN NoCpu ELSE @]

\* The end of arm64_syscall(): g_running_tasks, then restore_critical_section().
EndSyscall(s, c) ==
    LET cur == s.assigned[c]
        inside == cur # Null /\ s.irqcount[cur] > 0
    IN  [s EXCEPT !.running[c] = cur,
                  !.irqlock = IF ~inside /\ @ = c THEN NoCpu ELSE @]

\* The end of arm64_doirq(): g_running_tasks only.
EndInterrupt(s, c) == [s EXCEPT !.running[c] = s.assigned[c]]

SchedInit(prio0, aff0) ==
    [ready |-> <<>>, assigned |-> [c \in Cpu |-> Null], running |-> [c \in Cpu |-> Null],
     state |-> [t \in Task |-> "blocked"], prio |-> prio0, lock |-> [t \in Task |-> 0],
     cpu |-> [t \in Task |-> 0], aff |-> aff0, deliver |-> [c \in Cpu |-> "none"],
     irqlock |-> NoCpu, irqcount |-> [t \in Task |-> 0]]

=============================================================================
