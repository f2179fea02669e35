---------------------------- MODULE NxSchedSpec -----------------------------
(***************************************************************************)
(* The SMP scheduler on its own: tasks that sleep, are woken by a timer    *)
(* interrupt on any CPU, change priorities and affinities of each other,   *)
(* yield, and lock the scheduler, on CPUs that exchange inter-processor    *)
(* scheduling interrupts.                                                  *)
(***************************************************************************)
EXTENDS NxSched

CONSTANTS
    Prio,       \* the priorities in use
    Mask,       \* the affinity masks tasks are created with
    NewMask,    \* the masks tasks set later with sched_setaffinity()
    Movable     \* the tasks whose affinity is changed later

ASSUME SpecAssumption ==
    /\ Prio \subseteq 1 .. 255
    /\ Mask \cup NewMask \subseteq (SUBSET Cpu) \ {{}}
    /\ Movable \subseteq Task

VARIABLES
    sch,        \* the scheduler state of NxSched
    level       \* level[c]: task, or isr/svc while CPU c switches context

vars == <<sch, level>>

TypeOK ==
    /\ sch \in [ready : Seq(Task), assigned : [Cpu -> Task \cup {Null}],
                running : [Cpu -> Task \cup {Null}],
                state : [Task -> {"running", "ready", "blocked"}],
                prio : [Task -> Prio], lock : [Task -> {0, 1}], cpu : [Task -> Cpu],
                aff : [Task -> Mask \cup NewMask], deliver : [Cpu -> Deliver],
                irqlock : Cpu \cup {NoCpu}, irqcount : [Task -> {0, 1}]]
    /\ level \in [Cpu -> {"task", "isr", "svc"}]

Init ==
    /\ sch \in {SchedInit(p, m) : p \in [Task -> Prio], m \in [Task -> Mask]}
    /\ level = [c \in Cpu |-> "task"]

-----------------------------------------------------------------------------
Executes(c, t) == level[c] = "task" /\ sch.assigned[c] = t
InSection(c) == sch.assigned[c] # Null /\ sch.irqcount[sch.assigned[c]] > 0

\* A system call of the task running on c.
Calls(c, after) ==
    /\ sch' = TaskCall(sch, c, after)
    /\ level' = [level EXCEPT ![c] =
                   IF after.assigned[c] = sch.assigned[c] THEN "task" ELSE "svc"]

\* t, on CPU c, is outside any critical section and can enter one.
CanCall(c, t) == Executes(c, t) /\ sch.irqcount[t] = 0 /\ sch.irqlock = NoCpu

Sleep(c, t) ==
    /\ CanCall(c, t)
    /\ sch.lock[t] = 0
    /\ Calls(c, RemoveSelf(sch, c))

SetParam(c, t, u, p) == CanCall(c, t) /\ Calls(c, SetPriority(sch, c, u, p))

ChangeAffinity(c, t, u, m) ==
    /\ u \in Movable
    /\ CanCall(c, t)
    /\ Calls(c, SetAffinity(sch, c, u, m))

\* sched_lock() needs no critical section.
SchedLock(c, t) ==
    /\ Executes(c, t)
    /\ sch.irqcount[t] = 0
    /\ sch.lock[t] = 0
    /\ sch' = [sch EXCEPT !.lock[t] = 1]
    /\ UNCHANGED level

Unlock(c, t) ==
    /\ CanCall(c, t)
    /\ sch.lock[t] = 1
    /\ Calls(c, SchedUnlock(sch, c, t))

\* A task that was switched out inside a critical section leaves it on resuming.
Leave(c, t) ==
    /\ Executes(c, t)
    /\ sch.irqcount[t] > 0
    /\ sch' = LeaveSection(sch, t)
    /\ UNCHANGED level

-----------------------------------------------------------------------------
\* CPU c takes an interrupt, or is still in the handler that switched tasks.
Interruptible(c) ==
    /\ level[c] = "isr" \/ (level[c] = "task" /\ ~InSection(c))
    /\ MayEnter(sch, c)

Interrupts(c, after) ==
    /\ sch' = IrqCall(after, c)
    /\ level' = [level EXCEPT ![c] =
                   IF after.assigned[c] = sch.running[c] THEN "task" ELSE "isr"]

\* A timer interrupt on CPU c wakes t.
Wake(c, t) ==
    /\ Interruptible(c)
    /\ sch.state[t] = "blocked"
    /\ Interrupts(c, AddReadyToRun(sch, c, t))

\* The inter-processor scheduling interrupt.
HandleDelivery(c) ==
    /\ Interruptible(c)
    /\ sch.deliver[c] # "none"
    /\ Interrupts(c, ProcessDelivered(sch, c))

\* nxsched_process_roundrobin(): the time slice of the current task expired.
TimeSlice(c) ==
    /\ Interruptible(c)
    /\ sch.assigned[c] # Null /\ sch.lock[sch.assigned[c]] = 0
    /\ SwitchRunning(sch, c, TRUE) # sch
    /\ Interrupts(c, SwitchRunning(sch, c, TRUE))

EndSwitch(c) ==
    /\ level[c] \in {"isr", "svc"}
    /\ sch' = IF level[c] = "svc" THEN EndSyscall(sch, c) ELSE EndInterrupt(sch, c)
    /\ level' = [level EXCEPT ![c] = "task"]

CpuStep(c) ==
    \/ \E t \in Task :
          \/ Sleep(c, t) \/ SchedLock(c, t) \/ Unlock(c, t) \/ Leave(c, t) \/ Wake(c, t)
          \/ \E u \in Task : \/ \E p \in Prio : SetParam(c, t, u, p)
                             \/ \E m \in NewMask : ChangeAffinity(c, t, u, m)
    \/ HandleDelivery(c) \/ TimeSlice(c) \/ EndSwitch(c)

Next == \E c \in Cpu : CpuStep(c)

Spec == Init /\ [][Next]_vars

-----------------------------------------------------------------------------
\* Every task is in exactly the one place its task_state names: assigned to one
\* CPU (its tcb->cpu), once in the ready list, or in neither; and the ready list
\* is in descending priority order, which nxsched_switch_running() and every
\* look at its head rely on.
Placement ==
    /\ \A t \in Task :
         /\ (sch.state[t] = "running") <=> (\E c \in Cpu : sch.assigned[c] = t)
         /\ \A c \in Cpu : sch.assigned[c] = t => sch.cpu[t] = c
         /\ Cardinality({i \in 1 .. Len(sch.ready) : sch.ready[i] = t})
              = IF sch.state[t] = "ready" THEN 1 ELSE 0
    /\ \A i, j \in 1 .. Len(sch.ready) :
         i < j => sch.prio[sch.ready[i]] >= sch.prio[sch.ready[j]]

\* The critical section survives being handed from one task to another in the
\* middle of a context switch: a CPU whose task is inside a section holds
\* g_cpu_irqlock, as leave_critical_section() asserts when that task resumes.
SectionOwned ==
    \A c \in Cpu : InSection(c) => sch.irqlock = c

\* A CPU that is not switching, has no scheduling interrupt pending and whose
\* task may be preempted runs nothing lower than a ready task pinned to it,
\* while other tasks are re-pinned around it.  It does not hold of a task that
\* is re-pinned while it runs: when another task takes its CPU over, it goes to
\* the ready list and the CPU of its new mask is not notified.
Settled(c) == level[c] = "task" /\ sch.deliver[c] = "none" /\ ~Locked(sch, c)
PinnedServed ==
    \A c \in Cpu, t \in Task \ Movable :
        /\ Settled(c)
        /\ sch.state[t] = "ready" /\ sch.aff[t] = {c}
        => sch.prio[t] <= PrioOn(sch, c)

\* What sched_setaffinity() says it does: a settled CPU does not go on running a
\* task whose mask excludes it.
AffinityTakesEffect ==
    \A c \in Cpu, t \in Task :
        Settled(c) /\ sch.irqlock = NoCpu /\ sch.assigned[c] = t => c \in sch.aff[t]

\* A task under sched_lock() keeps its CPU until it unlocks or blocks, whatever
\* other CPUs do to its priority, its affinity or the ready list.
LockRespected ==
    [][\A c \in Cpu : Locked(sch, c) => sch'.assigned[c] = sch.assigned[c]
                                        \/ ~Locked(sch', c)]_vars

=============================================================================
