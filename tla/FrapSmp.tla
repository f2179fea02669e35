------------------------------ MODULE FrapSmp -------------------------------
(***************************************************************************)
(* FRAP on the SMP scheduler: the protocol steps of FrapCore, executed by  *)
(* tasks that NxSched schedules, preempts and migrates.                    *)
(*                                                                         *)
(* A context switch starts when a scheduler call changes g_assignedtasks   *)
(* and ends when g_running_tasks follows.  In between the CPU runs         *)
(* frap_on_preempt().  In a system call the critical section is held       *)
(* across the hook; in an interrupt handler it was left before, so other   *)
(* CPUs can act between the switch decision and the hook.                  *)
(*                                                                         *)
(* Each task makes a bounded number of frap_lock() calls and is woken a    *)
(* bounded number of times, as the demo's workers and its watchdog are in  *)
(* a finite run; the bounds are Locks and Wakes.                           *)
(***************************************************************************)
EXTENDS FrapCore, NxSched

CONSTANTS
    Affinity,       \* Affinity[t]: the CPUs t may run on
    Locks,          \* Locks[t]: how many frap_lock() calls t makes
    Wakes           \* Wakes[t]: how many times the timer wakes t

ASSUME SmpAssumption ==
    /\ Affinity \in [Task -> (SUBSET Cpu) \ {{}}]
    /\ Locks \in [Task -> Nat]
    /\ Wakes \in [Task -> Nat]

VARIABLES
    sch,        \* the scheduler state of NxSched
    level,      \* level[c]: task, or isr/svc while CPU c switches context
    hook,       \* hook[c]: where frap_on_preempt() is, while level[c] # task
    hookres,    \* hookres[c]: the variable r of frap_on_preempt() on CPU c
    locks,      \* frap_lock() calls left
    wakes       \* timer wake-ups left

vars == <<coreVars, sch, level, hook, hookres, locks, wakes>>

TypeOK ==
    /\ CoreTypeOK
    /\ sch.ready \in Seq(Task)
    /\ sch.assigned \in [Cpu -> Task \cup {Null}]
    /\ sch.running \in [Cpu -> Task \cup {Null}]
    /\ sch.prio \in [Task -> 1 .. PrioMax]
    /\ sch.lock \in [Task -> {0, 1}]
    /\ sch.irqlock \in Cpu \cup {NoCpu}
    /\ level \in [Cpu -> {"task", "isr", "svc"}]
    /\ hook \in [Cpu -> {"test", "read", "remove", "lower"}]
    /\ hookres \in [Cpu -> Res \cup {Null}]

Init ==
    /\ CoreInit
    /\ sch = SchedInit(BasePrio, Affinity)
    /\ level = [c \in Cpu |-> "task"]
    /\ hook = [c \in Cpu |-> "test"]
    /\ hookres = [c \in Cpu |-> Null]
    /\ locks = Locks
    /\ wakes = Wakes

-----------------------------------------------------------------------------
\* t executes its own code on CPU c, outside any critical section.
Executes(c, t) ==
    level[c] = "task" /\ sch.assigned[c] = t /\ sch.irqcount[t] = 0

\* A scheduler call of t in a critical section, with result after.
Calls(c, after) ==
    /\ sch.irqlock = NoCpu
    /\ \E s \in {after} :
          /\ sch' = TaskCall(sch, c, s)
          /\ level' = [level EXCEPT ![c] =
                         IF s.assigned[c] = sch.assigned[c] THEN "task" ELSE "svc"]
    /\ UNCHANGED <<hook, hookres>>

NoCall == UNCHANGED <<sch, level, hook, hookres>>

(* frap_lock() *)
Lock(c, t, r) ==
    /\ Executes(c, t)
    /\ locks[t] > 0
    /\ LockEntry(t, r, sch.prio[t])
    /\ locks' = [locks EXCEPT ![t] = @ - 1]
    /\ NoCall /\ UNCHANGED wakes

Reject(c, t, r) ==
    /\ Executes(c, t)
    /\ locks[t] > 0
    /\ LockRejected(t, r, sch.prio[t])
    /\ locks' = [locks EXCEPT ![t] = @ - 1]
    /\ NoCall /\ UNCHANGED wakes

Raise(c, t) ==
    /\ Executes(c, t) /\ Raised(t)
    /\ Calls(c, SetPriority(sch, c, t, spin_prio[t]))

Check(c, t) == Executes(c, t) /\ CheckCancelled(t) /\ NoCall

Reraise(c, t) ==
    /\ Executes(c, t) /\ Reraised(t)
    /\ Calls(c, SetPriority(sch, c, t, spin_prio[t]))

\* Variant with a bug: sched_lock() is missing.
Enter_NoSchedLock(c, t) == Executes(c, t) /\ TryEnter(t) /\ NoCall

Enter(c, t) ==
    /\ Executes(c, t) /\ TryEnter(t)
    /\ sch' = [sch EXCEPT !.lock[t] = @ + 1]
    /\ UNCHANGED <<level, hook, hookres>>

Wait(c, t) == Executes(c, t) /\ TryWait(t) /\ NoCall

(* frap_unlock() *)
Release(c, t) == Executes(c, t) /\ ClearOwner(t) /\ NoCall

Unlock(c, t) ==
    /\ Executes(c, t) /\ LeaveNonPreemptive(t)
    /\ Calls(c, SchedUnlock(sch, c, t))

\* Variant with a bug: the priority is not restored.
Restore_Missing(c, t) == Executes(c, t) /\ Restored(t) /\ NoCall

Restore(c, t) ==
    /\ Executes(c, t) /\ Restored(t)
    /\ Calls(c, SetPriority(sch, c, t, base_prio[t]))

Finish(c, t) == Executes(c, t) /\ ForgetResource(t) /\ NoCall

(* Outside the protocol. *)

\* usleep(), or the end of the thread once its calls are made.
Sleep(c, t) ==
    /\ Executes(c, t)
    /\ pc[t] = "idle"
    /\ locks[t] = 0 \/ wakes[t] > 0
    /\ Calls(c, RemoveSelf(sch, c))
    /\ UNCHANGED <<coreVars, locks, wakes>>

\* A task switched out inside a critical section leaves it when it resumes.
Leave(c, t) ==
    /\ level[c] = "task" /\ sch.assigned[c] = t
    /\ sch.irqcount[t] > 0
    /\ sch' = LeaveSection(sch, t)
    /\ UNCHANGED <<coreVars, level, hook, hookres, locks, wakes>>

-----------------------------------------------------------------------------
(* Interrupts. *)

\* CPU c takes an interrupt, or is still in the handler that switched tasks and
\* has not reached nxsched_switch_context().
Interruptible(c) ==
    LET cur == sch.assigned[c] IN
    /\ \/ level[c] = "isr" /\ hook[c] = "test"
       \/ level[c] = "task" /\ (cur # Null => sch.irqcount[cur] = 0)
    /\ MayEnter(sch, c)

Interrupts(c, after) ==
    /\ \E s \in {after} :
          /\ sch' = IrqCall(s, c)
          /\ level' = [level EXCEPT ![c] =
                         IF s.assigned[c] = sch.running[c] THEN "task" ELSE "isr"]
    /\ UNCHANGED <<coreVars, hook, hookres, locks>>

\* A timer interrupt on CPU c wakes t.
Wake(c, t) ==
    /\ Interruptible(c)
    /\ sch.state[t] = "blocked" /\ wakes[t] > 0
    /\ wakes' = [wakes EXCEPT ![t] = @ - 1]
    /\ Interrupts(c, AddReadyToRun(sch, c, t))

\* The inter-processor scheduling interrupt.
HandleDelivery(c) ==
    /\ Interruptible(c)
    /\ sch.deliver[c] # "none"
    /\ Interrupts(c, ProcessDelivered(sch, c))
    /\ UNCHANGED wakes

(* nxsched_switch_context() -> frap_on_preempt(), then the end of the switch. *)
EndSwitch(c, s) ==
    /\ sch' = IF level[c] = "svc" THEN EndSyscall(s, c) ELSE EndInterrupt(s, c)
    /\ level' = [level EXCEPT ![c] = "task"]
    /\ hook' = [hook EXCEPT ![c] = "test"]
    /\ hookres' = [hookres EXCEPT ![c] = Null]

InHook(c, at) == level[c] # "task" /\ hook[c] = at

HookTest(c) ==
    LET old == sch.running[c] IN
    /\ InHook(c, "test")
    /\ IF old # Null /\ PreemptCancels(old, sch.prio[old], PrioOn(sch, c))
       THEN hook' = [hook EXCEPT ![c] = "read"] /\ UNCHANGED <<sch, level, hookres>>
       ELSE EndSwitch(c, sch)
    /\ UNCHANGED <<coreVars, locks, wakes>>

\* "r = oldtcb->frap_waiting_res".  With a null r the CPU faults at r->sl and
\* makes no further step.
HookRead(c) ==
    LET r == waiting_res[sch.running[c]] IN
    /\ InHook(c, "read")
    /\ r # Null
    /\ hookres' = [hookres EXCEPT ![c] = r]
    /\ hook' = [hook EXCEPT ![c] = "remove"]
    /\ UNCHANGED <<coreVars, sch, level, locks, wakes>>

\* list_delete() unlinks the node from the list it is in.  That is the list of r
\* unless the task has gone on to another resource since r was read.
ListOf(t, r) ==
    LET lists == {q \in Res : \E i \in 1 .. Len(fifo[q]) : fifo[q][i] = t}
    IN  IF lists = {} THEN r ELSE CHOOSE q \in lists : TRUE

HookCancel(c) ==
    /\ InHook(c, "remove")
    /\ CancelSpin(sch.running[c], ListOf(sch.running[c], hookres[c]))
    /\ hook' = [hook EXCEPT ![c] = "lower"]
    /\ UNCHANGED <<sch, level, hookres, locks, wakes>>

\* Variant with a bug: the cancelled task keeps its spin priority.
HookLower_Missing(c) ==
    /\ InHook(c, "lower")
    /\ EndSwitch(c, sch)
    /\ UNCHANGED <<coreVars, locks, wakes>>

HookLower(c) ==
    LET old == sch.running[c] IN
    /\ InHook(c, "lower")
    /\ MayEnter(sch, c)
    /\ EndSwitch(c, IrqCall(SetPriority(sch, c, old, base_prio[old]), c))
    /\ UNCHANGED <<coreVars, locks, wakes>>

-----------------------------------------------------------------------------
ProtocolStep(c, t) ==
    /\ \/ Raise(c, t) \/ Check(c, t) \/ Reraise(c, t) \/ Enter(c, t) \/ Wait(c, t)
       \/ Release(c, t) \/ Unlock(c, t) \/ Restore(c, t) \/ Finish(c, t)
    /\ UNCHANGED <<locks, wakes>>

TaskStep(c, t) ==
    \/ \E r \in Res : Lock(c, t, r) \/ Reject(c, t, r)
    \/ ProtocolStep(c, t)
    \/ Sleep(c, t)
    \/ Leave(c, t)

\* What CPU c does next if no interrupt arrives.
Run(c) ==
    \/ \E t \in Task : TaskStep(c, t)
    \/ HookTest(c) \/ HookRead(c) \/ HookCancel(c) \/ HookLower(c)

\* Every thread has ended: the system may stop.
AllDone == \A t \in Task : locks[t] = 0 /\ pc[t] = "idle" /\ sch.state[t] = "blocked"

Next ==
    \/ \E c \in Cpu : Run(c) \/ HandleDelivery(c) \/ (\E t \in Task : Wake(c, t))
    \/ AllDone /\ UNCHANGED vars

Spec == Init /\ [][Next]_vars

\* A CPU keeps executing, a raised interrupt is taken, a running timer expires.
Fairness ==
    /\ \A c \in Cpu : WF_vars(Run(c)) /\ WF_vars(HandleDelivery(c))
    /\ WF_vars(\E c \in Cpu, t \in Task : Wake(c, t))

FairSpec == Spec /\ Fairness

-----------------------------------------------------------------------------
(* Properties. *)

\* Two tasks are never in the critical section of one resource.
MutualExclusion ==
    \A t, u \in Task :
        pc[t] = "cs" /\ pc[u] = "cs" /\ waiting_res[t] = waiting_res[u] => t = u

\* The assertions of frap_on_preempt() hold where they stand: what the unlocked
\* test read about the old task is still true when the hook acts on it, although
\* other CPUs run in between.
HookAssertions ==
    \A c \in Cpu :
        /\ InHook(c, "read") => /\ ~in_cs[sch.running[c]]
                                /\ waiting_res[sch.running[c]] # Null
        /\ InHook(c, "remove") => enqueued[sch.running[c]]

\* A task in its critical section keeps a CPU, even if the hook of a CPU it has
\* left lowers its priority in the middle of it.
CriticalSectionRuns ==
    \A t \in Task : pc[t] \in {"cs", "exit"} => \E c \in Cpu : Executes(c, t)

\* A task leaves the protocol with the priority it entered it with.
PriorityRestored == \A t \in Task : pc[t] = "idle" => sch.prio[t] = BasePrio[t]

\* Every frap_lock() call that passes the argument checks is granted, and every
\* thread gets through all its calls and ends: nobody spins for ever behind a
\* queued task that cannot run.
EveryoneFinishes == <>[]AllDone

\* With pinned tasks the composition implements FrapLock, and through it the
\* abstract FIFO lock: the real scheduler never switches in a way FrapLock does
\* not foresee, and the hook always sees a task that is not running elsewhere.
Pinned == \A t \in Task : \E c \in Cpu : Affinity[t] = {c}
PinnedLock == INSTANCE FrapLock WITH
    CpuOf <- [t \in Task |-> CHOOSE c \in Cpu : Affinity[t] = {c}],
    prio <- sch.prio,
    lockcount <- sch.lock,
    awake <- [t \in Task |-> sch.state[t] # "blocked"],
    curr <- sch.assigned,
    switch <- [c \in Cpu |->
        CASE level[c] = "task" -> [old |-> Null, at |-> "none"]
          [] InHook(c, "test") -> [old |-> sch.running[c], at |-> level[c]]
          [] InHook(c, "read") -> [old |-> sch.running[c], at |-> "remove"]
          [] OTHER             -> [old |-> sch.running[c], at |-> hook[c]]]
ImplementsFrapLock == PinnedLock!Spec

=============================================================================
