------------------------------ MODULE FrapLock ------------------------------
(***************************************************************************)
(* FRAP on pinned tasks under any preemptive fixed-priority scheduler.     *)
(*                                                                         *)
(* The protocol steps are those of FrapCore.  The scheduler is reduced to  *)
(* what the protocol may rely on: a task runs only on its own CPU, a CPU   *)
(* is taken from a task only if its lockcount is zero, only by a ready     *)
(* task of at least its priority, and every switch runs frap_on_preempt()  *)
(* on the CPU before the new task executes.  WHEN a switch happens is left *)
(* open, so what holds here holds for every timing of interrupts and       *)
(* inter-processor calls.  FrapSmp implements this module with the real    *)
(* scheduler.                                                              *)
(***************************************************************************)
EXTENDS FrapCore

CONSTANTS
    Cpu,        \* the CPUs
    CpuOf       \* CpuOf[t]: the CPU t is pinned to with sched_setaffinity()

ASSUME CpuAssumption == CpuOf \in [Task -> Cpu]

VARIABLES
    prio,       \* tcb->sched_priority
    lockcount,  \* tcb->lockcount
    awake,      \* FALSE while the task sleeps (usleep)
    curr,       \* curr[c]: the task assigned to CPU c, Null for its idle task
    switch      \* switch[c]: a context switch in progress on CPU c

schedVars == <<prio, lockcount, awake, curr, switch>>
vars == <<coreVars, schedVars>>

(* A switch in progress: the task being switched out and the position in   *)
(* frap_on_preempt().                                                      *)
(*   none    no switch, curr[c] executes                                   *)
(*   isr     an interrupt handler replaced curr[c] and may do so again     *)
(*   svc     curr[c] gave the CPU up in a system call                      *)
(*   remove  the unlocked test passed, about to take r->sl                 *)
(*   lower   dequeued, about to call frap_set_prio(old, base)              *)
SwitchAt == {"none", "isr", "svc", "remove", "lower"}
NoSwitch == [old |-> Null, at |-> "none"]

TypeOK ==
    /\ CoreTypeOK
    /\ prio \in [Task -> 1 .. PrioMax]
    /\ lockcount \in [Task -> {0, 1}]
    /\ awake \in [Task -> BOOLEAN]
    /\ curr \in [Cpu -> Task \cup {Null}]
    /\ switch \in [Cpu -> [old : Task \cup {Null}, at : SwitchAt]]

Init ==
    /\ CoreInit
    /\ prio = BasePrio
    /\ lockcount = [t \in Task |-> 0]
    /\ awake = [t \in Task |-> FALSE]
    /\ curr = [c \in Cpu |-> Null]
    /\ switch = [c \in Cpu |-> NoSwitch]

-----------------------------------------------------------------------------
PrioOf(x, pr) == IF x = Null THEN 0 ELSE pr[x]   \* an idle task has priority 0

\* The tasks CPU c could run instead of curr[c], and the first of them.
Ready(c, aw) == {n \in Task : CpuOf[n] = c /\ aw[n] /\ n # curr[c]}
Best(c, aw, pr) == {n \in Ready(c, aw) : \A m \in Ready(c, aw) : pr[m] <= pr[n]}

Executes(t) == curr[CpuOf[t]] = t /\ switch[CpuOf[t]].at = "none"

\* nxsched_switch_running() and up_switch_context() at the end of a scheduler
\* call made by the running task t: t may lose its CPU.
MayYield(t, aw, pr) ==
    LET c == CpuOf[t] IN
    \/ UNCHANGED <<curr, switch>>
    \/ \E n \in Best(c, aw, pr) :
          /\ pr[n] >= pr[t]
          /\ curr' = [curr EXCEPT ![c] = n]
          /\ switch' = [switch EXCEPT ![c] = [old |-> t, at |-> "svc"]]

\* frap_set_prio(tcb, p) by the running task itself.
SetPrio(t, p) ==
    /\ prio' = [prio EXCEPT ![t] = p]
    /\ MayYield(t, awake, prio')
    /\ UNCHANGED <<lockcount, awake>>

-----------------------------------------------------------------------------
(* frap_lock() *)
Reject(t, r) ==
    /\ Executes(t)
    /\ LockRejected(t, r, prio[t])
    /\ UNCHANGED schedVars

Lock(t, r) ==
    /\ Executes(t)
    /\ LockEntry(t, r, prio[t])
    /\ UNCHANGED schedVars

Raise(t) == Executes(t) /\ Raised(t) /\ SetPrio(t, spin_prio[t])

Check(t) == Executes(t) /\ CheckCancelled(t) /\ UNCHANGED schedVars

Reraise(t) == Executes(t) /\ Reraised(t) /\ SetPrio(t, spin_prio[t])

\* Variant with a bug: sched_lock() is missing.
Enter_NoSchedLock(t) == Executes(t) /\ TryEnter(t) /\ UNCHANGED schedVars

\* sched_lock() is called inside the r->sl section.
Enter(t) ==
    /\ Executes(t)
    /\ TryEnter(t)
    /\ lockcount' = [lockcount EXCEPT ![t] = @ + 1]
    /\ UNCHANGED <<prio, awake, curr, switch>>

Wait(t) == Executes(t) /\ TryWait(t) /\ UNCHANGED schedVars

(* frap_unlock() *)
Release(t) == Executes(t) /\ ClearOwner(t) /\ UNCHANGED schedVars

\* Variant with a bug: sched_unlock() is missing.
SchedUnlock_Missing(t) == Executes(t) /\ LeaveNonPreemptive(t) /\ UNCHANGED schedVars

\* sched_unlock(): the lock count drops to zero and a task that became ready
\* meanwhile may run.
SchedUnlock(t) ==
    /\ Executes(t)
    /\ LeaveNonPreemptive(t)
    /\ lockcount' = [lockcount EXCEPT ![t] = @ - 1]
    /\ MayYield(t, awake, prio)
    /\ UNCHANGED <<prio, awake>>

\* Variant with a bug: the priority is not restored.
Restore_Missing(t) == Executes(t) /\ Restored(t) /\ UNCHANGED schedVars

Restore(t) == Executes(t) /\ Restored(t) /\ SetPrio(t, base_prio[t])

Finish(t) == Executes(t) /\ ForgetResource(t) /\ UNCHANGED schedVars

-----------------------------------------------------------------------------
(* The rest of the system as the protocol sees it. *)

\* usleep() outside the protocol: nxsched_remove_self() runs the best ready
\* task of the CPU, or the idle task.
Sleep(t) ==
    LET c == CpuOf[t]
        aw == [awake EXCEPT ![t] = FALSE]
    IN  /\ Executes(t)
        /\ pc[t] = "idle"
        /\ awake' = aw
        /\ IF Ready(c, aw) = {}
           THEN curr' = [curr EXCEPT ![c] = Null]
           ELSE \E n \in Best(c, aw, prio) : curr' = [curr EXCEPT ![c] = n]
        /\ switch' = [switch EXCEPT ![c] = [old |-> t, at |-> "svc"]]
        /\ UNCHANGED <<coreVars, prio, lockcount>>

\* An interrupt handler on CPU c (timer, round robin, inter-processor call)
\* replaces curr[c] by a ready task of at least its priority.
Displace(c, aw) ==
    /\ switch[c].at \in {"none", "isr"}
    /\ curr[c] # Null => lockcount[curr[c]] = 0
    /\ \E n \in Best(c, aw, prio) \ {switch[c].old} :
          /\ prio[n] >= PrioOf(curr[c], prio)
          /\ curr' = [curr EXCEPT ![c] = n]
    /\ switch' = [switch EXCEPT ![c] =
                     [old |-> IF @.at = "none" THEN curr[c] ELSE @.old,
                      at |-> "isr"]]

Preempt(c) == Displace(c, awake) /\ UNCHANGED <<coreVars, prio, lockcount, awake>>

\* The timer makes a sleeper ready and may preempt at once.
Wake(t) ==
    /\ ~awake[t]
    /\ awake' = [awake EXCEPT ![t] = TRUE]
    /\ UNCHANGED <<curr, switch>> \/ Displace(CpuOf[t], awake')
    /\ UNCHANGED <<coreVars, prio, lockcount>>

(* nxsched_switch_context() -> frap_on_preempt(switch[c].old, curr[c]) *)
HookTest(c) ==
    LET old == switch[c].old IN
    /\ switch[c].at \in {"isr", "svc"}
    /\ switch' = [switch EXCEPT ![c] =
          IF old # Null /\ PreemptCancels(old, prio[old], PrioOf(curr[c], prio))
          THEN [old |-> old, at |-> "remove"]
          ELSE NoSwitch]
    /\ UNCHANGED <<coreVars, prio, lockcount, awake, curr>>

HookCancel(c) ==
    /\ switch[c].at = "remove"
    /\ CancelSpin(switch[c].old, waiting_res[switch[c].old])
    /\ switch' = [switch EXCEPT ![c].at = "lower"]
    /\ UNCHANGED <<prio, lockcount, awake, curr>>

\* frap_set_prio(oldtcb, frap_base_prio): the task is not running and its new
\* priority is below curr[c]'s, so it only changes place in the ready list.
HookLower(c) ==
    LET old == switch[c].old IN
    /\ switch[c].at = "lower"
    /\ prio' = [prio EXCEPT ![old] = base_prio[old]]
    /\ switch' = [switch EXCEPT ![c] = NoSwitch]
    /\ UNCHANGED <<coreVars, lockcount, awake, curr>>

TaskStep(t) ==
    \/ \E r \in Res : Reject(t, r) \/ Lock(t, r)
    \/ Raise(t) \/ Check(t) \/ Reraise(t) \/ Enter(t) \/ Wait(t)
    \/ Release(t) \/ SchedUnlock(t) \/ Restore(t) \/ Finish(t)
    \/ Sleep(t) \/ Wake(t)

CpuStep(c) == Preempt(c) \/ HookTest(c) \/ HookCancel(c) \/ HookLower(c)

Next == (\E t \in Task : TaskStep(t)) \/ (\E c \in Cpu : CpuStep(c))

Spec == Init /\ [][Next]_vars

-----------------------------------------------------------------------------
(* Properties. *)

\* Two tasks are never inside the critical section of one resource, although
\* owner and queue are examined by CPUs that interleave with preemption hooks
\* and although frap_unlock() clears the owner without looking at it.
MutualExclusion ==
    \A t, u \in Task :
        pc[t] = "cs" /\ pc[u] = "cs" /\ waiting_res[t] = waiting_res[u] => t = u

\* The assertions of frap_unlock() (r->owner == tcb, tcb->frap_in_cs) can never
\* fire, and conversely no resource is owned by a task that is not using it.
OwnerIsHolder ==
    /\ \A t \in Task : pc[t] = "cs" => owner[waiting_res[t]] = t /\ in_cs[t]
    /\ \A r \in Res : owner[r] # Null =>
          pc[owner[r]] = "cs" /\ waiting_res[owner[r]] = r

\* No node twice; a node of t is linked.
OnceEach(s) == \A i, j \in 1 .. Len(s) : s[i] = s[j] => i = j
Occurs(t, s) == \E i \in 1 .. Len(s) : s[i] = t

\* frap_enqueued tells exactly whether the task's node is linked, once, in the
\* list of the resource it waits for: what list_delete() relies on when the
\* hook and frap_lock() unlink a node from two CPUs.
LinkedOnce == \A r \in Res : OnceEach(fifo[r])
LinkedIsFlagged ==
    \A r \in Res, t \in Task :
        Occurs(t, fifo[r]) => enqueued[t] /\ waiting_res[t] = r
FlaggedIsLinked ==
    \A t \in Task :
        enqueued[t] => pc[t] \in Spinning /\ Occurs(t, fifo[waiting_res[t]])
QueueIntegrity == LinkedOnce /\ LinkedIsFlagged /\ FlaggedIsLinked

\* Rule R2, "until frap_unlock() not preempted on the same core": whatever
\* becomes ready, a task in its critical section keeps its CPU until it has
\* given the resource back and left the non-preemptive region.
NonPreemptive == \A t \in Task : pc[t] \in {"cs", "exit"} => Executes(t)

\* The assertions of frap_on_preempt(): past the unlocked test the old task is
\* outside its critical section and still queued on a resource.
HookAssertions ==
    \A c \in Cpu : switch[c].at = "remove" =>
        LET old == switch[c].old IN
        ~in_cs[old] /\ waiting_res[old] # Null /\ enqueued[old]

\* Every priority the protocol borrowed is given back: outside the protocol a
\* task has the priority it was created with, however often it was preempted,
\* cancelled and raised again.
PriorityRestored == \A t \in Task : pc[t] = "idle" => prio[t] = BasePrio[t]

\* The bound FRAP's analysis rests on: because a preempted spinner leaves the
\* queue, each CPU has at most one task queued at a time, so a queue is never
\* longer than the number of CPUs.  It needs DistinctLevels: the hook ignores a
\* switch between equal priorities.
OneSpinnerPerCpu ==
    \A t, u \in Task :
        enqueued[t] /\ enqueued[u] /\ CpuOf[t] = CpuOf[u] => t = u

Levels(t) == {BasePrio[t]}
    \cup {SpinOf(t, r) : r \in {q \in Res : LockAccepts(t, q, BasePrio[t])}}
DistinctLevels ==
    \A t, u \in Task : t # u /\ CpuOf[t] = CpuOf[u] => Levels(t) \cap Levels(u) = {}

\* Refinement: with the scheduler hidden, FRAP is the FIFO lock of FrapSpec.
phaseBar == [t \in Task |->
    IF pc[t] \in Spinning THEN "waiting" ELSE IF pc[t] = "cs" THEN "holding" ELSE "out"]
reqBar == [t \in Task |->
    IF pc[t] \in Spinning \cup {"cs"} THEN waiting_res[t] ELSE Null]
Abstract == INSTANCE FrapSpec WITH
    phase <- phaseBar, req <- reqBar, holder <- owner, queue <- fifo

\* frap_lock(), frap_unlock() and the hook implement the abstract FIFO lock: no
\* step overtakes the head of a queue, and none loses or invents a waiter.
AbstractSpec == Abstract!Spec

=============================================================================
