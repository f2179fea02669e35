------------------------------ MODULE FrapCore ------------------------------
(***************************************************************************)
(* The FRAP spin protocol of sched/frap: the per-task fields that the      *)
(* protocol adds to struct tcb_s, the resource descriptors, and the        *)
(* straight-line pieces of frap_lock(), frap_unlock() and                  *)
(* frap_on_preempt() between two points at which another CPU, an interrupt *)
(* or the scheduler can intervene.                                         *)
(*                                                                         *)
(* A piece changes only the protocol's own state.  What the same piece     *)
(* does to the scheduler (sched_lock(), nxsched_set_priority(), a context  *)
(* switch) is conjoined by the module that composes this one with a        *)
(* scheduler: FrapLock (any scheduler that respects priorities) or FrapSmp *)
(* (the SMP scheduler of sched/sched).                                     *)
(*                                                                         *)
(* The section under r->sl runs with interrupts disabled and is one step.  *)
(***************************************************************************)
EXTENDS Naturals, Sequences, NxTask

CONSTANTS
    Res,        \* the struct frap_res objects
    BasePrio,   \* BasePrio[t]: the priority t is created with
    SpinPrio,   \* SpinPrio[t][r]: the int t passes to frap_set_spin_prio() for r
    IsGlobal,   \* IsGlobal[r]: the is_global argument of frap_res_init()
    CntMod      \* frap_queue_preempt_cnt counts modulo CntMod (2^32 in C)

PrioMax == 255                      \* SCHED_PRIORITY_MAX; a priority is a uint8_t

ASSUME CoreAssumption ==
    /\ Null \notin Task \cup Res
    /\ BasePrio \in [Task -> 1 .. PrioMax]
    /\ SpinPrio \in [Task -> [Res -> Nat]]
    /\ IsGlobal \in [Res -> BOOLEAN]
    /\ CntMod \in Nat \ {0}

VARIABLES
    pc,             \* pc[t]: the statement t executes next
    waiting_res,    \* tcb->frap_waiting_res
    base_prio,      \* tcb->frap_base_prio
    spin_prio,      \* tcb->frap_spin_prio
    cancelled,      \* tcb->frap_cancelled
    in_cs,          \* tcb->frap_in_cs
    enqueued,       \* tcb->frap_enqueued
    preempt_cnt,    \* tcb->frap_queue_preempt_cnt
    owner,          \* r->owner
    fifo            \* r->fifo, head first

tcbVars == <<waiting_res, base_prio, spin_prio, cancelled, in_cs, enqueued, preempt_cnt>>
resVars == <<owner, fifo>>
coreVars == <<pc, tcbVars, resVars>>

-----------------------------------------------------------------------------
(* Program points.                                                         *)
(*   idle     not inside frap_lock()/frap_unlock(), holds nothing          *)
(*   raise    about to call frap_set_prio(tcb, spin_prio) for rule R1      *)
(*   check    top of the for(;;) loop, about to read frap_cancelled        *)
(*   reraise  about to call frap_set_prio() again after a cancellation     *)
(*   try      about to take r->sl                                          *)
(*   cs       frap_lock() returned OK                                      *)
(*   exit     owner cleared, still under sched_lock()                      *)
(*   restore  preemptible again, about to call frap_set_prio(base)         *)
(*   done     about to clear frap_waiting_res                              *)
Spinning == {"raise", "check", "reraise", "try"}
Label == {"idle", "cs", "exit", "restore", "done"} \cup Spinning

CoreTypeOK ==
    /\ pc \in [Task -> Label]
    /\ waiting_res \in [Task -> Res \cup {Null}]
    /\ base_prio \in [Task -> 0 .. PrioMax]
    /\ spin_prio \in [Task -> 0 .. PrioMax]
    /\ cancelled \in [Task -> BOOLEAN]
    /\ in_cs \in [Task -> BOOLEAN]
    /\ enqueued \in [Task -> BOOLEAN]
    /\ preempt_cnt \in [Task -> 0 .. CntMod - 1]
    /\ owner \in [Res -> Task \cup {Null}]
    /\ fifo \in [Res -> Seq(Task)]

(* A task control block is zeroed when it is allocated; frap_res_init()    *)
(* leaves no owner and an empty list.                                      *)
CoreInit ==
    /\ pc = [t \in Task |-> "idle"]
    /\ waiting_res = [t \in Task |-> Null]
    /\ base_prio = [t \in Task |-> 0]
    /\ spin_prio = [t \in Task |-> 0]
    /\ cancelled = [t \in Task |-> FALSE]
    /\ in_cs = [t \in Task |-> FALSE]
    /\ enqueued = [t \in Task |-> FALSE]
    /\ preempt_cnt = [t \in Task |-> 0]
    /\ owner = [r \in Res |-> Null]
    /\ fifo = [r \in Res |-> <<>>]

GoTo(t, label) == pc' = [pc EXCEPT ![t] = label]

-----------------------------------------------------------------------------
(* frap_queue.c.  Each operator is the new value of r->fifo; the flag      *)
(* frap_enqueued is updated by the caller's step from the same condition.  *)

\* list_delete(): the entries after the deleted node move up by one.
PositionOf(t, s) == CHOOSE i \in 1 .. Len(s) : s[i] = t
Delete(t, s) ==
    [i \in 1 .. Len(s) - 1 |-> IF i < PositionOf(t, s) THEN s[i] ELSE s[i + 1]]

QueueRemove(r, t) == IF enqueued[t] THEN Delete(t, fifo[r]) ELSE fifo[r]

\* Variants with a bug: frap_queue_enqueue_tail() without its "already queued"
\* test, and one that links the node at the head.
QueueTail_Again(r, t) == Append(fifo[r], t)
QueueTail_AtHead(r, t) == IF enqueued[t] THEN fifo[r] ELSE <<t>> \o fifo[r]
QueueTail(r, t) == IF enqueued[t] THEN fifo[r] ELSE Append(fifo[r], t)

-----------------------------------------------------------------------------
(* frap_lock(), called after frap_set_spin_prio().  p is sched_priority.   *)
(* The two stores and the tests touch nothing another task reads while the *)
(* caller is not queued, so the prologue is one step.                      *)

\* frap_set_spin_prio() narrows its argument to int8_t and stores it as uint8_t;
\* frap_get_spin_prio() reads it back: the value modulo 2^8.
SpinOf(t, r) == SpinPrio[t][r] % (PrioMax + 1)

\* "if (r == NULL || !r->is_global)" and "if (spin_prio < base)": -EINVAL.
LockAccepts(t, r, p) == IsGlobal[r] /\ SpinOf(t, r) >= p

LockRejected(t, r, p) ==
    /\ pc[t] = "idle"
    /\ ~LockAccepts(t, r, p)
    /\ spin_prio' = [spin_prio EXCEPT ![t] = SpinOf(t, r)]
    /\ UNCHANGED <<pc, waiting_res, base_prio, cancelled, in_cs, enqueued,
                   preempt_cnt, resVars>>

\* Variant with a bug: frap_base_prio is not saved.
LockEntry_NoBase(t, r, p) ==
    /\ pc[t] = "idle"
    /\ LockAccepts(t, r, p)
    /\ waiting_res' = [waiting_res EXCEPT ![t] = r]
    /\ spin_prio' = [spin_prio EXCEPT ![t] = SpinOf(t, r)]
    /\ cancelled' = [cancelled EXCEPT ![t] = FALSE]
    /\ in_cs' = [in_cs EXCEPT ![t] = FALSE]
    /\ GoTo(t, "raise")
    /\ UNCHANGED <<base_prio, enqueued, preempt_cnt, resVars>>

LockEntry(t, r, p) ==
    /\ pc[t] = "idle"
    /\ LockAccepts(t, r, p)
    /\ waiting_res' = [waiting_res EXCEPT ![t] = r]
    /\ base_prio' = [base_prio EXCEPT ![t] = p]
    /\ spin_prio' = [spin_prio EXCEPT ![t] = SpinOf(t, r)]
    /\ cancelled' = [cancelled EXCEPT ![t] = FALSE]
    /\ in_cs' = [in_cs EXCEPT ![t] = FALSE]
    /\ GoTo(t, "raise")
    /\ UNCHANGED <<enqueued, preempt_cnt, resVars>>

\* The statement after frap_set_prio(tcb, spin_prio), before and in the loop.
Raised(t) ==
    /\ pc[t] = "raise"
    /\ GoTo(t, "check")
    /\ UNCHANGED <<tcbVars, resVars>>

Reraised(t) ==
    /\ pc[t] = "reraise"
    /\ GoTo(t, "try")
    /\ UNCHANGED <<tcbVars, resVars>>

\* "if (tcb->frap_cancelled) { cnt++; frap_cancelled = false; ... }"
CheckCancelled(t) ==
    /\ pc[t] = "check"
    /\ IF cancelled[t]
       THEN /\ preempt_cnt' = [preempt_cnt EXCEPT ![t] = (@ + 1) % CntMod]
            /\ cancelled' = [cancelled EXCEPT ![t] = FALSE]
            /\ GoTo(t, "reraise")
       ELSE /\ GoTo(t, "try")
            /\ UNCHANGED <<preempt_cnt, cancelled>>
    /\ UNCHANGED <<waiting_res, base_prio, spin_prio, in_cs, enqueued, resVars>>

\* Variant with a bug: only the queue is looked at.
CanEnter_QueueOnly(t, r) == fifo[r] # <<>> => Head(fifo[r]) = t

\* r->owner == NULL and the queue is empty or headed by the caller.
CanEnter(t, r) ==
    /\ owner[r] = Null
    /\ fifo[r] # <<>> => Head(fifo[r]) = t

\* The section under r->sl when can_enter: frap_queue_enqueue_head_if_needed()
\* followed by frap_queue_remove() leaves an empty queue empty.
TryEnter(t) ==
    LET r == waiting_res[t] IN
    /\ pc[t] = "try"
    /\ CanEnter(t, r)
    /\ in_cs' = [in_cs EXCEPT ![t] = TRUE]
    /\ fifo' = [fifo EXCEPT ![r] = QueueRemove(r, t)]
    /\ enqueued' = [enqueued EXCEPT ![t] = FALSE]
    /\ owner' = [owner EXCEPT ![r] = t]
    /\ GoTo(t, "cs")
    /\ UNCHANGED <<waiting_res, base_prio, spin_prio, cancelled, preempt_cnt>>

\* The section under r->sl otherwise: frap_queue_enqueue_tail() and loop.
TryWait(t) ==
    LET r == waiting_res[t] IN
    /\ pc[t] = "try"
    /\ ~CanEnter(t, r)
    /\ fifo' = [fifo EXCEPT ![r] = QueueTail(r, t)]
    /\ enqueued' = [enqueued EXCEPT ![t] = TRUE]
    /\ GoTo(t, "check")
    /\ UNCHANGED <<waiting_res, base_prio, spin_prio, cancelled, in_cs,
                   preempt_cnt, owner>>

-----------------------------------------------------------------------------
(* frap_unlock().                                                          *)

\* Variant with a bug: the owner stays.
ClearOwner_Kept(t) == pc[t] = "cs" /\ GoTo(t, "exit") /\ UNCHANGED <<tcbVars, resVars>>

\* "r->owner = NULL" under r->sl.
ClearOwner(t) ==
    /\ pc[t] = "cs"
    /\ owner' = [owner EXCEPT ![waiting_res[t]] = Null]
    /\ GoTo(t, "exit")
    /\ UNCHANGED <<tcbVars, fifo>>

\* "tcb->frap_in_cs = false", followed by sched_unlock().
LeaveNonPreemptive(t) ==
    /\ pc[t] = "exit"
    /\ in_cs' = [in_cs EXCEPT ![t] = FALSE]
    /\ GoTo(t, "restore")
    /\ UNCHANGED <<waiting_res, base_prio, spin_prio, cancelled, enqueued,
                   preempt_cnt, resVars>>

\* The statement after frap_set_prio(tcb, tcb->frap_base_prio).
Restored(t) ==
    /\ pc[t] = "restore"
    /\ GoTo(t, "done")
    /\ UNCHANGED <<tcbVars, resVars>>

ForgetResource(t) ==
    /\ pc[t] = "done"
    /\ waiting_res' = [waiting_res EXCEPT ![t] = Null]
    /\ GoTo(t, "idle")
    /\ UNCHANGED <<base_prio, spin_prio, cancelled, in_cs, enqueued,
                   preempt_cnt, resVars>>

-----------------------------------------------------------------------------
(* frap_on_preempt(old, new), called from nxsched_switch_context().        *)

\* Variant with a bug: the hook does not ask whether the old task is queued.
PreemptCancels_Anyone(old, oldp, newp) == newp > oldp

\* The unlocked test at the top; oldp and newp are the sched_priority fields.
PreemptCancels(old, oldp, newp) == newp > oldp /\ enqueued[old]

\* Variant with a bug: cancelled, but left in the queue.
CancelSpin_Queued(old, r) ==
    /\ cancelled' = [cancelled EXCEPT ![old] = TRUE]
    /\ preempt_cnt' = [preempt_cnt EXCEPT ![old] = (@ + 1) % CntMod]
    /\ UNCHANGED <<pc, waiting_res, base_prio, spin_prio, in_cs, enqueued, resVars>>

\* The section under r->sl, for the resource r that frap_waiting_res named.
CancelSpin(old, r) ==
    /\ fifo' = [fifo EXCEPT ![r] = QueueRemove(r, old)]
    /\ enqueued' = [enqueued EXCEPT ![old] = FALSE]
    /\ cancelled' = [cancelled EXCEPT ![old] = TRUE]
    /\ preempt_cnt' = [preempt_cnt EXCEPT ![old] = (@ + 1) % CntMod]
    /\ UNCHANGED <<pc, waiting_res, base_prio, spin_prio, in_cs, owner>>

=============================================================================
