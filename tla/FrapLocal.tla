----------------------------- MODULE FrapLocal ------------------------------
(***************************************************************************)
(* The local PCP variant, frap_local_lock() and frap_local_unlock(), used  *)
(* beside the global protocol by tasks that NxSched schedules: FrapSmp     *)
(* with the local calls added.                                             *)
(*                                                                         *)
(* A local call raises the caller to the ceiling, records it as the owner  *)
(* without looking at the previous one, and only then locks the scheduler; *)
(* the unlock opens the scheduler before it clears the owner.  The task    *)
(* can be preempted at each of these points.  r->ceiling is written and    *)
(* never read, so it is not kept.                                          *)
(***************************************************************************)
EXTENDS FrapSmp

CONSTANTS
    Ceiling,    \* Ceiling[r]: the argument the callers pass for r
    LocalRes,   \* LocalRes[t]: the resources t passes to frap_local_lock()
    Calls0      \* Calls0[t]: how many frap_local_lock() calls t makes

ASSUME LocalAssumption ==
    /\ Ceiling \in [Res -> 1 .. PrioMax]
    /\ LocalRes \in [Task -> SUBSET Res]
    /\ Calls0 \in [Task -> Nat]

VARIABLES
    lpc,        \* lpc[t]: the statement of the local calls t executes next
    lres,       \* lres[t]: the argument r of that call
    saved_prio, \* tcb->frap_saved_prio
    calls       \* frap_local_lock() calls left

localVars == <<lpc, lres, saved_prio, calls>>
lvars == <<vars, localVars>>

(* Program points.                                                         *)
(*   none     in neither call, holds no local resource                     *)
(*   raise    about to call frap_set_prio(tcb, eff)                        *)
(*   own      about to set r->owner                                        *)
(*   lock     about to call sched_lock()                                   *)
(*   cs       frap_local_lock() returned OK                                *)
(*   clear    preemptible again, about to clear r->owner                   *)
(*   restore  about to call frap_set_prio(tcb, restore)                    *)
(*   reset    about to clear frap_saved_prio                               *)
LocalLabel == {"none", "raise", "own", "lock", "cs", "clear", "restore", "reset"}

LTypeOK ==
    /\ TypeOK
    /\ lpc \in [Task -> LocalLabel]
    /\ lres \in [Task -> Res \cup {Null}]
    /\ saved_prio \in [Task -> 0 .. PrioMax]

LInit ==
    /\ Init
    /\ lpc = [t \in Task |-> "none"]
    /\ lres = [t \in Task |-> Null]
    /\ saved_prio = [t \in Task |-> 0]
    /\ calls = Calls0

-----------------------------------------------------------------------------
At(c, t, label) == Executes(c, t) /\ lpc[t] = label
LGoTo(t, label) == lpc' = [lpc EXCEPT ![t] = label]
Outside(c, t) == At(c, t, "none") /\ pc[t] = "idle"

(* frap_local_lock() *)
LocalReject(c, t, r) ==
    /\ Outside(c, t)
    /\ calls[t] > 0 /\ IsGlobal[r]
    /\ calls' = [calls EXCEPT ![t] = @ - 1]
    /\ UNCHANGED <<vars, lpc, lres, saved_prio>>

\* Variant with a bug: the entry priority is not saved.
LocalLock_NotSaved(c, t, r) ==
    /\ Outside(c, t)
    /\ calls[t] > 0 /\ ~IsGlobal[r]
    /\ calls' = [calls EXCEPT ![t] = @ - 1]
    /\ lres' = [lres EXCEPT ![t] = r]
    /\ LGoTo(t, "raise")
    /\ UNCHANGED <<vars, saved_prio>>

LocalLock(c, t, r) ==
    /\ Outside(c, t)
    /\ calls[t] > 0 /\ ~IsGlobal[r]
    /\ calls' = [calls EXCEPT ![t] = @ - 1]
    /\ lres' = [lres EXCEPT ![t] = r]
    /\ saved_prio' = [saved_prio EXCEPT ![t] = sch.prio[t]]
    /\ LGoTo(t, "raise")
    /\ UNCHANGED vars

\* Variant with a bug: the ceiling is compared the wrong way round.
Effective_Lower(t) == Min({sch.prio[t], Ceiling[lres[t]]})
Effective(t) == Max({sch.prio[t], Ceiling[lres[t]]})

LocalRaise(c, t) ==
    /\ At(c, t, "raise")
    /\ Calls(c, SetPriority(sch, c, t, Effective(t)))
    /\ LGoTo(t, "own")
    /\ UNCHANGED <<coreVars, locks, wakes, lres, saved_prio, calls>>

\* Under r->sl.
LocalOwn(c, t) ==
    /\ At(c, t, "own")
    /\ owner' = [owner EXCEPT ![lres[t]] = t]
    /\ LGoTo(t, "lock")
    /\ UNCHANGED <<pc, tcbVars, fifo, sch, level, hook, hookres, locks, wakes,
                   lres, saved_prio, calls>>

\* Variant with a bug: sched_lock() is missing.
LocalEnter_NoSchedLock(c, t) ==
    /\ At(c, t, "lock")
    /\ in_cs' = [in_cs EXCEPT ![t] = TRUE]
    /\ LGoTo(t, "cs")
    /\ UNCHANGED <<pc, waiting_res, base_prio, spin_prio, cancelled, enqueued, preempt_cnt,
                   resVars, sch, level, hook, hookres, locks, wakes, lres, saved_prio, calls>>

\* "sched_lock(); tcb->frap_in_cs = true".
LocalEnter(c, t) ==
    /\ At(c, t, "lock")
    /\ sch' = [sch EXCEPT !.lock[t] = @ + 1]
    /\ in_cs' = [in_cs EXCEPT ![t] = TRUE]
    /\ LGoTo(t, "cs")
    /\ UNCHANGED <<pc, waiting_res, base_prio, spin_prio, cancelled, enqueued, preempt_cnt,
                   resVars, level, hook, hookres, locks, wakes, lres, saved_prio, calls>>

(* frap_local_unlock() *)

\* Variant with a bug: sched_unlock() is missing.
LocalLeave_NoUnlock(c, t) ==
    /\ At(c, t, "cs")
    /\ in_cs' = [in_cs EXCEPT ![t] = FALSE]
    /\ LGoTo(t, "clear")
    /\ UNCHANGED <<pc, waiting_res, base_prio, spin_prio, cancelled, enqueued, preempt_cnt,
                   resVars, sch, level, hook, hookres, locks, wakes, lres, saved_prio, calls>>

\* "tcb->frap_in_cs = false; sched_unlock()".
LocalLeave(c, t) ==
    /\ At(c, t, "cs")
    /\ in_cs' = [in_cs EXCEPT ![t] = FALSE]
    /\ Calls(c, SchedUnlock(sch, c, t))
    /\ LGoTo(t, "clear")
    /\ UNCHANGED <<pc, waiting_res, base_prio, spin_prio, cancelled, enqueued, preempt_cnt,
                   resVars, locks, wakes, lres, saved_prio, calls>>

\* Under r->sl.
LocalClear(c, t) ==
    /\ At(c, t, "clear")
    /\ owner' = [owner EXCEPT ![lres[t]] = Null]
    /\ LGoTo(t, "restore")
    /\ UNCHANGED <<pc, tcbVars, fifo, sch, level, hook, hookres, locks, wakes,
                   lres, saved_prio, calls>>

\* The saved priority, or the current one if none is saved.
LocalRestore(c, t) ==
    /\ At(c, t, "restore")
    /\ Calls(c, SetPriority(sch, c, t, IF saved_prio[t] # 0 THEN saved_prio[t] ELSE sch.prio[t]))
    /\ LGoTo(t, "reset")
    /\ UNCHANGED <<coreVars, locks, wakes, lres, saved_prio, calls>>

LocalReset(c, t) ==
    /\ At(c, t, "reset")
    /\ saved_prio' = [saved_prio EXCEPT ![t] = 0]
    /\ lres' = [lres EXCEPT ![t] = Null]
    /\ LGoTo(t, "none")
    /\ UNCHANGED <<vars, calls>>

-----------------------------------------------------------------------------
LocalStep(c, t) ==
    \/ \E r \in LocalRes[t] : LocalLock(c, t, r) \/ LocalReject(c, t, r)
    \/ LocalRaise(c, t) \/ LocalOwn(c, t) \/ LocalEnter(c, t)
    \/ LocalLeave(c, t) \/ LocalClear(c, t) \/ LocalRestore(c, t) \/ LocalReset(c, t)

\* A step of the global protocol, or of a task in neither protocol.  A thread
\* ends only after its last local call.
GlobalStep(c, t) ==
    /\ lpc[t] = "none"
    /\ \/ \E r \in Res : Lock(c, t, r) \/ Reject(c, t, r)
       \/ ProtocolStep(c, t)
       \/ (calls[t] = 0 \/ wakes[t] > 0) /\ Sleep(c, t)
    /\ UNCHANGED localVars

LRun(c) ==
    \/ \E t \in Task : LocalStep(c, t) \/ GlobalStep(c, t)
    \/ /\ \/ \E t \in Task : Leave(c, t)
          \/ HookTest(c) \/ HookRead(c) \/ HookCancel(c) \/ HookLower(c)
       /\ UNCHANGED localVars

LInterrupt(c) ==
    /\ HandleDelivery(c) \/ (\E t \in Task : Wake(c, t))
    /\ UNCHANGED localVars

LAllDone == AllDone /\ \A t \in Task : calls[t] = 0 /\ lpc[t] = "none"

LNext ==
    \/ \E c \in Cpu : LRun(c) \/ LInterrupt(c)
    \/ LAllDone /\ UNCHANGED lvars

LSpec == LInit /\ [][LNext]_lvars

-----------------------------------------------------------------------------
(* Properties. *)

\* The assertions of frap_local_unlock() and the comment on the owner field: a
\* task in a local critical section is the recorded owner and is marked in_cs,
\* although neither call looks at who else is between its statements.
LocalOwner ==
    \A t \in Task : lpc[t] = "cs" => owner[lres[t]] = t /\ in_cs[t]

\* A local critical section is not preempted, not even by a task above the
\* ceiling, until sched_unlock().
LocalNonPreemptive ==
    \A t \in Task : lpc[t] = "cs" => \E c \in Cpu : Executes(c, t)

\* The ceiling protects the statements outside sched_lock() too: from the raise
\* to the restore no task of the CPU that starts below the ceiling and is not
\* itself raised runs.
CeilingProtects ==
    \A t, u \in Task :
        /\ t # u /\ Affinity[t] = Affinity[u]
        /\ lpc[t] \in {"own", "lock", "cs", "clear", "restore"}
        /\ sch.prio[u] < Ceiling[lres[t]]
        => \A c \in Cpu : ~Executes(c, u)

\* A task outside both protocols has the priority it was created with: what the
\* local and the global calls lend and save does not mix.
LocalPriorityRestored ==
    \A t \in Task : lpc[t] = "none" /\ pc[t] = "idle" => sch.prio[t] = BasePrio[t]

=============================================================================
