-------------------------------- MODULE NxSem --------------------------------
(***************************************************************************)
(* Semaphores, mutexes, priority inheritance and the timeouts that end a   *)
(* wait, in the build with CONFIG_PRIORITY_INHERITANCE, preallocated       *)
(* holders and no CONFIG_PRIORITY_PROTECT.                                 *)
(*                                                                         *)
(* The fast path of a call is one compare-and-swap without the critical    *)
(* section; the slow path is one critical section, entered some time after *)
(* the fast path has failed.  A task that blocks leaves the critical       *)
(* section, and executes the end of nxsem_wait_slow() when it resumes.     *)
(* Which task that can run does run is left open: the scheduler only       *)
(* restricts the order of the steps.                                       *)
(*                                                                         *)
(* A task holds at most one semaphore at a time, so that a holder is never *)
(* itself in a wait list.                                                  *)
(***************************************************************************)
EXTENDS Integers, Sequences, FiniteSets, FiniteSetsExt, SequencesExt, NxTask

CONSTANTS
    Mutex,      \* the semaphores of type SEM_TYPE_MUTEX
    Pool,       \* counting semaphores with SEM_PRIO_INHERIT: wait, then post
    Event,      \* counting semaphores with SEM_PRIO_NONE: posted by anybody
    Timed,      \* those that are waited for with nxsem_tickwait()
    Value0,     \* Value0[s]: the initial count of a counting semaphore
    BasePrio,   \* BasePrio[t]: tcb->base_priority
    Calls0,     \* Calls0[t]: bound on the calls t starts
    Events0,    \* bound on the posts by interrupt handlers
    Signals0,   \* bound on the signals that interrupt a wait
    Signalled,  \* the semaphores whose waiters may get a signal
    Deletable,  \* the tasks that task_delete() may end
    CarefulDelete \* a task is only deleted if no other task waits with or for it

Sem == Mutex \cup Pool \cup Event
Counting == Pool \cup Event
Inherit == Mutex \cup Pool

ASSUME SemAssumption ==
    /\ Null \notin Task \cup Sem /\ IsFiniteSet(Task)
    /\ Mutex \cap Counting = {} /\ Pool \cap Event = {}
    /\ Timed \subseteq Sem /\ Signalled \subseteq Sem
    /\ Deletable \subseteq Task /\ CarefulDelete \in BOOLEAN
    /\ Value0 \in [Counting -> Nat]
    /\ BasePrio \in [Task -> 1 .. 255]
    /\ Calls0 \in [Task -> Nat] /\ Events0 \in Nat /\ Signals0 \in Nat

VARIABLES
    count,      \* count[s]: sem->val.semcount
    mholder,    \* mholder[s]: sem->val.mholder, the holder and the blocking bit
    waitlist,   \* waitlist[s]: sem->waitlist
    holder,     \* holder[s][t]: counts of the entry of t in sem->hhead, 0 if none
    prio,       \* tcb->sched_priority
    errcode,    \* tcb->errcode
    waitdog,    \* tcb->waitdog is active
    alive,      \* the tasks nxsched_get_tcb() finds
    irqlock,    \* the task that keeps the critical section between two steps
    pc, sem,    \* where in a call a task is, and the argument of the call
    held,       \* held[t]: the semaphore t has taken and not yet given back
    calls, events, signals, \* what the bounds leave
    cut         \* history: the owners of a semaphore a wait for which was cut short

semVars == <<count, mholder, waitlist, holder>>
tcbVars == <<prio, errcode, waitdog, alive>>
userVars == <<pc, sem, held, calls>>
sysVars == <<semVars, tcbVars, irqlock, userVars, events, signals>>
vars == <<sysVars, cut>>

(* Program points.                                                         *)
(*   run      in no semaphore call                                         *)
(*   wait     fast path failed: about to run nxsem_wait_slow()             *)
(*   blocked  in the wait list, TSTATE_WAIT_SEM                            *)
(*   resumed  ready again, about to run the end of nxsem_wait_slow()       *)
(*   post     fast path failed: about to run nxsem_post_slow()             *)
Label == {"run", "wait", "blocked", "resumed", "post"}

Free == [tid |-> Null, blocking |-> FALSE]

TypeOK ==
    /\ count \in [Counting -> Int]
    /\ mholder \in [Mutex -> [tid : Task \cup {Null}, blocking : BOOLEAN]]
    /\ waitlist \in [Sem -> Seq(Task)]
    /\ holder \in [Sem -> [Task -> Nat]]
    /\ prio \in [Task -> 1 .. 255]
    /\ errcode \in [Task -> {"OK", "EINTR", "ETIMEDOUT"}]
    /\ waitdog \in [Task -> BOOLEAN]
    /\ alive \subseteq Task
    /\ irqlock \in alive \cup {Null}
    /\ pc \in [Task -> Label]
    /\ sem \in [Task -> Sem \cup {Null}]
    /\ held \in [Task -> Sem \cup {Null}]
    /\ cut \subseteq Task
    /\ \A s \in Sem : \A t \in Task :
         (pc[t] = "blocked" /\ sem[t] = s) <=> t \in Range(waitlist[s])

Init ==
    /\ count = Value0
    /\ mholder = [s \in Mutex |-> Free]
    /\ waitlist = [s \in Sem |-> << >>]
    /\ holder = [s \in Sem |-> [t \in Task |-> 0]]
    /\ prio = BasePrio
    /\ errcode = [t \in Task |-> "OK"]
    /\ waitdog = [t \in Task |-> FALSE]
    /\ alive = Task
    /\ irqlock = Null
    /\ pc = [t \in Task |-> "run"]
    /\ sem = [t \in Task |-> Null]
    /\ held = [t \in Task |-> Null]
    /\ calls = Calls0 /\ events = Events0 /\ signals = Signals0
    /\ cut = {}

-----------------------------------------------------------------------------
(* Lists and holders. *)

CanEnter(t) == irqlock \in {Null, t}

GoTo(t, label, s) ==
    /\ pc' = [pc EXCEPT ![t] = label]
    /\ sem' = [sem EXCEPT ![t] = s]

UsesCall(t) == calls[t] > 0 /\ calls' = [calls EXCEPT ![t] = @ - 1]

\* Variant with a bug: the list is kept in order of arrival.
AddPrioritized_Fifo(list, t) == Append(list, t)

\* nxsched_add_prioritized(): behind the last task of at least this priority.
AddPrioritized(list, t) ==
    LET n == Cardinality({i \in DOMAIN list : prio[list[i]] >= prio[t]})
    IN  InsertAt(list, n + 1, t)

\* Variant with a bug: the holder is not recorded.
AddHolder_Forgotten(s, t) == holder

\* nxsem_add_holder_tcb(): the holder array after one more count of t on s.
AddHolder(s, t) == IF s \in Inherit THEN [holder EXCEPT ![s][t] = @ + 1] ELSE holder

\* nxsem_boost_priority(): the priorities once t waits for s.
Boosted(s, t, hold) ==
    [u \in Task |-> IF hold[s][u] > 0 /\ prio[t] > prio[u] THEN prio[t] ELSE prio[u]]

\* nxsem_restore_priority() for the holders us, with what they still hold and
\* with the wait lists as they are when it is called.
Restored(us, hold, lists) ==
    [u \in Task |->
       IF u \in us /\ prio[u] # BasePrio[u]
       THEN Max({BasePrio[u]} \cup
                {prio[lists[s][1]] : s \in {r \in Sem : hold[r][u] > 0 /\ lists[r] # << >>}})
       ELSE prio[u]]

Holders(s, hold) == {u \in Task : hold[s][u] > 0}
Freed(s, hold) == IF s \in Mutex THEN [hold EXCEPT ![s] = [u \in Task |-> 0]] ELSE hold

-----------------------------------------------------------------------------
(* Waiting. *)

\* Counting semaphores with priority inheritance have no fast path.
HasFastPath(s) == s \notin Pool

Available(s) == IF s \in Mutex THEN mholder[s] = Free ELSE count[s] > 0

\* A task that has been given an event count holds nothing.
Gets(t, s) == held' = [held EXCEPT ![t] = IF s \in Inherit THEN s ELSE Null]

\* One compare-and-swap, or nxsem_trywait_slow() for a pool.
Take(t, s) ==
    /\ Available(s)
    /\ IF s \in Mutex
       THEN mholder' = [mholder EXCEPT ![s] = [tid |-> t, blocking |-> FALSE]] /\ UNCHANGED count
       ELSE count' = [count EXCEPT ![s] = @ - 1] /\ UNCHANGED mholder
    /\ holder' = IF s \in Pool THEN AddHolder(s, t) ELSE holder
    /\ Gets(t, s)
    /\ UNCHANGED <<waitlist, tcbVars, irqlock, pc, sem, events, signals>>

CanWait(t, s) == t \in alive /\ pc[t] = "run" /\ held[t] = Null

\* nxsem_wait()
Wait(t, s) ==
    /\ CanWait(t, s) /\ s \notin Timed
    /\ UsesCall(t)
    /\ \/ HasFastPath(s) /\ Take(t, s)
       \/ /\ ~(HasFastPath(s) /\ Available(s))
          /\ GoTo(t, "wait", s)
          /\ UNCHANGED <<semVars, tcbVars, irqlock, held, events, signals>>

\* nxsem_tickwait(): the critical section is kept until the task blocks.
TickWait(t, s) ==
    /\ CanWait(t, s) /\ s \in Timed
    /\ irqlock = Null
    /\ UsesCall(t)
    /\ \/ Take(t, s)
       \/ ~Available(s) /\ UNCHANGED <<semVars, tcbVars, irqlock, pc, sem, held, events, signals>>
       \/ /\ ~Available(s)
          /\ waitdog' = [waitdog EXCEPT ![t] = TRUE]
          /\ irqlock' = t
          /\ GoTo(t, "wait", s)
          /\ UNCHANGED <<semVars, prio, errcode, alive, held, events, signals>>


\* "If this now holds the mutex, set the holder TID and the lock bit".
TakeMutex(t, s) ==
    mholder' = [mholder EXCEPT ![s] = [tid |-> t, blocking |-> waitlist[s] # << >>]]

\* nxsem_wait_slow() finds the semaphore free, or its holder gone.
SlowTake(t) ==
    LET s == sem[t] IN
    /\ t \in alive /\ pc[t] = "wait" /\ CanEnter(t)
    /\ IF s \in Mutex
       THEN mholder[s].tid \notin alive /\ TakeMutex(t, s) /\ UNCHANGED <<count, holder>>
       ELSE /\ count[s] > 0
            /\ count' = [count EXCEPT ![s] = @ - 1]
            /\ holder' = AddHolder(s, t)
            /\ UNCHANGED mholder
    /\ Gets(t, s)
    /\ waitdog' = [waitdog EXCEPT ![t] = FALSE]
    /\ irqlock' = Null
    /\ GoTo(t, "run", Null)
    /\ UNCHANGED <<waitlist, prio, errcode, alive, calls, events, signals>>

\* It does not: the holder of a mutex is recorded now, the holders are boosted
\* and the task blocks.
SlowBlock(t) ==
    LET s == sem[t] IN
    /\ t \in alive /\ pc[t] = "wait" /\ CanEnter(t)
    /\ IF s \in Mutex
       THEN /\ mholder[s].tid \in alive
            /\ mholder' = [mholder EXCEPT ![s].blocking = TRUE]
            /\ holder' = AddHolder(s, mholder[s].tid)
            /\ UNCHANGED count
       ELSE /\ count[s] <= 0
            /\ count' = [count EXCEPT ![s] = @ - 1]
            /\ UNCHANGED <<mholder, holder>>
    /\ prio' = IF s \in Inherit THEN Boosted(s, t, holder') ELSE prio
    /\ errcode' = [errcode EXCEPT ![t] = "OK"]
    /\ waitlist' = [waitlist EXCEPT ![s] = AddPrioritized(@, t)]
    /\ irqlock' = Null
    /\ GoTo(t, "blocked", s)
    /\ UNCHANGED <<waitdog, alive, held, calls, events, signals>>

\* The end of nxsem_wait_slow() and of nxsem_tickwait().
Resume(t) ==
    LET s == sem[t] IN
    /\ t \in alive /\ pc[t] = "resumed" /\ CanEnter(t)
    /\ IF errcode[t] = "OK" THEN Gets(t, s) ELSE UNCHANGED held
    /\ IF errcode[t] = "OK" /\ s \in Mutex THEN TakeMutex(t, s) ELSE UNCHANGED mholder
    /\ waitdog' = [waitdog EXCEPT ![t] = FALSE]
    /\ GoTo(t, "run", Null)
    /\ UNCHANGED <<count, waitlist, holder, prio, errcode, alive, irqlock, calls, events, signals>>

-----------------------------------------------------------------------------
(* Posting. *)

\* Some task is blocked, as the fast and the slow path see it.
Blocking(s) == IF s \in Mutex THEN mholder[s].blocking ELSE count[s] < 0

Released(s) ==
    IF s \in Mutex
    THEN mholder' = [mholder EXCEPT ![s] = Free] /\ UNCHANGED count
    ELSE count' = [count EXCEPT ![s] = @ + 1] /\ UNCHANGED mholder

\* Tasks give back what they hold, and post events.
MayPost(t, s) ==
    /\ t \in alive /\ pc[t] = "run"
    /\ IF s \in Event
       THEN held[t] = Null /\ UsesCall(t)
       ELSE held[t] = s /\ UNCHANGED calls

\* nxsem_post(): one compare-and-swap unless some task is blocked.
Post(t, s) ==
    /\ MayPost(t, s)
    /\ \/ /\ HasFastPath(s) /\ ~Blocking(s)
          /\ Released(s)
          /\ held' = [held EXCEPT ![t] = Null]
          /\ UNCHANGED <<waitlist, holder, pc, sem>>
       \/ /\ ~HasFastPath(s) \/ Blocking(s)
          /\ GoTo(t, "post", s)
          /\ UNCHANGED <<semVars, held>>
    /\ UNCHANGED <<tcbVars, irqlock, events, signals>>

\* The task a post of s wakes.
Woken(s) == IF Blocking(s) /\ waitlist[s] # << >> THEN Head(waitlist[s]) ELSE Null

\* nxsem_release_holder(), nxsem_add_holder_tcb() and the entries that
\* nxsem_restore_baseprio() frees.
PostedHolders(s, t) ==
    CASE s \in Mutex -> [holder EXCEPT ![s] = [u \in Task |-> 0]]
      [] s \in Pool  -> [holder EXCEPT ![s] = [u \in Task |->
                           @[u] - (IF u = t THEN 1 ELSE 0) + (IF u = Woken(s) THEN 1 ELSE 0)]]
      [] s \in Event -> holder

\* Variant with a bug: the mutex is freed and the waiter left to take it.
HandOver_Frees(s, lists) == Free

\* The value of mholder when the mutex goes to the first waiter; a blocking mutex
\* without a waiter keeps its old holder.
HandOver(s, lists) ==
    IF Woken(s) = Null THEN mholder[s]
    ELSE [tid |-> Woken(s), blocking |-> lists[s] # << >>]

\* Variant with a bug: the pass of nxsem_restore_baseprio() over the running
\* task is missing.
ToRestore_Others(s, t) == Holders(s, holder) \ {t}

\* The holders nxsem_restore_baseprio() restores when a waiter was given s.
ToRestore(s, t) == IF s \in Inherit /\ Woken(s) # Null THEN Holders(s, holder) ELSE {}

\* nxsem_post_slow() by t, or by an interrupt handler.
PostSlow(s, t) ==
    LET woken == Woken(s)
        lists == IF woken = Null THEN waitlist ELSE [waitlist EXCEPT ![s] = Tail(@)]
    IN
    /\ waitlist' = lists
    /\ IF s \in Mutex /\ Blocking(s)
       THEN mholder' = [mholder EXCEPT ![s] = HandOver(s, lists)] /\ UNCHANGED count
       ELSE Released(s)
    /\ holder' = PostedHolders(s, t)
    /\ prio' = Restored(ToRestore(s, t), holder', lists)
    /\ waitdog' = [u \in Task |-> u # woken /\ waitdog[u]]
    /\ UNCHANGED <<errcode, alive, irqlock>>

SlowPost(t) ==
    LET s == sem[t] IN
    /\ t \in alive /\ pc[t] = "post" /\ CanEnter(t)
    /\ PostSlow(s, t)
    /\ held' = [held EXCEPT ![t] = Null]
    /\ pc' = [u \in Task |-> CASE u = t -> "run" [] u = Woken(s) -> "resumed" [] OTHER -> pc[u]]
    /\ sem' = [sem EXCEPT ![t] = Null]
    /\ UNCHANGED <<calls, events, signals>>

\* nxsem_post() in an interrupt handler.
InterruptPost(s) ==
    /\ s \in Event /\ events > 0
    /\ irqlock = Null \/ ~Blocking(s)
    /\ PostSlow(s, Null)
    /\ pc' = [u \in Task |-> IF u = Woken(s) THEN "resumed" ELSE pc[u]]
    /\ events' = events - 1
    /\ UNCHANGED <<sem, held, calls, signals>>

-----------------------------------------------------------------------------
(* Ending a wait. *)

\* nxsem_canceled(), with the wait lists as they are when it is called.
Canceled(s, lists) ==
    /\ prio' = Restored(Holders(s, holder), Freed(s, holder), lists)
    /\ holder' = Freed(s, holder)

\* dq_rem(): a node that is in no list has no neighbours, so that head and tail
\* become NULL and the list loses the nodes it has.
DqRem(list, t) == IF t \in Range(list) THEN RemoveFirst(list, t) ELSE << >>

\* Variant with a bug: the count taken by the wait is not given back.
Uncount_Kept(s) == UNCHANGED count

\* The count of a waiter is given back; a mutex has none.
Uncount(s) == count' = IF s \in Mutex THEN count ELSE [count EXCEPT ![s] = @ + 1]

\* nxsem_wait_irq(): the holders are restored with t still in the list.
WaitIrq(t, err) ==
    LET s == sem[t] IN
    /\ Canceled(s, waitlist)
    /\ waitlist' = [waitlist EXCEPT ![s] = DqRem(@, t)]
    /\ Uncount(s)
    /\ errcode' = [errcode EXCEPT ![t] = err]
    /\ pc' = [pc EXCEPT ![t] = "resumed"]
    /\ UNCHANGED <<mholder, sem>>

\* wd_expiration() calls nxsem_timeout() inside its critical section.
Expire(t) ==
    /\ waitdog[t] /\ irqlock = Null
    /\ waitdog' = [waitdog EXCEPT ![t] = FALSE]
    /\ \/ pc[t] = "blocked" /\ WaitIrq(t, "ETIMEDOUT")
       \/ pc[t] # "blocked" /\ UNCHANGED <<semVars, prio, errcode, pc, sem>>
    /\ UNCHANGED <<alive, irqlock, held, calls, events, signals>>

\* nxsig_tcbdispatch() for an unmasked signal, or nxnotify_cancellation() with
\* another error code, whatever the task waits for.
Signal(t) ==
    /\ signals > 0
    /\ t \in alive /\ pc[t] = "blocked" /\ irqlock = Null
    /\ sem[t] \in Signalled
    /\ WaitIrq(t, "EINTR")
    /\ signals' = signals - 1
    /\ UNCHANGED <<waitdog, alive, irqlock, held, calls, events>>

\* nxsem_release_all(): the holder entries of t are freed and one count given
\* back for each.
ReleaseAll(t) ==
    /\ holder' = [s \in Sem |-> [holder[s] EXCEPT ![t] = 0]]
    /\ count' = [s \in Counting |-> count[s] + IF holder[s][t] > 0 THEN 1 ELSE 0]

\* Variant with a bug: the task stays in the wait list.
Recover_StaysListed(t, lists) ==
    IF pc[t] = "blocked"
    THEN UNCHANGED semVars /\ UNCHANGED prio
    ELSE ReleaseAll(t) /\ UNCHANGED <<mholder, waitlist, prio>>

\* nxsem_recover(), with the wait lists its caller leaves: a wait is cancelled as
\* nxsem_wait_irq() does, and the blocking bit of a mutex cleared with its last
\* waiter.  A task that waits holds nothing that nxsem_release_all() could free.
Recover(t, lists) ==
    IF pc[t] = "blocked"
    THEN LET s == sem[t] IN
         /\ Canceled(s, lists)
         /\ waitlist' = [lists EXCEPT ![s] = DqRem(@, t)]
         /\ Uncount(s)
         /\ mholder' = IF s \in Mutex /\ waitlist'[s] = << >>
                       THEN [mholder EXCEPT ![s].blocking = FALSE] ELSE mholder
    ELSE ReleaseAll(t) /\ UNCHANGED <<mholder, waitlist, prio>>

\* nxsched_remove_readytorun() takes a task from whatever list it is in.
Unlisted(t) ==
    [s \in Sem |-> IF pc[t] = "blocked" /\ sem[t] = s THEN DqRem(waitlist[s], t) ELSE waitlist[s]]

\* nxtask_terminate(), which task_delete() and pthread_cancel() end in: the task
\* is unlinked, and then recovered.
Terminate(t) ==
    /\ t \in Deletable \cap alive /\ irqlock = Null
    /\ Recover(t, Unlisted(t))
    /\ waitdog' = [waitdog EXCEPT ![t] = FALSE]
    /\ alive' = alive \ {t}
    /\ pc' = [pc EXCEPT ![t] = "run"]
    /\ sem' = [sem EXCEPT ![t] = Null]
    /\ held' = [held EXCEPT ![t] = Null]
    /\ UNCHANGED <<errcode, irqlock, calls, events, signals>>

-----------------------------------------------------------------------------
(* Who owns and who waits. *)

\* t has s, or has been handed it and has not run yet.
Owns(t, s) ==
    t \in alive /\ (held[t] = s \/ (pc[t] = "resumed" /\ sem[t] = s /\ errcode[t] = "OK"))

Waits(t, s) == pc[t] = "blocked" /\ sem[t] = s

\* Nobody else waits for what t owns or waits for.
Undisturbing(t) ==
    \A s \in Sem : Owns(t, s) \/ Waits(t, s) => \A u \in Task \ {t} : ~Waits(u, s)

\* A step that ends the wait of t for s by a timeout, a signal or a cancellation.
CutShort(t, s) == Waits(t, s) /\ pc'[t] = "resumed" /\ errcode'[t] # "OK"

\* The history: a task is remembered from the moment a wait for what it owns is
\* cut short until it owns nothing and has its base priority again.
Remember ==
    cut' = {u \in Task :
              /\ u \in cut \/ \E s \in Inherit : Owns(u, s) /\ \E t \in Task : CutShort(t, s)
              /\ prio'[u] # BasePrio[u] \/ \E s \in Inherit : Owns(u, s)'}

-----------------------------------------------------------------------------
\* The steps that finish a call or leave a section the task is in.
Finish(t) ==
    \/ SlowTake(t) \/ SlowBlock(t) \/ Resume(t) \/ SlowPost(t)
    \/ \E s \in Inherit : Post(t, s)

Begin(t) ==
    \E s \in Sem : Wait(t, s) \/ TickWait(t, s) \/ (s \in Event /\ Post(t, s))

Done ==
    /\ \A t \in alive : pc[t] = "run" /\ held[t] = Null /\ calls[t] = 0
    /\ UNCHANGED sysVars

Delete(t) == Terminate(t) /\ (CarefulDelete => Undisturbing(t))

Step ==
    \/ \E t \in Task : Begin(t) \/ Finish(t) \/ Expire(t) \/ Signal(t) \/ Delete(t)
    \/ \E s \in Event : InterruptPost(s)
    \/ Done

Next == Step /\ Remember

\* Every task that can run does run in the end, and every armed timer expires.
Spec ==
    /\ Init /\ [][Next]_vars
    /\ \A t \in Task : WF_sysVars(Finish(t)) /\ WF_sysVars(Expire(t))

-----------------------------------------------------------------------------
(* Properties. *)

\* The comment on semcount: negative, it is the number of tasks in the wait list,
\* otherwise nobody waits.  And no count of a pool is lost or made up: every one
\* is available, held by a task or owed to a waiter, through hand-overs, fast and
\* slow paths, timeouts, signals and deletions.
CountsConserved ==
    /\ \A s \in Counting : Len(waitlist[s]) = Max({0, -count[s]})
    /\ \A s \in Pool : count[s] + Len(waitlist[s])
                       + Cardinality({t \in Task : Owns(t, s)}) = Value0[s]

\* The comment on mholder, "TID of the current holder": a mutex names a living
\* task exactly while that task owns it, so that two tasks never own it and a
\* mutex nobody owns can be taken.
HolderIsCurrent ==
    \A s \in Mutex : {t \in Task : Owns(t, s)} = {mholder[s].tid} \cap alive

\* Priority inheritance: whoever owns a mutex or a count of a pool runs at least
\* at the priority of every task waiting for it, also an owner that was handed
\* the mutex and has no holder entry yet.
HolderBoosted ==
    \A s \in Inherit : \A t, u \in Task :
        Owns(t, s) /\ Waits(u, s) => prio[t] >= prio[u]

\* A task that owns nothing has its base priority again, unless a wait for what
\* it owned was cut short.
BoostReturned ==
    \A t \in Task : prio[t] # BasePrio[t] => t \in cut \/ \E s \in Inherit : Owns(t, s)

\* A post wakes the most urgent waiter, whatever was changed in the list while it
\* waited.
MostUrgentFirst ==
    [][\A t, u \in Task : \A s \in Sem :
         /\ Waits(t, s) /\ Waits(u, s)
         /\ pc'[t] = "resumed" /\ errcode'[t] = "OK" /\ pc'[u] = "blocked"
         => prio[t] >= prio[u]]_vars


=============================================================================
