--------------------------- MODULE FrapSmpProofs ----------------------------
(***************************************************************************)
(* FRAP on the SMP scheduler, for every number of tasks, CPUs and          *)
(* resources and every assignment of priorities and affinities: mutual     *)
(* exclusion, tasks that keep their CPU in a critical section, and         *)
(* restored priorities hold even where tasks migrate; the assertions of    *)
(* frap_on_preempt() hold where every task is pinned to one CPU.           *)
(*                                                                         *)
(* The local calls of FrapLocal use some of the same fields, so the        *)
(* invariant has two parameters: loc is the set of tasks in a local        *)
(* critical section, up the set of tasks a local call has raised.  Both    *)
(* are empty in FrapSmp.                                                   *)
(***************************************************************************)
EXTENDS FrapSmp, NxSchedLemmas

-----------------------------------------------------------------------------
(* The inductive invariant, by theme. *)

\* What a program point says about the task's own fields.
FieldInv(loc, up) ==
    \A t \in Task :
        /\ pc[t] # "idle" => /\ waiting_res[t] \in Res /\ IsGlobal[waiting_res[t]]
                             /\ base_prio[t] = BasePrio[t]
                             /\ spin_prio[t] \in 1 .. PrioMax
        /\ enqueued[t] => pc[t] \in Spinning
        /\ in_cs[t] <=> pc[t] \in {"cs", "exit"} \/ t \in loc
        /\ pc[t] = "cs" => owner[waiting_res[t]] = t
        /\ t \in loc \cup up => pc[t] = "idle"

\* What it says about the fields of the scheduler.
LinkInv(s, loc, up) ==
    /\ \A t \in Task : s.prio[t] \in 1 .. PrioMax
    /\ \A t \in Task : s.lock[t] = IF pc[t] \in {"cs", "exit"} \/ t \in loc THEN 1 ELSE 0
    /\ \A t \in Task \ up : pc[t] \in {"idle", "done"} => s.prio[t] = BasePrio[t]

\* The scheduler's own part: a task that has locked it has a CPU and is outside
\* critical sections, and tasks run where their mask allows.
StateOK(s) ==
    /\ s \in SchedState /\ Placed(s)
    /\ s.aff = Affinity
    /\ \A t \in Task : s.lock[t] > 0 => s.state[t] = "running" /\ s.irqcount[t] = 0
    /\ \A d \in Cpu : s.assigned[d] # Null => d \in Affinity[s.assigned[d]]

\* A CPU that is not switching has loaded the context of its task; the task of a
\* switching CPU has not locked the scheduler.
CpuOK(s, lev) ==
    \A c \in Cpu :
        /\ Locked(s, c) => lev[c] = "task"
        /\ lev[c] = "task" => s.running[c] = s.assigned[c]
        /\ s.running[c] # Null => c \in Affinity[s.running[c]]

\* What the hook has found out about the old task.
HookInv ==
    \A c \in Cpu :
        /\ level[c] = "task" => hook[c] = "test"
        /\ hook[c] # "test" => /\ sch.running[c] \in Task
                               /\ base_prio[sch.running[c]] = BasePrio[sch.running[c]]
        /\ hook[c] = "remove" => hookres[c] \in Res

\* With pinned tasks: the old task cannot run before the hook is through with it.
PinInv ==
    Pinned => \A c \in Cpu :
        /\ hook[c] # "test" => pc[sch.running[c]] \in Spinning
        /\ hook[c] \in {"read", "remove"} => enqueued[sch.running[c]]

IInv(loc, up) ==
    /\ CoreTypeOK /\ FieldInv(loc, up)
    /\ LinkInv(sch, loc, up) /\ StateOK(sch) /\ CpuOK(sch, level)
    /\ level \in [Cpu -> {"task", "isr", "svc"}]
    /\ hook \in [Cpu -> {"test", "read", "remove", "lower"}]
    /\ hookres \in [Cpu -> Res \cup {Null}]
    /\ HookInv /\ PinInv

-----------------------------------------------------------------------------
(* The scheduler calls. *)

\* What a call on CPU c leaves behind: if the CPU changes its task, neither the
\* old nor the new one has locked the scheduler.
Effect(s, s2, c) ==
    /\ StateOK(s2)
    /\ s2.running = s.running /\ s2.irqlock = s.irqlock /\ s2.irqcount = s.irqcount
    /\ \A d \in Cpu \ {c} : s2.assigned[d] = s.assigned[d]
    /\ \A t \in Task : s2.lock[t] > 0 => s.lock[t] > 0
    /\ s2.assigned[c] # s.assigned[c] =>
          ~Locked(s2, c) /\ (s.assigned[c] # Null => s2.lock[s.assigned[c]] = 0)

LEMMA StateFields ==
    ASSUME NEW s, StateOK(s)
    PROVE  /\ s \in SchedState /\ Placed(s)
           /\ s.assigned \in [Cpu -> Task \cup {Null}] /\ s.running \in [Cpu -> Task \cup {Null}]
           /\ s.state \in [Task -> {"running", "ready", "blocked"}] /\ s.cpu \in [Task -> Cpu]
           /\ s.lock \in [Task -> {0, 1}] /\ s.irqcount \in [Task -> {0, 1}]
           /\ s.prio \in [Task -> Nat] /\ s.irqlock \in Cpu \cup {NoCpu}
BY DEF StateOK, SchedState

\* A locked task is the task of its CPU.
LEMMA LockedAssigned ==
    ASSUME NEW s, StateOK(s), NEW t \in Task, s.lock[t] > 0
    PROVE  s.cpu[t] \in Cpu /\ s.assigned[s.cpu[t]] = t /\ Locked(s, s.cpu[t])
<1>1. s.state[t] = "running" /\ s.cpu[t] \in Cpu
    BY StateFields DEF StateOK
<1>2. s.assigned[s.cpu[t]] = t
    BY <1>1, StateFields DEF Placed, Linked
<1> QED
    BY <1>1, <1>2, SchedAssumption DEF Locked

LEMMA RescheduledEffect ==
    ASSUME NEW s, StateOK(s), NEW c \in Cpu, NEW s2, Reschedules(s, s2, c), s2.aff = s.aff
    PROVE  Effect(s, s2, c) /\ s2.lock = s.lock
<1>1. /\ s2 \in SchedState /\ Placed(s2)
      /\ s2.running = s.running /\ s2.lock = s.lock
      /\ s2.irqlock = s.irqlock /\ s2.irqcount = s.irqcount
      /\ \A d \in Cpu \ {c} : s2.assigned[d] = s.assigned[d]
      /\ s2.assigned[c] # s.assigned[c] =>
            /\ ~Locked(s, c)
            /\ s2.assigned[c] \in Task /\ \A d \in Cpu : s.assigned[d] # s2.assigned[c]
            /\ c \in s2.aff[s2.assigned[c]]
    BY DEF Reschedules
<1>2. s.aff = Affinity /\ \A d \in Cpu : s.assigned[d] # Null => d \in Affinity[s.assigned[d]]
    BY DEF StateOK
<1>3. ASSUME NEW t \in Task, s2.lock[t] > 0
      PROVE  s2.state[t] = "running" /\ s2.irqcount[t] = 0
    <2>1. s.cpu[t] \in Cpu /\ s.assigned[s.cpu[t]] = t /\ Locked(s, s.cpu[t])
        BY <1>1, <1>3, LockedAssigned
    <2>2. s2.assigned[s.cpu[t]] = t
        BY <1>1, <2>1
    <2> QED
        BY <1>1, <1>3, <2>1, <2>2 DEF Placed, Linked, StateOK
<1>4. \A d \in Cpu : s2.assigned[d] # Null => d \in Affinity[s2.assigned[d]]
    BY <1>1, <1>2
<1>5. s2.assigned[c] # s.assigned[c] => ~Locked(s2, c)
    <2> SUFFICES ASSUME s2.assigned[c] # s.assigned[c], Locked(s2, c)
                 PROVE  FALSE
        OBVIOUS
    <2>1. s2.assigned[c] \in Task /\ s.lock[s2.assigned[c]] > 0
        BY <1>1 DEF Locked
    <2>2. s.assigned[s.cpu[s2.assigned[c]]] = s2.assigned[c] /\ s.cpu[s2.assigned[c]] \in Cpu
        BY <2>1, LockedAssigned
    <2> QED
        BY <1>1, <2>2
<1>6. s2.assigned[c] # s.assigned[c] /\ s.assigned[c] # Null => s2.lock[s.assigned[c]] = 0
    BY <1>1, StateFields DEF Locked
<1> QED
    BY <1>1, <1>2, <1>3, <1>4, <1>5, <1>6 DEF Effect, StateOK

LEMMA SetPriorityEffect ==
    ASSUME NEW s, StateOK(s), NEW c \in Cpu, NEW t \in Task, NEW p \in Nat
    PROVE  LET s2 == SetPriority(s, c, t, p) IN
           Effect(s, s2, c) /\ s2.lock = s.lock /\ s2.prio = [s.prio EXCEPT ![t] = p]
<1> DEFINE s2 == SetPriority(s, c, t, p)
<1>1. SetsPriority(s, s2, c, t, p)
    BY StateFields, SetPriorityStep
<1> HIDE DEF s2
<1>2. Reschedules(s, s2, c) /\ s2.aff = s.aff /\ s2.prio = [s.prio EXCEPT ![t] = p]
    BY <1>1 DEF SetsPriority
<1>3. Effect(s, s2, c) /\ s2.lock = s.lock
    BY <1>2, RescheduledEffect
<1> QED
    BY <1>2, <1>3 DEF s2

LEMMA WakeEffect ==
    ASSUME NEW s, StateOK(s), NEW c \in Cpu, NEW t \in Task, s.state[t] = "blocked"
    PROVE  LET s2 == AddReadyToRun(s, c, t) IN
           Effect(s, s2, c) /\ s2.lock = s.lock /\ s2.prio = s.prio
<1> DEFINE s2 == AddReadyToRun(s, c, t)
<1>1. s \in SchedState /\ Placed(s)
    BY StateFields
<1>2. Loose(s, t)
    BY <1>1 DEF Placed, Loose, Linked
<1>3. Reschedules(s, s2, c) /\ s2.prio = s.prio /\ s2.aff = s.aff
    BY <1>1, <1>2, AddReadyToRunStep
<1> HIDE DEF s2
<1>4. Effect(s, s2, c) /\ s2.lock = s.lock
    BY <1>3, RescheduledEffect
<1> QED
    BY <1>3, <1>4 DEF s2

LEMMA DeliveryEffect ==
    ASSUME NEW s, StateOK(s), NEW c \in Cpu
    PROVE  LET s2 == ProcessDelivered(s, c) IN
           Effect(s, s2, c) /\ s2.lock = s.lock /\ s2.prio = s.prio
<1> DEFINE s2 == ProcessDelivered(s, c)
<1>1. Reschedules(s, s2, c) /\ SameTasks(s, s2)
    BY StateFields, ProcessDeliveredStep
<1> HIDE DEF s2
<1>2. Effect(s, s2, c) /\ s2.lock = s.lock
    BY <1>1, RescheduledEffect DEF SameTasks
<1> QED
    BY <1>1, <1>2 DEF s2, SameTasks

LEMMA RemoveSelfEffect ==
    ASSUME NEW s, StateOK(s), NEW c \in Cpu, NEW t \in Task, s.assigned[c] = t, s.lock[t] = 0
    PROVE  LET s2 == RemoveSelf(s, c) IN
           Effect(s, s2, c) /\ s2.lock = s.lock /\ s2.prio = s.prio
<1> DEFINE s2 == RemoveSelf(s, c)
<1>1. /\ s2 \in SchedState /\ Placed(s2)
      /\ s2.running = s.running /\ s2.lock = s.lock
      /\ s2.irqlock = s.irqlock /\ s2.irqcount = s.irqcount
      /\ \A d \in Cpu \ {c} : s2.assigned[d] = s.assigned[d]
      /\ s2.assigned[c] # t
      /\ s2.assigned[c] # Null => \A d \in Cpu : s.assigned[d] # s2.assigned[c]
      /\ s2.prio = s.prio /\ s2.aff = s.aff /\ s2.state[t] = "blocked"
      /\ \A u \in Task \ {t} : s2.state[u] = "blocked" <=> s.state[u] = "blocked"
    BY StateFields, RemoveSelfStep
<1>2. s2.assigned[c] # Null => c \in s2.aff[s2.assigned[c]]
    BY StateFields, RemoveSelfMask
<1> HIDE DEF s2
<1>3. s.aff = Affinity /\ \A d \in Cpu : s.assigned[d] # Null => d \in Affinity[s.assigned[d]]
    BY DEF StateOK
<1>4. ASSUME NEW u \in Task, s2.lock[u] > 0
      PROVE  s2.state[u] = "running" /\ s2.irqcount[u] = 0
    <2>1. s.cpu[u] \in Cpu /\ s.assigned[s.cpu[u]] = u
        BY <1>1, <1>4, LockedAssigned
    <2>2. u # t
        BY <1>1, <1>4
    <2>3. s2.assigned[s.cpu[u]] = u
        BY <1>1, <2>1, <2>2
    <2> QED
        BY <1>1, <1>4, <2>1, <2>3 DEF Placed, Linked, StateOK
<1>5. \A d \in Cpu : s2.assigned[d] # Null => d \in Affinity[s2.assigned[d]]
    BY <1>1, <1>2, <1>3
<1>6. ~Locked(s2, c)
    <2> SUFFICES ASSUME Locked(s2, c)
                 PROVE  FALSE
        OBVIOUS
    <2>1. s2.assigned[c] # Null /\ s2.assigned[c] \in Task /\ s.lock[s2.assigned[c]] > 0
        BY <1>1 DEF Locked, SchedState
    <2>2. s.assigned[s.cpu[s2.assigned[c]]] = s2.assigned[c] /\ s.cpu[s2.assigned[c]] \in Cpu
        BY <2>1, LockedAssigned
    <2> QED
        BY <1>1, <2>1, <2>2
<1> QED
    BY <1>1, <1>3, <1>4, <1>5, <1>6 DEF Effect, StateOK, s2

LEMMA UnlockEffect ==
    ASSUME NEW s, StateOK(s), NEW c \in Cpu, NEW t \in Task, s.assigned[c] = t
    PROVE  LET s2 == SchedUnlock(s, c, t) IN
           Effect(s, s2, c) /\ s2.lock = [s.lock EXCEPT ![t] = 0] /\ s2.prio = s.prio
<1> DEFINE s1 == [s EXCEPT !.lock[t] = 0]
           s2 == SchedUnlock(s, c, t)
<1>1. /\ s1 \in SchedState /\ Placed(s1)
      /\ s1.lock = [s.lock EXCEPT ![t] = 0]
      /\ s1.assigned = s.assigned /\ s1.running = s.running /\ s1.irqlock = s.irqlock
      /\ s1.irqcount = s.irqcount /\ s1.prio = s.prio /\ s1.aff = s.aff
      /\ s1.deliver = s.deliver /\ s1.state = s.state /\ s1.ready = s.ready
    BY StateFields, LockChanged
<1>2. Reschedules(s1, s2, c) /\ SameTasks(s1, s2)
    BY StateFields, SchedUnlockStep
<1> HIDE DEF s1, s2
<1>3. s.lock \in [Task -> {0, 1}]
    BY StateFields
<1>4. StateOK(s1) /\ \A u \in Task : s1.lock[u] > 0 => s.lock[u] > 0
    BY <1>1, <1>3 DEF StateOK
<1>5. Effect(s1, s2, c) /\ s2.lock = s1.lock
    BY <1>2, <1>4, RescheduledEffect DEF SameTasks
<1>6. Effect(s, s2, c)
    BY <1>1, <1>4, <1>5 DEF Effect
<1> QED
    BY <1>1, <1>2, <1>5, <1>6 DEF s2, SameTasks

-----------------------------------------------------------------------------
(* The scheduler's part of the actions. *)

\* The part of a step that CPU c makes without finishing a context switch.
SchedMove(c) ==
    /\ StateOK(sch') /\ CpuOK(sch', level')
    /\ level' \in [Cpu -> {"task", "isr", "svc"}] /\ \A d \in Cpu \ {c} : level'[d] = level[d]
    /\ sch'.running = sch.running
    /\ UNCHANGED <<hook, hookres>>

\* A change of running, irqlock and irqcount that clears no lock.
LEMMA SameSchedOK ==
    ASSUME NEW s, StateOK(s), NEW s2, SameSched(s, s2),
           \A t \in Task : s.lock[t] > 0 => s2.irqcount[t] = 0
    PROVE  StateOK(s2) /\ s2.prio = s.prio /\ s2.lock = s.lock /\ s2.assigned = s.assigned
BY SameSchedPlaced DEF StateOK, SameSched

LEMMA CallsMove ==
    ASSUME NEW loc, NEW up, IInv(loc, up), NEW c \in Cpu, NEW t \in Task, NEW after,
           Executes(c, t), Effect(sch, after, c), Calls(c, after)
    PROVE  SchedMove(c) /\ sch'.prio = after.prio /\ sch'.lock = after.lock
<1>1. /\ sch' = TaskCall(sch, c, after) /\ UNCHANGED <<hook, hookres>>
      /\ level' = [level EXCEPT ![c] = IF after.assigned[c] = sch.assigned[c] THEN "task" ELSE "svc"]
    BY DEF Calls
<1>2. /\ StateOK(sch) /\ CpuOK(sch, level) /\ level \in [Cpu -> {"task", "isr", "svc"}]
      /\ sch.assigned[c] = t /\ level[c] = "task" /\ sch.assigned[c] \in Task
      /\ sch \in SchedState
    BY StateFields DEF IInv, Executes
<1>3. /\ StateOK(after) /\ after \in SchedState
      /\ after.running = sch.running /\ after.irqcount = sch.irqcount
      /\ \A d \in Cpu \ {c} : after.assigned[d] = sch.assigned[d]
      /\ \A u \in Task : after.lock[u] > 0 => sch.lock[u] > 0
      /\ after.assigned[c] # sch.assigned[c] =>
            ~Locked(after, c) /\ (sch.assigned[c] # Null => after.lock[sch.assigned[c]] = 0)
    BY StateFields DEF Effect
<1>4. /\ SameSched(after, sch')
      /\ sch'.running = after.running
      /\ after.assigned[c] = sch.assigned[c] =>
            sch'.irqlock = after.irqlock /\ sch'.irqcount = after.irqcount
      /\ after.assigned[c] # sch.assigned[c] =>
            sch'.irqlock = c /\ sch'.irqcount = [after.irqcount EXCEPT ![sch.assigned[c]] = 1]
    BY <1>1, <1>2, <1>3, TaskCallFields
<1>5. \A u \in Task : after.lock[u] > 0 => sch'.irqcount[u] = 0
    <2>1. after.irqcount \in [Task -> {0, 1}] /\ \A u \in Task : after.lock[u] > 0 => after.irqcount[u] = 0
        BY <1>3, StateFields DEF StateOK
    <2>2. CASE after.assigned[c] = sch.assigned[c]
        BY <1>4, <2>1, <2>2
    <2>3. CASE after.assigned[c] # sch.assigned[c]
        <3>1. after.lock[t] = 0 /\ sch'.irqcount = [after.irqcount EXCEPT ![t] = 1]
            BY <1>2, <1>3, <1>4, <2>3, SchedAssumption
        <3> QED
            BY <2>1, <3>1
    <2> QED
        BY <2>2, <2>3
<1>6. /\ StateOK(sch') /\ sch'.prio = after.prio /\ sch'.lock = after.lock
      /\ sch'.assigned = after.assigned
    BY <1>3, <1>4, <1>5, SameSchedOK
<1>7. ASSUME NEW d \in Cpu
      PROVE  /\ Locked(sch', d) => level'[d] = "task"
             /\ level'[d] = "task" => sch'.running[d] = sch'.assigned[d]
             /\ sch'.running[d] # Null => d \in Affinity[sch'.running[d]]
    <2>1. sch'.running[d] = sch.running[d]
        BY <1>3, <1>4
    <2>2. CASE d = c
        <3>1. level'[c] = IF after.assigned[c] = sch.assigned[c] THEN "task" ELSE "svc"
            BY <1>1, <1>2
        <3>2. Locked(sch', c) <=> Locked(after, c)
            BY <1>6 DEF Locked
        <3> QED
            BY <1>2, <1>3, <1>6, <2>1, <2>2, <3>1, <3>2 DEF CpuOK
    <2>3. CASE d # c
        <3>1. level'[d] = level[d] /\ sch'.assigned[d] = sch.assigned[d]
            BY <1>1, <1>2, <1>3, <1>6, <2>3
        <3>2. Locked(sch', d) => Locked(sch, d)
            BY <1>2, <1>3, <1>6, <3>1 DEF Locked, SchedState
        <3> QED
            BY <1>2, <2>1, <3>1, <3>2 DEF CpuOK
    <2> QED
        BY <2>2, <2>3
<1>8. level' \in [Cpu -> {"task", "isr", "svc"}] /\ \A d \in Cpu \ {c} : level'[d] = level[d]
    BY <1>1, <1>2
<1>9. CpuOK(sch', level')
    BY <1>7 DEF CpuOK
<1> QED
    BY <1>1, <1>3, <1>4, <1>6, <1>8, <1>9 DEF SchedMove

LEMMA InterruptsMove ==
    ASSUME NEW loc, NEW up, IInv(loc, up), NEW c \in Cpu, NEW after,
           Interruptible(c), Effect(sch, after, c), Interrupts(c, after)
    PROVE  /\ SchedMove(c) /\ sch'.prio = after.prio /\ sch'.lock = after.lock
           /\ hook[c] = "test"
<1>1. /\ sch' = IrqCall(after, c) /\ UNCHANGED <<hook, hookres>>
      /\ level' = [level EXCEPT ![c] = IF after.assigned[c] = sch.running[c] THEN "task" ELSE "isr"]
    BY DEF Interrupts
<1>2. /\ StateOK(sch) /\ CpuOK(sch, level) /\ level \in [Cpu -> {"task", "isr", "svc"}]
      /\ sch \in SchedState
    BY StateFields DEF IInv
<1>3. /\ StateOK(after) /\ after \in SchedState
      /\ after.running = sch.running /\ after.irqcount = sch.irqcount
      /\ \A d \in Cpu \ {c} : after.assigned[d] = sch.assigned[d]
      /\ \A u \in Task : after.lock[u] > 0 => sch.lock[u] > 0
      /\ after.assigned[c] # sch.assigned[c] => ~Locked(after, c)
    BY StateFields DEF Effect
<1>4. SameSched(after, sch') /\ sch'.running = after.running /\ sch'.irqcount = after.irqcount
    BY <1>1, <1>3, IrqCallFields
<1>5. \A u \in Task : after.lock[u] > 0 => sch'.irqcount[u] = 0
    BY <1>3, <1>4 DEF StateOK
<1>6. /\ StateOK(sch') /\ sch'.prio = after.prio /\ sch'.lock = after.lock
      /\ sch'.assigned = after.assigned
    BY <1>3, <1>4, <1>5, SameSchedOK
<1>7. ASSUME NEW d \in Cpu
      PROVE  /\ Locked(sch', d) => level'[d] = "task"
             /\ level'[d] = "task" => sch'.running[d] = sch'.assigned[d]
             /\ sch'.running[d] # Null => d \in Affinity[sch'.running[d]]
    <2>1. sch'.running[d] = sch.running[d]
        BY <1>3, <1>4
    <2>2. sch'.assigned[d] = sch.assigned[d] /\ Locked(sch', d) => Locked(sch, d)
        BY <1>2, <1>3, <1>6 DEF Locked, SchedState
    <2>3. CASE d = c
        <3>1. level'[c] = IF after.assigned[c] = sch.running[c] THEN "task" ELSE "isr"
            BY <1>1, <1>2
        <3>2. Locked(sch', c) => sch'.assigned[c] = sch.assigned[c]
            BY <1>3, <1>6 DEF Locked
        <3>3. Locked(sch', c) => after.assigned[c] = sch.running[c]
            BY <1>2, <1>6, <2>2, <2>3, <3>2 DEF CpuOK
        <3> QED
            BY <1>2, <1>6, <2>1, <2>3, <3>1, <3>3 DEF CpuOK
    <2>4. CASE d # c
        <3>1. level'[d] = level[d] /\ sch'.assigned[d] = sch.assigned[d]
            BY <1>1, <1>2, <1>3, <1>6, <2>4
        <3> QED
            BY <1>2, <2>1, <2>2, <3>1 DEF CpuOK
    <2> QED
        BY <2>3, <2>4
<1>8. level' \in [Cpu -> {"task", "isr", "svc"}] /\ \A d \in Cpu \ {c} : level'[d] = level[d]
    BY <1>1, <1>2
<1>9. CpuOK(sch', level')
    BY <1>7 DEF CpuOK
<1>10. hook[c] = "test"
    BY DEF Interruptible, IInv, HookInv
<1> QED
    BY <1>1, <1>3, <1>4, <1>6, <1>8, <1>9, <1>10 DEF SchedMove

\* The end of a context switch on CPU c, from a state s that differs from sch by
\* one scheduler call on c.
LEMMA EndSwitchOK ==
    ASSUME NEW loc, NEW up, IInv(loc, up), NEW c \in Cpu, NEW s, StateOK(s),
           s.running = sch.running, \A d \in Cpu \ {c} : s.assigned[d] = sch.assigned[d],
           s.lock = sch.lock, EndSwitch(c, s)
    PROVE  /\ StateOK(sch') /\ CpuOK(sch', level')
           /\ sch'.prio = s.prio /\ sch'.lock = s.lock
           /\ \A d \in Cpu \ {c} : sch'.running[d] = sch.running[d]
<1>1. /\ sch' = (IF level[c] = "svc" THEN EndSyscall(s, c) ELSE EndInterrupt(s, c))
      /\ level' = [level EXCEPT ![c] = "task"]
    BY DEF EndSwitch
<1>2. /\ CpuOK(sch, level) /\ level \in [Cpu -> {"task", "isr", "svc"}]
      /\ s \in SchedState
    BY StateFields DEF IInv
<1>3. /\ SameSched(s, sch') /\ sch'.irqcount = s.irqcount
      /\ sch'.running = [s.running EXCEPT ![c] = s.assigned[c]]
    <2>1. CASE level[c] = "svc"
        BY <1>1, <1>2, <2>1, EndSyscallFields
    <2>2. CASE level[c] # "svc"
        BY <1>1, <1>2, <2>2, EndInterruptFields
    <2> QED
        BY <2>1, <2>2
<1>4. /\ StateOK(sch') /\ sch'.prio = s.prio /\ sch'.lock = s.lock
      /\ sch'.assigned = s.assigned
    BY <1>3, SameSchedOK DEF StateOK
<1>5. ASSUME NEW d \in Cpu
      PROVE  /\ Locked(sch', d) => level'[d] = "task"
             /\ level'[d] = "task" => sch'.running[d] = sch'.assigned[d]
             /\ sch'.running[d] # Null => d \in Affinity[sch'.running[d]]
    <2>1. CASE d = c
        <3>1. level'[c] = "task" /\ sch'.running[c] = s.assigned[c]
            BY <1>1, <1>2, <1>3 DEF SchedState
        <3> QED
            BY <1>4, <2>1, <3>1 DEF StateOK
    <2>2. CASE d # c
        <3>1. /\ level'[d] = level[d] /\ sch'.assigned[d] = sch.assigned[d]
              /\ sch'.running[d] = sch.running[d]
            BY <1>1, <1>2, <1>3, <1>4, <2>2 DEF SchedState
        <3>2. Locked(sch', d) <=> Locked(sch, d)
            BY <1>4, <3>1 DEF Locked
        <3> QED
            BY <1>2, <3>1, <3>2 DEF CpuOK
    <2> QED
        BY <2>1, <2>2
<1>6. CpuOK(sch', level')
    BY <1>5 DEF CpuOK
<1>7. \A d \in Cpu \ {c} : sch'.running[d] = sch.running[d]
    BY <1>2, <1>3 DEF SchedState
<1> QED
    BY <1>4, <1>6, <1>7

\* sched_lock() by the task of c.
LEMMA LockMove ==
    ASSUME NEW loc, NEW up, IInv(loc, up), NEW c \in Cpu, NEW t \in Task, Executes(c, t), sch.lock[t] = 0,
           sch' = [sch EXCEPT !.lock[t] = @ + 1], UNCHANGED <<level, hook, hookres>>
    PROVE  SchedMove(c) /\ sch'.prio = sch.prio /\ sch'.lock = [sch.lock EXCEPT ![t] = 1]
<1>1. /\ StateOK(sch) /\ CpuOK(sch, level) /\ level \in [Cpu -> {"task", "isr", "svc"}]
      /\ sch \in SchedState /\ Placed(sch) /\ sch.lock \in [Task -> {0, 1}]
      /\ sch.assigned[c] = t /\ level[c] = "task" /\ sch.irqcount[t] = 0
    BY StateFields DEF IInv, Executes
<1> DEFINE s1 == [sch EXCEPT !.lock[t] = 1]
<1>2. sch' = s1
    BY <1>1 DEF SchedState
<1>3. /\ s1 \in SchedState /\ Placed(s1)
      /\ s1.lock = [sch.lock EXCEPT ![t] = 1]
      /\ s1.assigned = sch.assigned /\ s1.running = sch.running /\ s1.irqlock = sch.irqlock
      /\ s1.irqcount = sch.irqcount /\ s1.prio = sch.prio /\ s1.aff = sch.aff
      /\ s1.deliver = sch.deliver /\ s1.state = sch.state /\ s1.ready = sch.ready
    BY <1>1, LockChanged
<1> HIDE DEF s1
<1>4. sch.state[t] = "running" /\ \A d \in Cpu : sch.assigned[d] = t => d = c
    BY <1>1 DEF Placed, Linked
<1>5. StateOK(s1)
    BY <1>1, <1>3, <1>4 DEF StateOK
<1>6. \A d \in Cpu : Locked(s1, d) => Locked(sch, d) \/ d = c
    BY <1>1, <1>3, <1>4 DEF Locked, SchedState
<1>7. CpuOK(s1, level)
    BY <1>1, <1>3, <1>6 DEF CpuOK
<1> QED
    BY <1>1, <1>2, <1>3, <1>5, <1>7 DEF SchedMove

LEMMA NoMove ==
    ASSUME NEW loc, NEW up, IInv(loc, up), NEW c \in Cpu, UNCHANGED <<sch, level, hook, hookres>>
    PROVE  SchedMove(c) /\ sch' = sch
BY DEF SchedMove, IInv

LEMMA LeaveMove ==
    ASSUME NEW loc, NEW up, IInv(loc, up), NEW c \in Cpu, NEW t \in Task,
           sch' = LeaveSection(sch, t), UNCHANGED <<level, hook, hookres>>
    PROVE  SchedMove(c) /\ sch'.prio = sch.prio /\ sch'.lock = sch.lock
<1>1. /\ StateOK(sch) /\ CpuOK(sch, level) /\ level \in [Cpu -> {"task", "isr", "svc"}]
      /\ sch \in SchedState /\ sch.irqcount \in [Task -> {0, 1}]
    BY StateFields DEF IInv
<1>2. /\ SameSched(sch, sch') /\ sch'.running = sch.running
      /\ sch'.irqcount = [sch.irqcount EXCEPT ![t] = 0]
    BY <1>1, LeaveSectionFields
<1>3. \A u \in Task : sch.lock[u] > 0 => sch'.irqcount[u] = 0
    BY <1>1, <1>2 DEF StateOK
<1>4. StateOK(sch') /\ sch'.prio = sch.prio /\ sch'.lock = sch.lock /\ sch'.assigned = sch.assigned
    BY <1>1, <1>2, <1>3, SameSchedOK
<1>5. CpuOK(sch', level')
    BY <1>1, <1>2, <1>4 DEF CpuOK, Locked
<1> QED
    BY <1>1, <1>2, <1>4, <1>5 DEF SchedMove

-----------------------------------------------------------------------------
(* The protocol's part of the actions. *)

\* What a step of t does to the fields of the protocol.
CoreMove(t, loc, up) ==
    /\ CoreTypeOK' /\ FieldInv(loc, up)'
    /\ \A u \in Task \ {t} : pc'[u] = pc[u]
    /\ \A u \in Task : base_prio[u] = BasePrio[u] => base_prio'[u] = BasePrio[u]
    /\ \A u \in Task \ {t} : enqueued'[u] = enqueued[u]

LEMMA SpinOfType ==
    ASSUME NEW t \in Task, NEW r \in Res
    PROVE  SpinOf(t, r) \in 0 .. PrioMax
<1>1. SpinPrio[t][r] \in Nat
    BY CoreAssumption
<1> QED
    BY <1>1 DEF SpinOf, PrioMax

LEMMA CountType ==
    ASSUME NEW n \in 0 .. CntMod - 1
    PROVE  (n + 1) % CntMod \in 0 .. CntMod - 1
BY CoreAssumption

\* frap_queue_remove() leaves a list, wherever the node is.
LEMMA QueueRemoveType ==
    ASSUME CoreTypeOK, NEW t \in Task, NEW r \in Res
    PROVE  QueueRemove(r, t) \in Seq(Task)
<1>1. fifo[r] \in Seq(Task)
    BY DEF CoreTypeOK
<1>2. Delete(t, fifo[r]) \in Seq(Task)
    <2>1. CASE fifo[r] = <<>>
        <3>1. Len(fifo[r]) = 0
            BY <2>1
        <3>2. Delete(t, fifo[r]) = [i \in 1 .. 0 - 1 |->
                  IF i < PositionOf(t, fifo[r]) THEN fifo[r][i] ELSE fifo[r][i + 1]]
            BY <3>1 DEF Delete
        <3>3. 1 .. 0 - 1 = 1 .. 0
            OBVIOUS
        <3> QED
            BY <3>2, <3>3
    <2>2. CASE fifo[r] # <<>>
        <3> DEFINE n == Len(fifo[r]) - 1
                   k == PositionOf(t, fifo[r])
        <3>1. n \in Nat /\ Len(fifo[r]) = n + 1
            BY <1>1, <2>2
        <3> HIDE DEF k
        <3>2. \A i \in 1 .. n : fifo[r][i] \in Task /\ fifo[r][i + 1] \in Task
            BY <1>1, <3>1
        <3>3. Delete(t, fifo[r]) = [i \in 1 .. n |-> IF i < k THEN fifo[r][i] ELSE fifo[r][i + 1]]
            BY DEF Delete, k
        <3> HIDE DEF n
        <3>4. Delete(t, fifo[r]) \in [1 .. n -> Task]
            BY <3>2, <3>3
        <3> QED
            BY <3>1, <3>4
    <2> QED
        BY <2>1, <2>2
<1> QED
    BY <1>1, <1>2 DEF QueueRemove

LEMMA QueueTailType ==
    ASSUME CoreTypeOK, NEW t \in Task, NEW r \in Res
    PROVE  QueueTail(r, t) \in Seq(Task)
BY DEF QueueTail, CoreTypeOK

LEMMA ListOfType ==
    ASSUME NEW t \in Task, NEW r \in Res
    PROVE  ListOf(t, r) \in Res
BY DEF ListOf

USE DEF GoTo, coreVars, tcbVars, resVars

LEMMA LockEntryMove ==
    ASSUME NEW loc, NEW up, CoreTypeOK, FieldInv(loc, up), NEW t \in Task, NEW r \in Res, NEW p,
           t \notin loc \cup up, p = BasePrio[t], LockEntry(t, r, p)
    PROVE  CoreMove(t, loc, up)
<1>1. SpinOf(t, r) \in 1 .. PrioMax /\ p \in 1 .. PrioMax
    <2>1. SpinOf(t, r) \in 0 .. PrioMax /\ SpinOf(t, r) >= p /\ p \in 1 .. PrioMax
        BY SpinOfType, CoreAssumption DEF LockEntry, LockAccepts
    <2> QED
        BY <2>1 DEF PrioMax
<1>2. /\ pc' = [pc EXCEPT ![t] = "raise"] /\ waiting_res' = [waiting_res EXCEPT ![t] = r]
      /\ base_prio' = [base_prio EXCEPT ![t] = p] /\ cancelled' = [cancelled EXCEPT ![t] = FALSE]
      /\ spin_prio' = [spin_prio EXCEPT ![t] = SpinOf(t, r)]
      /\ in_cs' = [in_cs EXCEPT ![t] = FALSE]
      /\ UNCHANGED <<enqueued, preempt_cnt, owner, fifo>>
      /\ pc[t] = "idle" /\ IsGlobal[r]
    BY DEF LockEntry, LockAccepts
<1>3. p \in 0 .. PrioMax /\ SpinOf(t, r) \in 0 .. PrioMax
    BY <1>1 DEF PrioMax
<1>4. CoreTypeOK'
    BY <1>2, <1>3 DEF CoreTypeOK, Label, Spinning
<1>5. /\ pc'[t] = "raise" /\ waiting_res'[t] = r /\ base_prio'[t] = p
      /\ spin_prio'[t] = SpinOf(t, r) /\ in_cs'[t] = FALSE /\ ~enqueued[t]
      /\ \A u \in Task \ {t} :
            /\ pc'[u] = pc[u] /\ waiting_res'[u] = waiting_res[u] /\ base_prio'[u] = base_prio[u]
            /\ spin_prio'[u] = spin_prio[u] /\ in_cs'[u] = in_cs[u]
    BY <1>2 DEF CoreTypeOK, FieldInv, Spinning
<1>6. FieldInv(loc, up)'
    BY <1>1, <1>2, <1>5 DEF FieldInv, Spinning
<1> QED
    BY <1>2, <1>4, <1>5, <1>6 DEF CoreMove

LEMMA LockRejectedMove ==
    ASSUME NEW loc, NEW up, CoreTypeOK, FieldInv(loc, up), NEW t \in Task, NEW r \in Res,
           NEW p, LockRejected(t, r, p)
    PROVE  CoreMove(t, loc, up)
<1>1. CoreTypeOK'
    BY SpinOfType DEF LockRejected, CoreTypeOK
<1>2. FieldInv(loc, up)'
    BY DEF LockRejected, CoreTypeOK, FieldInv
<1> QED
    BY <1>1, <1>2 DEF CoreMove, LockRejected

LEMMA RaisedMove ==
    ASSUME NEW loc, NEW up, CoreTypeOK, FieldInv(loc, up), NEW t \in Task, Raised(t) \/ Reraised(t)
    PROVE  CoreMove(t, loc, up)
<1>1. CoreTypeOK'
    BY DEF Raised, Reraised, CoreTypeOK, Label, Spinning
<1>2. FieldInv(loc, up)'
    <2>1. /\ pc[t] \in Spinning /\ pc'[t] \in Spinning /\ \A u \in Task \ {t} : pc'[u] = pc[u]
          /\ UNCHANGED <<tcbVars, resVars>>
        BY DEF Raised, Reraised, CoreTypeOK, Spinning
    <2>2. \A l \in Spinning : l \notin {"idle", "cs", "exit"}
        BY DEF Spinning
    <2> QED
        BY <2>1, <2>2 DEF FieldInv
<1> QED
    BY <1>1, <1>2 DEF CoreMove, CoreTypeOK, Raised, Reraised

LEMMA CheckMove ==
    ASSUME NEW loc, NEW up, CoreTypeOK, FieldInv(loc, up), NEW t \in Task, CheckCancelled(t)
    PROVE  /\ CoreMove(t, loc, up)
           /\ \E l \in {"reraise", "try"} : pc' = [pc EXCEPT ![t] = l]
<1>1. preempt_cnt[t] \in 0 .. CntMod - 1
    BY DEF CoreTypeOK
<1>2. (preempt_cnt[t] + 1) % CntMod \in 0 .. CntMod - 1
    BY <1>1, CountType
<1>3. CASE cancelled[t]
    <2>1. CoreTypeOK'
        BY <1>2, <1>3 DEF CheckCancelled, CoreTypeOK, Label, Spinning
    <2>2. FieldInv(loc, up)'
        BY <1>3 DEF CheckCancelled, CoreTypeOK, FieldInv, Spinning
    <2> QED
        BY <1>3, <2>1, <2>2 DEF CoreMove, CoreTypeOK, CheckCancelled
<1>4. CASE ~cancelled[t]
    <2>1. CoreTypeOK'
        BY <1>4 DEF CheckCancelled, CoreTypeOK, Label, Spinning
    <2>2. FieldInv(loc, up)'
        BY <1>4 DEF CheckCancelled, CoreTypeOK, FieldInv, Spinning
    <2> QED
        BY <1>4, <2>1, <2>2 DEF CoreMove, CoreTypeOK, CheckCancelled
<1> QED
    BY <1>3, <1>4

\* Nobody else is in the critical section of a resource without an owner.
LEMMA TryEnterMove ==
    ASSUME NEW loc, NEW up, CoreTypeOK, FieldInv(loc, up), NEW t \in Task, TryEnter(t)
    PROVE  CoreMove(t, loc, up)
<1> DEFINE r == waiting_res[t]
<1>1. r \in Res /\ owner[r] = Null
    BY DEF TryEnter, CanEnter, FieldInv
<1>2. QueueRemove(r, t) \in Seq(Task)
    BY <1>1, QueueRemoveType
<1>3. CoreTypeOK'
    BY <1>1, <1>2 DEF TryEnter, CoreTypeOK, Label, Spinning
<1>4. \A u \in Task \ {t} : pc[u] = "cs" => waiting_res[u] \in Res \ {r}
    BY <1>1, CoreAssumption DEF FieldInv
<1>5. FieldInv(loc, up)'
    BY <1>1, <1>4 DEF TryEnter, CoreTypeOK, FieldInv, Spinning
<1> QED
    BY <1>3, <1>5 DEF CoreMove, TryEnter, CoreTypeOK

LEMMA TryWaitMove ==
    ASSUME NEW loc, NEW up, CoreTypeOK, FieldInv(loc, up), NEW t \in Task, TryWait(t)
    PROVE  CoreMove(t, loc, up)
<1> DEFINE r == waiting_res[t]
<1>1. r \in Res
    BY DEF TryWait, FieldInv
<1>2. QueueTail(r, t) \in Seq(Task)
    BY <1>1, QueueTailType
<1>3. CoreTypeOK'
    BY <1>1, <1>2 DEF TryWait, CoreTypeOK, Label, Spinning
<1>4. FieldInv(loc, up)'
    BY DEF TryWait, CoreTypeOK, FieldInv, Spinning
<1> QED
    BY <1>3, <1>4 DEF CoreMove, TryWait, CoreTypeOK

LEMMA ClearOwnerMove ==
    ASSUME NEW loc, NEW up, CoreTypeOK, FieldInv(loc, up), NEW t \in Task, ClearOwner(t)
    PROVE  CoreMove(t, loc, up)
<1>1. waiting_res[t] \in Res /\ owner[waiting_res[t]] = t
    BY DEF ClearOwner, FieldInv
<1>2. CoreTypeOK'
    BY <1>1 DEF ClearOwner, CoreTypeOK, Label, Spinning
<1>3. \A u \in Task \ {t} : pc[u] = "cs" => waiting_res[u] \in Res \ {waiting_res[t]}
    BY <1>1 DEF FieldInv
<1>4. FieldInv(loc, up)'
    BY <1>1, <1>3 DEF ClearOwner, CoreTypeOK, FieldInv, Spinning
<1> QED
    BY <1>2, <1>4 DEF CoreMove, CoreTypeOK, ClearOwner

LEMMA UnlockMove ==
    ASSUME NEW loc, NEW up, CoreTypeOK, FieldInv(loc, up), NEW t \in Task,
           LeaveNonPreemptive(t) \/ Restored(t) \/ ForgetResource(t)
    PROVE  CoreMove(t, loc, up)
<1>1. CASE LeaveNonPreemptive(t)
    <2>1. CoreTypeOK'
        BY <1>1 DEF LeaveNonPreemptive, CoreTypeOK, Label, Spinning
    <2>2. FieldInv(loc, up)'
        BY <1>1 DEF LeaveNonPreemptive, CoreTypeOK, FieldInv, Spinning
    <2> QED
        BY <1>1, <2>1, <2>2 DEF CoreMove, CoreTypeOK, LeaveNonPreemptive
<1>2. CASE Restored(t)
    <2>1. CoreTypeOK'
        BY <1>2 DEF Restored, CoreTypeOK, Label, Spinning
    <2>2. FieldInv(loc, up)'
        BY <1>2 DEF Restored, CoreTypeOK, FieldInv, Spinning
    <2> QED
        BY <1>2, <2>1, <2>2 DEF CoreMove, CoreTypeOK, Restored
<1>3. CASE ForgetResource(t)
    <2>1. CoreTypeOK'
        BY <1>3 DEF ForgetResource, CoreTypeOK, Label, Spinning
    <2>2. FieldInv(loc, up)'
        BY <1>3 DEF ForgetResource, CoreTypeOK, FieldInv, Spinning
    <2> QED
        BY <1>3, <2>1, <2>2 DEF CoreMove, CoreTypeOK, ForgetResource
<1> QED
    BY <1>1, <1>2, <1>3

\* The hook's section changes no program point, so it is sound whatever the old
\* task has done since the unlocked test.
LEMMA CancelSpinMove ==
    ASSUME NEW loc, NEW up, CoreTypeOK, FieldInv(loc, up), NEW t \in Task, NEW r \in Res, CancelSpin(t, r)
    PROVE  CoreMove(t, loc, up) /\ pc' = pc
<1>1. preempt_cnt[t] \in 0 .. CntMod - 1
    BY DEF CoreTypeOK
<1>2. (preempt_cnt[t] + 1) % CntMod \in 0 .. CntMod - 1
    BY <1>1, CountType
<1>3. QueueRemove(r, t) \in Seq(Task)
    BY QueueRemoveType
<1>4. CoreTypeOK'
    BY <1>2, <1>3 DEF CancelSpin, CoreTypeOK
<1>5. FieldInv(loc, up)'
    BY DEF CancelSpin, CoreTypeOK, FieldInv
<1> QED
    BY <1>4, <1>5 DEF CoreMove, CancelSpin, CoreTypeOK

-----------------------------------------------------------------------------
(* The steps preserve the invariant. *)

\* The task of c makes a step of the protocol and perhaps calls the scheduler.
\* The hook of another CPU that works on a pinned task does not work on this one.
LEMMA TaskMove ==
    ASSUME NEW loc, NEW up, IInv(loc, up), NEW c \in Cpu, NEW t \in Task,
           level[c] = "task", sch.assigned[c] = t,
           NEW loc2, NEW up2, CoreMove(t, loc2, up2), SchedMove(c), LinkInv(sch, loc2, up2)'
    PROVE  IInv(loc2, up2)'
<1>1. /\ StateOK(sch) /\ CpuOK(sch, level) /\ HookInv /\ PinInv
      /\ hook \in [Cpu -> {"test", "read", "remove", "lower"}]
      /\ hookres \in [Cpu -> Res \cup {Null}]
    BY DEF IInv
<1>2. /\ CoreTypeOK' /\ FieldInv(loc2, up2)'
      /\ \A u \in Task \ {t} : pc'[u] = pc[u]
      /\ \A u \in Task : base_prio[u] = BasePrio[u] => base_prio'[u] = BasePrio[u]
      /\ \A u \in Task \ {t} : enqueued'[u] = enqueued[u]
    BY DEF CoreMove
<1>3. /\ StateOK(sch') /\ CpuOK(sch', level')
      /\ level' \in [Cpu -> {"task", "isr", "svc"}] /\ \A d \in Cpu \ {c} : level'[d] = level[d]
      /\ sch'.running = sch.running /\ hook' = hook /\ hookres' = hookres
    BY DEF SchedMove
<1>4. hook[c] = "test"
    BY <1>1 DEF HookInv
<1>5. HookInv'
    BY <1>1, <1>2, <1>3, <1>4 DEF HookInv
<1>6. PinInv'
    <2> SUFFICES ASSUME Pinned, NEW d \in Cpu, hook[d] # "test"
                 PROVE  /\ pc'[sch.running[d]] \in Spinning
                        /\ hook[d] \in {"read", "remove"} => enqueued'[sch.running[d]]
        BY <1>3 DEF PinInv, Pinned
    <2>1. /\ sch.running[d] \in Task /\ pc[sch.running[d]] \in Spinning /\ d # c
          /\ hook[d] \in {"read", "remove"} => enqueued[sch.running[d]]
        BY <1>1, <1>4 DEF PinInv, HookInv
    <2>2. d \in Affinity[sch.running[d]] /\ c \in Affinity[t]
        BY <1>1, <2>1, SchedAssumption DEF CpuOK, StateOK
    <2>3. sch.running[d] # t
        BY <2>1, <2>2 DEF Pinned
    <2> QED
        BY <1>2, <2>1, <2>3
<1> QED
    BY <1>1, <1>2, <1>3, <1>5, <1>6 DEF IInv

\* A step that takes t to program point l and changes only t's scheduler fields.
LEMMA LinkKept ==
    ASSUME NEW loc, NEW up, IInv(loc, up), NEW t \in Task, t \notin loc, NEW l, pc' = [pc EXCEPT ![t] = l],
           sch'.prio[t] \in 1 .. PrioMax,
           l \in {"idle", "done"} /\ t \notin up => sch'.prio[t] = BasePrio[t],
           sch'.lock[t] = IF l \in {"cs", "exit"} THEN 1 ELSE 0,
           \A u \in Task \ {t} : sch'.prio[u] = sch.prio[u] /\ sch'.lock[u] = sch.lock[u]
    PROVE  LinkInv(sch, loc, up)'
<1>1. LinkInv(sch, loc, up) /\ pc \in [Task -> Label]
    BY DEF IInv, CoreTypeOK
<1>2. pc'[t] = l /\ \A u \in Task \ {t} : pc'[u] = pc[u]
    BY <1>1
<1> QED
    BY <1>1, <1>2 DEF LinkInv

\* What the invariant says of the task that makes a step.
LEMMA StepFacts ==
    ASSUME NEW loc, NEW up, IInv(loc, up), NEW t \in Task
    PROVE  /\ CoreTypeOK /\ FieldInv(loc, up) /\ LinkInv(sch, loc, up) /\ StateOK(sch)
           /\ sch.prio \in [Task -> Nat] /\ sch.lock \in [Task -> {0, 1}]
           /\ sch.prio[t] \in 1 .. PrioMax /\ base_prio[t] \in 0 .. PrioMax
           /\ sch.lock[t] = IF pc[t] \in {"cs", "exit"} \/ t \in loc THEN 1 ELSE 0
           /\ pc[t] \in {"idle", "done"} /\ t \notin up => sch.prio[t] = BasePrio[t]
           /\ pc[t] # "idle" => t \notin loc \cup up
           /\ pc[t] # "idle" => /\ spin_prio[t] \in 1 .. PrioMax /\ spin_prio[t] \in Nat
                                /\ base_prio[t] = BasePrio[t]
           /\ BasePrio[t] \in 1 .. PrioMax /\ BasePrio[t] \in Nat
<1>1. CoreTypeOK /\ FieldInv(loc, up) /\ LinkInv(sch, loc, up) /\ StateOK(sch)
    BY DEF IInv
<1>2. sch.prio \in [Task -> Nat] /\ sch.lock \in [Task -> {0, 1}]
    BY <1>1, StateFields
<1>3. /\ sch.prio[t] \in 1 .. PrioMax
      /\ sch.lock[t] = IF pc[t] \in {"cs", "exit"} \/ t \in loc THEN 1 ELSE 0
      /\ pc[t] \in {"idle", "done"} /\ t \notin up => sch.prio[t] = BasePrio[t]
    BY <1>1 DEF LinkInv
<1>4. pc[t] # "idle" => /\ spin_prio[t] \in 1 .. PrioMax /\ base_prio[t] = BasePrio[t]
                        /\ t \notin loc \cup up
    BY <1>1 DEF FieldInv
<1>5. base_prio[t] \in 0 .. PrioMax
    BY <1>1 DEF CoreTypeOK
<1>6. BasePrio[t] \in 1 .. PrioMax
    BY CoreAssumption
<1>7. \A n \in 1 .. PrioMax : n \in Nat
    BY DEF PrioMax
<1> QED
    BY <1>1, <1>2, <1>3, <1>4, <1>5, <1>6, <1>7

\* A protocol step without a call of the scheduler.
LEMMA QuietStep ==
    ASSUME NEW loc, NEW up, IInv(loc, up), NEW c \in Cpu, NEW t \in Task, t \notin loc,
           Executes(c, t), NoCall,
           CoreMove(t, loc, up), NEW l, pc' = [pc EXCEPT ![t] = l],
           l \in {"cs", "exit"} <=> pc[t] \in {"cs", "exit"},
           l \in {"idle", "done"} => pc[t] \in {"idle", "done"}
    PROVE  IInv(loc, up)'
<1>1. SchedMove(c) /\ sch' = sch
    BY NoMove DEF NoCall
<1>2. LinkInv(sch, loc, up)'
    BY <1>1, StepFacts, LinkKept
<1> QED
    BY <1>1, <1>2, TaskMove DEF Executes

\* frap_set_prio() on the caller.
LEMMA SetPrioStep ==
    ASSUME NEW loc, NEW up, IInv(loc, up), NEW c \in Cpu, NEW t \in Task, t \notin loc, Executes(c, t),
           NEW p \in 1 .. PrioMax, Calls(c, SetPriority(sch, c, t, p)),
           CoreMove(t, loc, up), NEW l, pc' = [pc EXCEPT ![t] = l],
           pc[t] \notin {"cs", "exit"}, l \notin {"cs", "exit"},
           l \in {"idle", "done"} => p = BasePrio[t]
    PROVE  IInv(loc, up)'
<1> DEFINE after == SetPriority(sch, c, t, p)
<1>1. p \in Nat
    BY DEF PrioMax
<1>2. Effect(sch, after, c) /\ after.lock = sch.lock /\ after.prio = [sch.prio EXCEPT ![t] = p]
    BY <1>1, StepFacts, SetPriorityEffect
<1> HIDE DEF after
<1>3. SchedMove(c) /\ sch'.prio = after.prio /\ sch'.lock = after.lock
    BY <1>2, CallsMove DEF after
<1>4. /\ sch'.prio[t] = p /\ sch'.lock[t] = 0
      /\ \A u \in Task \ {t} : sch'.prio[u] = sch.prio[u] /\ sch'.lock[u] = sch.lock[u]
    BY <1>2, <1>3, StepFacts
<1>5. LinkInv(sch, loc, up)'
    BY <1>4, LinkKept
<1> QED
    BY <1>3, <1>5, TaskMove DEF Executes

LEMMA LockStep ==
    ASSUME NEW loc, NEW up, IInv(loc, up), NEW c \in Cpu, NEW t \in Task, t \notin loc \cup up,
           NEW r \in Res, Lock(c, t, r) \/ Reject(c, t, r)
    PROVE  IInv(loc, up)'
<1>1. CASE Lock(c, t, r)
    <2>1. Executes(c, t) /\ NoCall /\ LockEntry(t, r, sch.prio[t])
        BY <1>1 DEF Lock
    <2>2. pc[t] = "idle" /\ pc' = [pc EXCEPT ![t] = "raise"]
        BY <2>1 DEF LockEntry
    <2>3. CoreMove(t, loc, up)
        BY <2>1, <2>2, StepFacts, LockEntryMove
    <2> QED
        BY <2>1, <2>2, <2>3, QuietStep
<1>2. CASE Reject(c, t, r)
    <2>1. Executes(c, t) /\ NoCall /\ LockRejected(t, r, sch.prio[t])
        BY <1>2 DEF Reject
    <2>2. pc[t] = "idle" /\ pc' = [pc EXCEPT ![t] = "idle"]
        BY <2>1 DEF LockRejected, IInv, CoreTypeOK
    <2>3. CoreMove(t, loc, up)
        BY <2>1, StepFacts, LockRejectedMove
    <2> QED
        BY <2>1, <2>2, <2>3, QuietStep
<1> QED
    BY <1>1, <1>2

LEMMA ProtocolStepOK ==
    ASSUME NEW loc, NEW up, IInv(loc, up), NEW c \in Cpu, NEW t \in Task, ProtocolStep(c, t)
    PROVE  IInv(loc, up)'
<1>0. CoreTypeOK /\ FieldInv(loc, up)
    BY DEF IInv
<1>b. pc[t] # "idle" => t \notin loc
    BY StepFacts
<1>1. CASE Raise(c, t)
    <2>1. Executes(c, t) /\ Raised(t) /\ Calls(c, SetPriority(sch, c, t, spin_prio[t]))
        BY <1>1 DEF Raise
    <2>2. pc[t] = "raise" /\ pc' = [pc EXCEPT ![t] = "check"] /\ spin_prio[t] \in 1 .. PrioMax
        BY <2>1, StepFacts DEF Raised
    <2>3. CoreMove(t, loc, up)
        BY <1>0, <2>1, RaisedMove
    <2>4. /\ pc[t] \notin {"cs", "exit"} /\ "check" \notin {"cs", "exit"}
          /\ "check" \in {"idle", "done"} => spin_prio[t] = BasePrio[t]
        BY <2>2
    <2> QED
        BY <1>b, <2>1, <2>2, <2>3, <2>4, SetPrioStep
<1>2. CASE Check(c, t)
    <2>1. Executes(c, t) /\ CheckCancelled(t) /\ NoCall /\ pc[t] = "check"
        BY <1>2 DEF Check, CheckCancelled
    <2>2. CoreMove(t, loc, up) /\ \E l \in {"reraise", "try"} : pc' = [pc EXCEPT ![t] = l]
        BY <1>0, <2>1, CheckMove
    <2> QED
        BY <1>b, <2>1, <2>2, QuietStep
<1>3. CASE Reraise(c, t)
    <2>1. Executes(c, t) /\ Reraised(t) /\ Calls(c, SetPriority(sch, c, t, spin_prio[t]))
        BY <1>3 DEF Reraise
    <2>2. pc[t] = "reraise" /\ pc' = [pc EXCEPT ![t] = "try"] /\ spin_prio[t] \in 1 .. PrioMax
        BY <2>1, StepFacts DEF Reraised
    <2>3. CoreMove(t, loc, up)
        BY <1>0, <2>1, RaisedMove
    <2>4. /\ pc[t] \notin {"cs", "exit"} /\ "try" \notin {"cs", "exit"}
          /\ "try" \in {"idle", "done"} => spin_prio[t] = BasePrio[t]
        BY <2>2
    <2> QED
        BY <1>b, <2>1, <2>2, <2>3, <2>4, SetPrioStep
<1>4. CASE Enter(c, t)
    <2>1. /\ Executes(c, t) /\ TryEnter(t) /\ sch' = [sch EXCEPT !.lock[t] = @ + 1]
          /\ UNCHANGED <<level, hook, hookres>>
        BY <1>4 DEF Enter
    <2>2. pc[t] = "try" /\ pc' = [pc EXCEPT ![t] = "cs"] /\ sch.lock[t] = 0
        BY <2>1, StepFacts DEF TryEnter
    <2>3. CoreMove(t, loc, up)
        BY <1>0, <2>1, TryEnterMove
    <2>4. SchedMove(c) /\ sch'.prio = sch.prio /\ sch'.lock = [sch.lock EXCEPT ![t] = 1]
        BY <2>1, <2>2, LockMove
    <2>5. LinkInv(sch, loc, up)'
        <3>1. /\ sch'.prio[t] \in 1 .. PrioMax /\ sch'.lock[t] = 1
              /\ \A u \in Task \ {t} : sch'.prio[u] = sch.prio[u] /\ sch'.lock[u] = sch.lock[u]
            BY <2>4, StepFacts
        <3> QED
            BY <1>b, <2>2, <3>1, LinkKept
    <2> QED
        BY <2>1, <2>3, <2>4, <2>5, TaskMove DEF Executes
<1>5. CASE Wait(c, t)
    <2>1. Executes(c, t) /\ TryWait(t) /\ NoCall
        BY <1>5 DEF Wait
    <2>2. pc[t] = "try" /\ pc' = [pc EXCEPT ![t] = "check"]
        BY <2>1 DEF TryWait
    <2> QED
        BY <1>b, <1>0, <2>1, <2>2, TryWaitMove, QuietStep
<1>6. CASE Release(c, t)
    <2>1. Executes(c, t) /\ ClearOwner(t) /\ NoCall
        BY <1>6 DEF Release
    <2>2. pc[t] = "cs" /\ pc' = [pc EXCEPT ![t] = "exit"]
        BY <2>1 DEF ClearOwner
    <2> QED
        BY <1>b, <1>0, <2>1, <2>2, ClearOwnerMove, QuietStep
<1>7. CASE Unlock(c, t)
    <2> DEFINE after == SchedUnlock(sch, c, t)
    <2>1. Executes(c, t) /\ LeaveNonPreemptive(t) /\ Calls(c, after)
        BY <1>7 DEF Unlock
    <2>2. pc[t] = "exit" /\ pc' = [pc EXCEPT ![t] = "restore"]
        BY <2>1 DEF LeaveNonPreemptive
    <2>3. Effect(sch, after, c) /\ after.lock = [sch.lock EXCEPT ![t] = 0] /\ after.prio = sch.prio
        BY <2>1, StepFacts, UnlockEffect DEF Executes
    <2> HIDE DEF after
    <2>4. SchedMove(c) /\ sch'.prio = after.prio /\ sch'.lock = after.lock
        BY <2>1, <2>3, CallsMove
    <2>5. CoreMove(t, loc, up)
        BY <1>0, <2>1, UnlockMove
    <2>6. LinkInv(sch, loc, up)'
        <3>1. /\ sch'.prio[t] \in 1 .. PrioMax /\ sch'.lock[t] = 0
              /\ \A u \in Task \ {t} : sch'.prio[u] = sch.prio[u] /\ sch'.lock[u] = sch.lock[u]
            BY <2>3, <2>4, StepFacts
        <3> QED
            BY <1>b, <2>2, <3>1, LinkKept
    <2> QED
        BY <2>1, <2>4, <2>5, <2>6, TaskMove DEF Executes
<1>8. CASE Restore(c, t)
    <2>1. Executes(c, t) /\ Restored(t) /\ Calls(c, SetPriority(sch, c, t, base_prio[t]))
        BY <1>8 DEF Restore
    <2>2. /\ pc[t] = "restore" /\ pc' = [pc EXCEPT ![t] = "done"]
          /\ base_prio[t] = BasePrio[t] /\ base_prio[t] \in 1 .. PrioMax
        BY <2>1, StepFacts DEF Restored
    <2> QED
        BY <1>b, <1>0, <2>1, <2>2, UnlockMove, SetPrioStep
<1>9. CASE Finish(c, t)
    <2>1. Executes(c, t) /\ ForgetResource(t) /\ NoCall
        BY <1>9 DEF Finish
    <2>2. pc[t] = "done" /\ pc' = [pc EXCEPT ![t] = "idle"]
        BY <2>1 DEF ForgetResource
    <2> QED
        BY <1>b, <1>0, <2>1, <2>2, UnlockMove, QuietStep
<1> QED
    BY <1>1, <1>2, <1>3, <1>4, <1>5, <1>6, <1>7, <1>8, <1>9 DEF ProtocolStep

\* A step outside the protocol.
LEMMA CoreStill ==
    ASSUME NEW loc, NEW up, IInv(loc, up), UNCHANGED coreVars, NEW t \in Task
    PROVE  CoreMove(t, loc, up)
<1>1. CoreTypeOK /\ FieldInv(loc, up)
    BY DEF IInv
<1>2. CoreTypeOK'
    BY <1>1 DEF CoreTypeOK
<1>3. FieldInv(loc, up)'
    BY <1>1 DEF FieldInv
<1> QED
    BY <1>2, <1>3 DEF CoreMove

LEMMA LinkStill ==
    ASSUME NEW loc, NEW up, IInv(loc, up), pc' = pc, sch'.prio = sch.prio, sch'.lock = sch.lock
    PROVE  LinkInv(sch, loc, up)'
BY DEF IInv, LinkInv

LEMMA SleepStep ==
    ASSUME NEW loc, NEW up, IInv(loc, up), NEW c \in Cpu, NEW t \in Task, t \notin loc, Sleep(c, t)
    PROVE  IInv(loc, up)'
<1> DEFINE after == RemoveSelf(sch, c)
<1>1. Executes(c, t) /\ pc[t] = "idle" /\ Calls(c, after) /\ UNCHANGED coreVars
    BY DEF Sleep
<1>2. sch.assigned[c] = t /\ level[c] = "task" /\ sch.lock[t] = 0 /\ StateOK(sch)
    BY <1>1, StepFacts DEF Executes
<1>3. Effect(sch, after, c) /\ after.lock = sch.lock /\ after.prio = sch.prio
    BY <1>2, RemoveSelfEffect
<1> HIDE DEF after
<1>4. SchedMove(c) /\ sch'.prio = sch.prio /\ sch'.lock = sch.lock
    BY <1>1, <1>3, CallsMove
<1>5. LinkInv(sch, loc, up)'
    BY <1>1, <1>4, LinkStill
<1> QED
    BY <1>1, <1>2, <1>4, <1>5, CoreStill, TaskMove

LEMMA LeaveStep ==
    ASSUME NEW loc, NEW up, IInv(loc, up), NEW c \in Cpu, NEW t \in Task, Leave(c, t)
    PROVE  IInv(loc, up)'
<1>1. /\ level[c] = "task" /\ sch.assigned[c] = t /\ UNCHANGED coreVars
      /\ sch' = LeaveSection(sch, t) /\ UNCHANGED <<level, hook, hookres>>
    BY DEF Leave
<1>2. SchedMove(c) /\ sch'.prio = sch.prio /\ sch'.lock = sch.lock
    BY <1>1, LeaveMove
<1>3. LinkInv(sch, loc, up)'
    BY <1>1, <1>2, LinkStill
<1> QED
    BY <1>1, <1>2, <1>3, CoreStill, TaskMove

\* An interrupt handler calls the scheduler.
LEMMA InterruptStep ==
    ASSUME NEW loc, NEW up, IInv(loc, up), NEW c \in Cpu, NEW after,
           Interruptible(c), Effect(sch, after, c), after.prio = sch.prio, after.lock = sch.lock, Interrupts(c, after)
    PROVE  IInv(loc, up)'
<1>1. SchedMove(c) /\ sch'.prio = sch.prio /\ sch'.lock = sch.lock /\ hook[c] = "test"
    BY InterruptsMove
<1>2. UNCHANGED coreVars
    BY DEF Interrupts
<1>3. LinkInv(sch, loc, up)'
    BY <1>1, <1>2, LinkStill
<1>4. CoreTypeOK' /\ FieldInv(loc, up)'
    <2>1. CoreTypeOK /\ FieldInv(loc, up)
        BY DEF IInv
    <2>2. CoreTypeOK'
        BY <1>2, <2>1 DEF CoreTypeOK
    <2>3. FieldInv(loc, up)'
        BY <1>2, <2>1 DEF FieldInv
    <2> QED
        BY <2>2, <2>3
<1>5. /\ StateOK(sch') /\ CpuOK(sch', level')
      /\ level' \in [Cpu -> {"task", "isr", "svc"}] /\ \A d \in Cpu \ {c} : level'[d] = level[d]
      /\ sch'.running = sch.running /\ hook' = hook /\ hookres' = hookres
    BY <1>1 DEF SchedMove
<1>6. HookInv'
    BY <1>1, <1>2, <1>5 DEF IInv, HookInv
<1>7. PinInv'
    BY <1>2, <1>5 DEF IInv, PinInv, Pinned
<1> QED
    BY <1>3, <1>4, <1>5, <1>6, <1>7 DEF IInv

LEMMA WakeStep ==
    ASSUME NEW loc, NEW up, IInv(loc, up), NEW c \in Cpu, NEW t \in Task, Wake(c, t)
    PROVE  IInv(loc, up)'
<1> DEFINE after == AddReadyToRun(sch, c, t)
<1>1. Interruptible(c) /\ sch.state[t] = "blocked" /\ Interrupts(c, after)
    BY DEF Wake
<1>2. Effect(sch, after, c) /\ after.lock = sch.lock /\ after.prio = sch.prio
    BY <1>1, WakeEffect DEF IInv
<1> HIDE DEF after
<1> QED
    BY <1>1, <1>2, InterruptStep

LEMMA DeliveryStep ==
    ASSUME NEW loc, NEW up, IInv(loc, up), NEW c \in Cpu, HandleDelivery(c)
    PROVE  IInv(loc, up)'
<1> DEFINE after == ProcessDelivered(sch, c)
<1>1. Interruptible(c) /\ Interrupts(c, after)
    BY DEF HandleDelivery
<1>2. Effect(sch, after, c) /\ after.lock = sch.lock /\ after.prio = sch.prio
    BY DeliveryEffect DEF IInv
<1> HIDE DEF after
<1> QED
    BY <1>1, <1>2, InterruptStep

\* The hook is through and the switch ends, from a scheduler state s that may
\* have given the old task its base priority.
LEMMA SwitchEnds ==
    ASSUME NEW loc, NEW up, IInv(loc, up), NEW c \in Cpu, NEW s, StateOK(s),
           s.running = sch.running, \A d \in Cpu \ {c} : s.assigned[d] = sch.assigned[d],
           s.lock = sch.lock,
           \A u \in Task : s.prio[u] = sch.prio[u] \/ s.prio[u] = BasePrio[u],
           EndSwitch(c, s), UNCHANGED coreVars
    PROVE  IInv(loc, up)'
<1>1. /\ StateOK(sch') /\ CpuOK(sch', level')
      /\ sch'.prio = s.prio /\ sch'.lock = s.lock
      /\ \A d \in Cpu \ {c} : sch'.running[d] = sch.running[d]
    BY EndSwitchOK
<1>2. /\ level' = [level EXCEPT ![c] = "task"] /\ hook' = [hook EXCEPT ![c] = "test"]
      /\ hookres' = [hookres EXCEPT ![c] = Null]
    BY DEF EndSwitch
<1>3. /\ level \in [Cpu -> {"task", "isr", "svc"}]
      /\ hook \in [Cpu -> {"test", "read", "remove", "lower"}]
      /\ hookres \in [Cpu -> Res \cup {Null}]
      /\ CoreTypeOK /\ FieldInv(loc, up) /\ LinkInv(sch, loc, up) /\ HookInv /\ PinInv
    BY DEF IInv
<1>4. /\ level' \in [Cpu -> {"task", "isr", "svc"}]
      /\ hook' \in [Cpu -> {"test", "read", "remove", "lower"}]
      /\ hookres' \in [Cpu -> Res \cup {Null}]
    BY <1>2, <1>3
<1>5. LinkInv(sch, loc, up)'
    <2>1. pc' = pc /\ sch'.lock = sch.lock
        BY <1>1
    <2>2. \A u \in Task : sch'.prio[u] = sch.prio[u] \/ sch'.prio[u] = BasePrio[u]
        BY <1>1
    <2>3. \A u \in Task : BasePrio[u] \in 1 .. PrioMax
        BY CoreAssumption
    <2>4. \A u \in Task : sch'.prio[u] \in 1 .. PrioMax
        BY <1>3, <2>2, <2>3 DEF LinkInv
    <2>5. \A u \in Task \ up : pc'[u] \in {"idle", "done"} => sch'.prio[u] = BasePrio[u]
        BY <1>3, <2>1, <2>2 DEF LinkInv
    <2> QED
        BY <1>3, <2>1, <2>4, <2>5 DEF LinkInv
<1>6. CoreTypeOK'
    BY <1>3 DEF CoreTypeOK
<1>7. FieldInv(loc, up)'
    BY <1>3 DEF FieldInv
<1>8. hook'[c] = "test" /\ \A d \in Cpu \ {c} : hook'[d] = hook[d] /\ level'[d] = level[d]
                                               /\ hookres'[d] = hookres[d]
    BY <1>2, <1>3
<1>9. HookInv'
    BY <1>1, <1>3, <1>8 DEF HookInv
<1>10. PinInv'
    BY <1>1, <1>3, <1>8 DEF PinInv, Pinned
<1> QED
    BY <1>1, <1>4, <1>5, <1>6, <1>7, <1>9, <1>10 DEF IInv

\* The hook advances on CPU c and leaves the scheduler alone.
LEMMA HookMoves ==
    ASSUME NEW loc, NEW up, IInv(loc, up), NEW c \in Cpu, NEW at \in {"read", "remove", "lower"},
           level[c] # "task",
           CoreTypeOK', FieldInv(loc, up)', pc' = pc, base_prio' = base_prio,
           sch.running[c] \in Task, base_prio[sch.running[c]] = BasePrio[sch.running[c]],
           \A d \in Cpu : Pinned /\ hook'[d] \in {"read", "remove"} => enqueued'[sch.running[d]],
           Pinned => pc[sch.running[c]] \in Spinning,
           hook' = [hook EXCEPT ![c] = at], hookres' \in [Cpu -> Res \cup {Null}],
           \A d \in Cpu \ {c} : hookres'[d] = hookres[d],
           at = "remove" => hookres'[c] \in Res,
           UNCHANGED <<sch, level>>
    PROVE  IInv(loc, up)'
<1>1. hook \in [Cpu -> {"test", "read", "remove", "lower"}] /\ HookInv
    BY DEF IInv
<1>2. hook' \in [Cpu -> {"test", "read", "remove", "lower"}]
    BY <1>1
<1>3. hook'[c] = at /\ \A d \in Cpu \ {c} : hook'[d] = hook[d]
    BY <1>1
<1>4. HookInv'
    BY <1>1, <1>3 DEF HookInv
<1>5. PinInv'
    BY <1>3 DEF IInv, PinInv, Pinned
<1>6. LinkInv(sch, loc, up)'
    BY LinkStill
<1> QED
    BY <1>2, <1>4, <1>5, <1>6 DEF IInv

LEMMA HookStep ==
    ASSUME NEW loc, NEW up, IInv(loc, up), NEW c \in Cpu,
           HookTest(c) \/ HookRead(c) \/ HookCancel(c) \/ HookLower(c)
    PROVE  IInv(loc, up)'
<1> DEFINE old == sch.running[c]
<1>0. /\ CoreTypeOK /\ FieldInv(loc, up) /\ StateOK(sch) /\ HookInv /\ PinInv /\ CpuOK(sch, level)
      /\ hook \in [Cpu -> {"test", "read", "remove", "lower"}]
      /\ hookres \in [Cpu -> Res \cup {Null}]
      /\ sch.running \in [Cpu -> Task \cup {Null}]
    BY StateFields DEF IInv
<1>1. ASSUME UNCHANGED coreVars
      PROVE  CoreTypeOK' /\ FieldInv(loc, up)'
    <2>1. CoreTypeOK'
        BY <1>0, <1>1 DEF CoreTypeOK
    <2>2. FieldInv(loc, up)'
        BY <1>0, <1>1 DEF FieldInv
    <2> QED
        BY <2>1, <2>2
<1>2. CASE HookTest(c)
    <2>1. level[c] # "task" /\ UNCHANGED coreVars
        BY <1>2 DEF HookTest, InHook
    <2>2. CASE old # Null /\ PreemptCancels(old, sch.prio[old], PrioOn(sch, c))
        <3>1. /\ hook' = [hook EXCEPT ![c] = "read"] /\ UNCHANGED <<sch, level, hookres>>
              /\ old \in Task /\ enqueued[old]
            BY <1>0, <1>2, <2>2 DEF HookTest, PreemptCancels
        <3>2. base_prio[old] = BasePrio[old]
            BY <1>0, <3>1 DEF FieldInv, Spinning
        <3>4. pc[old] \in Spinning
            BY <1>0, <3>1 DEF FieldInv
        <3>3. \A d \in Cpu : Pinned /\ hook'[d] \in {"read", "remove"} => enqueued'[sch.running[d]]
            BY <1>0, <2>1, <3>1 DEF PinInv
        <3> QED
            BY <1>0, <1>1, <2>1, <3>1, <3>2, <3>3, <3>4, HookMoves
    <2>3. CASE ~(old # Null /\ PreemptCancels(old, sch.prio[old], PrioOn(sch, c)))
        <3>1. EndSwitch(c, sch)
            BY <1>2, <2>3 DEF HookTest
        <3> QED
            BY <1>0, <2>1, <3>1, SwitchEnds
    <2> QED
        BY <2>2, <2>3
<1>3. CASE HookRead(c)
    <2>1. /\ level[c] # "task" /\ hook[c] = "read" /\ UNCHANGED coreVars
          /\ waiting_res[old] # Null /\ hookres' = [hookres EXCEPT ![c] = waiting_res[old]]
          /\ hook' = [hook EXCEPT ![c] = "remove"] /\ UNCHANGED <<sch, level>>
        BY <1>3 DEF HookRead, InHook
    <2>2. old \in Task /\ base_prio[old] = BasePrio[old]
        BY <1>0, <2>1 DEF HookInv
    <2>3. waiting_res[old] \in Res
        BY <1>0, <2>1, <2>2 DEF CoreTypeOK
    <2>4. hookres' \in [Cpu -> Res \cup {Null}] /\ hookres'[c] \in Res
          /\ \A d \in Cpu \ {c} : hookres'[d] = hookres[d]
        BY <1>0, <2>1, <2>3
    <2>5. /\ \A d \in Cpu : Pinned /\ hook'[d] \in {"read", "remove"} => enqueued'[sch.running[d]]
          /\ Pinned => pc[old] \in Spinning
        BY <1>0, <2>1 DEF PinInv
    <2> QED
        BY <1>1, <2>1, <2>2, <2>4, <2>5, HookMoves
<1>4. CASE HookCancel(c)
    <2> DEFINE r == ListOf(old, hookres[c])
    <2>1. /\ level[c] # "task" /\ hook[c] = "remove" /\ CancelSpin(old, r)
          /\ hook' = [hook EXCEPT ![c] = "lower"] /\ UNCHANGED <<sch, level, hookres>>
        BY <1>4 DEF HookCancel, InHook
    <2>2. old \in Task /\ base_prio[old] = BasePrio[old] /\ hookres[c] \in Res
        BY <1>0, <2>1 DEF HookInv
    <2>3. r \in Res
        BY <2>2, ListOfType
    <2> HIDE DEF r
    <2>4. CoreMove(old, loc, up) /\ pc' = pc /\ base_prio' = base_prio
        BY <1>0, <2>1, <2>2, <2>3, CancelSpinMove DEF CancelSpin
    <2>5. \A d \in Cpu : Pinned /\ hook'[d] \in {"read", "remove"} => enqueued'[sch.running[d]]
        <3> SUFFICES ASSUME NEW d \in Cpu, Pinned, hook'[d] \in {"read", "remove"}
                     PROVE  enqueued'[sch.running[d]]
            OBVIOUS
        <3>1. d # c /\ hook[d] \in {"read", "remove"}
            BY <1>0, <2>1
        <3>2. sch.running[d] \in Task /\ enqueued[sch.running[d]]
            BY <1>0, <3>1 DEF HookInv, PinInv
        <3>3. sch.running[d] # old
            BY <1>0, <2>2, <3>1, <3>2, SchedAssumption DEF CpuOK, Pinned
        <3> QED
            BY <2>4, <3>2, <3>3 DEF CoreMove
    <2>6. Pinned => pc[old] \in Spinning
        BY <1>0, <2>1 DEF PinInv
    <2> QED
        BY <1>0, <2>1, <2>2, <2>4, <2>5, <2>6, HookMoves DEF CoreMove
<1>5. CASE HookLower(c)
    <2> DEFINE s1 == SetPriority(sch, c, old, base_prio[old])
               s2 == IrqCall(s1, c)
    <2>1. hook[c] = "lower" /\ EndSwitch(c, s2) /\ UNCHANGED coreVars
        BY <1>5 DEF HookLower, InHook
    <2>2. old \in Task /\ base_prio[old] = BasePrio[old] /\ BasePrio[old] \in Nat
        BY <1>0, <2>1, StepFacts DEF HookInv
    <2>3. Effect(sch, s1, c) /\ s1.lock = sch.lock /\ s1.prio = [sch.prio EXCEPT ![old] = base_prio[old]]
        BY <1>0, <2>2, SetPriorityEffect
    <2> HIDE DEF s1
    <2>4. /\ StateOK(s1) /\ s1 \in SchedState /\ s1.running = sch.running
          /\ \A d \in Cpu \ {c} : s1.assigned[d] = sch.assigned[d]
        BY <2>3, StateFields DEF Effect
    <2>5. SameSched(s1, s2) /\ s2.running = s1.running /\ s2.irqcount = s1.irqcount
        BY <2>4, IrqCallFields
    <2> HIDE DEF s2
    <2>6. StateOK(s2) /\ s2.prio = s1.prio /\ s2.lock = s1.lock /\ s2.assigned = s1.assigned
        BY <2>4, <2>5, SameSchedOK DEF StateOK
    <2>7. \A u \in Task : s2.prio[u] = sch.prio[u] \/ s2.prio[u] = BasePrio[u]
        BY <1>0, <2>2, <2>3, <2>6, StateFields
    <2> QED
        BY <2>1, <2>3, <2>4, <2>5, <2>6, <2>7, SwitchEnds
<1> QED
    BY <1>2, <1>3, <1>4, <1>5

LEMMA Stuttering ==
    ASSUME NEW loc, NEW up, IInv(loc, up), UNCHANGED vars
    PROVE  IInv(loc, up)'
BY DEF vars, IInv, CoreTypeOK, FieldInv, LinkInv, HookInv, PinInv, Pinned

\* What the invariant says of the types, and of a task that has locked the
\* scheduler.
LEMMA InvTyped ==
    ASSUME NEW loc, NEW up, IInv(loc, up)
    PROVE  TypeOK
<1>1. StateOK(sch) /\ LinkInv(sch, loc, up)
    BY DEF IInv
<1>2. sch.ready \in Seq(Task)
    BY <1>1 DEF StateOK, SchedState
<1>3. sch.prio \in [Task -> 1 .. PrioMax]
    BY <1>1, StateFields DEF LinkInv
<1> QED
    BY <1>1, <1>2, <1>3, StateFields DEF TypeOK, IInv

LEMMA LockedExecutes ==
    ASSUME NEW loc, NEW up, IInv(loc, up), NEW t \in Task, sch.lock[t] > 0
    PROVE  \E c \in Cpu : Executes(c, t)
<1>1. StateOK(sch) /\ CpuOK(sch, level)
    BY DEF IInv
<1>2. sch.cpu[t] \in Cpu /\ sch.assigned[sch.cpu[t]] = t /\ Locked(sch, sch.cpu[t])
    BY <1>1, LockedAssigned
<1>3. level[sch.cpu[t]] = "task" /\ sch.irqcount[t] = 0
    BY <1>1, <1>2 DEF CpuOK, StateOK
<1> QED
    BY <1>2, <1>3 DEF Executes

-----------------------------------------------------------------------------
(* The invariant: no task makes local calls. *)
SmpInv == IInv({}, {})

LEMMA InitInv == Init => SmpInv
<1> SUFFICES ASSUME Init
             PROVE  SmpInv
    OBVIOUS
<1>1. BasePrio \in [Task -> Nat] /\ Affinity \in [Task -> (SUBSET Cpu) \ {{}}]
    <2>1. \A n \in 1 .. PrioMax : n \in Nat
        BY DEF PrioMax
    <2>2. BasePrio \in [Task -> 1 .. PrioMax]
        BY CoreAssumption
    <2> QED
        BY <2>1, <2>2, SmpAssumption
<1>2. sch \in SchedState /\ Placed(sch)
    BY <1>1, SchedInitFacts DEF Init
<1>3. /\ sch.prio = BasePrio /\ sch.aff = Affinity /\ sch.lock = [t \in Task |-> 0]
      /\ sch.assigned = [c \in Cpu |-> Null] /\ sch.running = [c \in Cpu |-> Null]
    BY DEF Init, SchedInit
<1>4. CoreTypeOK
    BY CoreAssumption DEF Init, CoreInit, CoreTypeOK, Label, PrioMax
<1>5. FieldInv({}, {})
    BY DEF Init, CoreInit, FieldInv
<1>6. LinkInv(sch, {}, {})
    BY <1>3, CoreAssumption DEF Init, CoreInit, LinkInv
<1>7. StateOK(sch)
    BY <1>2, <1>3 DEF StateOK
<1>8. CpuOK(sch, level)
    BY <1>3 DEF CpuOK, Locked, Init
<1>9. HookInv /\ PinInv
    BY DEF Init, HookInv, PinInv
<1> QED
    BY <1>4, <1>5, <1>6, <1>7, <1>8, <1>9 DEF SmpInv, IInv, Init

LEMMA NextInv == SmpInv /\ [Next]_vars => SmpInv'
<1> SUFFICES ASSUME SmpInv, [Next]_vars
             PROVE  SmpInv'
    OBVIOUS
<1>1. ASSUME NEW c \in Cpu, Run(c)
      PROVE  SmpInv'
    <2>1. ASSUME NEW t \in Task, TaskStep(c, t)
          PROVE  SmpInv'
        BY <2>1, LockStep, ProtocolStepOK, SleepStep, LeaveStep DEF TaskStep, SmpInv
    <2> QED
        BY <1>1, <2>1, HookStep DEF Run, SmpInv
<1>2. ASSUME UNCHANGED vars
      PROVE  SmpInv'
    BY <1>2, Stuttering DEF SmpInv
<1> QED
    BY <1>1, <1>2, DeliveryStep, WakeStep DEF Next, SmpInv

THEOREM SmpInvHolds == Spec => []SmpInv
BY InitInv, NextInv, PTL DEF Spec

-----------------------------------------------------------------------------
(* Type correctness: in particular a priority stays in 1..255 although the hook
   and the task both set it, and sched_lock() never nests. *)
THEOREM SmpTypeCorrect == Spec => []TypeOK
<1>1. SmpInv => TypeOK
    BY InvTyped DEF SmpInv
<1> QED
    BY <1>1, SmpInvHolds, PTL

(* Mutual exclusion, for every assignment of tasks to CPUs, migration included:
   two tasks are never in the critical section of one resource. *)
THEOREM SmpMutualExclusion == Spec => []MutualExclusion
<1>1. SmpInv => MutualExclusion
    BY DEF SmpInv, IInv, FieldInv, MutualExclusion
<1> QED
    BY <1>1, SmpInvHolds, PTL

(* Between the sched_lock() of frap_lock() and the sched_unlock() of
   frap_unlock() a task has a CPU that executes it, whatever the other CPUs, the
   timer and the hooks of CPUs it has left do. *)
THEOREM SmpCriticalSectionRuns == Spec => []CriticalSectionRuns
<1>1. SmpInv => CriticalSectionRuns
    <2> SUFFICES ASSUME SmpInv, NEW t \in Task, pc[t] \in {"cs", "exit"}
                 PROVE  \E c \in Cpu : Executes(c, t)
        BY DEF CriticalSectionRuns
    <2>1. sch.lock[t] > 0
        BY DEF SmpInv, IInv, LinkInv
    <2> QED
        BY <2>1, LockedExecutes DEF SmpInv
<1> QED
    BY <1>1, SmpInvHolds, PTL

(* A task outside the protocol has the priority it was created with, although a
   hook may have set its priority behind its back. *)
THEOREM SmpPriorityRestored == Spec => []PriorityRestored
<1>1. SmpInv => PriorityRestored
    BY DEF SmpInv, IInv, LinkInv, PriorityRestored
<1> QED
    BY <1>1, SmpInvHolds, PTL

(* The DEBUGASSERTs of frap_on_preempt() hold if every task is pinned to one
   CPU.  The hook tests frap_enqueued without a lock; what it relies on is that
   the old task cannot run anywhere while its only CPU is switching. *)
THEOREM SmpHookAssertions ==
    ASSUME Pinned
    PROVE  Spec => []HookAssertions
<1>1. SmpInv => HookAssertions
    <2> SUFFICES ASSUME SmpInv, NEW c \in Cpu, hook[c] \in {"read", "remove"}
                 PROVE  /\ enqueued[sch.running[c]] /\ ~in_cs[sch.running[c]]
                        /\ waiting_res[sch.running[c]] # Null
        BY DEF HookAssertions, InHook
    <2>1. sch.running[c] \in Task /\ enqueued[sch.running[c]]
        BY DEF SmpInv, IInv, HookInv, PinInv
    <2>2. pc[sch.running[c]] \in Spinning
        BY <2>1 DEF SmpInv, IInv, FieldInv
    <2> QED
        BY <2>1, <2>2, CoreAssumption DEF SmpInv, IInv, FieldInv, Spinning
<1> QED
    BY <1>1, SmpInvHolds, PTL

=============================================================================
