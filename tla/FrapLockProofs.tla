--------------------------- MODULE FrapLockProofs ---------------------------
(***************************************************************************)
(* TLAPS proofs about FrapLock, for every number of tasks, CPUs and        *)
(* resources and every assignment of priorities: the safety properties of  *)
(* the protocol, that it implements FrapSpec, and the bound on its queues. *)
(***************************************************************************)
EXTENDS FrapLock, TLAPS, SequenceTheorems

-----------------------------------------------------------------------------
(* The inductive invariant, by theme. *)

\* What a program point says about the task's own fields.
FieldInv ==
    \A t \in Task :
        /\ pc[t] \in {"idle", "done"} => prio[t] = BasePrio[t]
        /\ pc[t] # "idle" => base_prio[t] = BasePrio[t] /\ waiting_res[t] \in Res
        /\ pc[t] \in Spinning => spin_prio[t] >= BasePrio[t]
        /\ pc[t] \in {"cs", "exit"} <=> lockcount[t] = 1
        /\ pc[t] \in {"cs", "exit"} <=> in_cs[t]

\* What a switch in progress says about the two tasks: neither executes, so
\* nothing the hook has read about the old one can change under it.
SwitchInv ==
    \A c \in Cpu :
        /\ curr[c] # Null => CpuOf[curr[c]] = c
        /\ switch[c].old # Null =>
              switch[c].at # "none" /\ CpuOf[switch[c].old] = c /\ switch[c].old # curr[c]
        /\ switch[c].at \in {"remove", "lower"} =>
              switch[c].old # Null /\ pc[switch[c].old] \in Spinning
        /\ switch[c].at = "remove" => enqueued[switch[c].old]

IInv ==
    /\ TypeOK
    /\ FieldInv
    /\ SwitchInv
    /\ NonPreemptive
    /\ OwnerIsHolder
    /\ QueueIntegrity

-----------------------------------------------------------------------------
(* list_delete() and list_add_tail() on a list without duplicates. *)

LEMMA DeleteFacts ==
    ASSUME NEW s \in Seq(Task), NEW t \in Task,
           NEW k \in 1 .. Len(s), s[k] = t, OnceEach(s)
    PROVE  /\ Delete(t, s) \in Seq(Task)
           /\ Len(Delete(t, s)) = Len(s) - 1
           /\ \A i \in 1 .. Len(s) - 1 :
                Delete(t, s)[i] = IF i < k THEN s[i] ELSE s[i + 1]
<1>1. PositionOf(t, s) \in 1 .. Len(s) /\ s[PositionOf(t, s)] = t
  BY DEF PositionOf
<1>2. PositionOf(t, s) = k
  BY <1>1 DEF OnceEach
<1>3. Len(s) \in Nat /\ Len(s) - 1 \in Nat
  OBVIOUS
<1>4. \A i \in 1 .. Len(s) - 1 : (IF i < k THEN s[i] ELSE s[i + 1]) \in Task
  OBVIOUS
<1> QED
  BY <1>2, <1>3, <1>4 DEF Delete

\* Deleting removes that task, keeps the others and creates no duplicate.
LEMMA DeleteMembers ==
    ASSUME NEW s \in Seq(Task), NEW t \in Task, Occurs(t, s), OnceEach(s)
    PROVE  /\ Delete(t, s) \in Seq(Task)
           /\ OnceEach(Delete(t, s))
           /\ \A u \in Task : Occurs(u, Delete(t, s)) <=> Occurs(u, s) /\ u # t
<1> DEFINE d == Delete(t, s)
<1>1. PICK k \in 1 .. Len(s) : s[k] = t
  BY DEF Occurs
<1>2. /\ d \in Seq(Task)
      /\ Len(d) = Len(s) - 1
      /\ \A i \in 1 .. Len(s) - 1 : d[i] = IF i < k THEN s[i] ELSE s[i + 1]
  BY <1>1, DeleteFacts
<1>3. Len(s) \in Nat
  OBVIOUS
<1> HIDE DEF d
<1>4. OnceEach(d)
  <2> SUFFICES ASSUME NEW i \in 1 .. Len(d), NEW j \in 1 .. Len(d), d[i] = d[j]
               PROVE  i = j
    BY DEF OnceEach
  <2> DEFINE up(n) == IF n < k THEN n ELSE n + 1
  <2>1. /\ up(i) \in 1 .. Len(s) /\ d[i] = s[up(i)]
        /\ up(j) \in 1 .. Len(s) /\ d[j] = s[up(j)]
    BY <1>2, <1>3
  <2>2. up(i) = up(j)
    <3> HIDE DEF up
    <3> QED BY <2>1 DEF OnceEach
  <2> QED BY <2>2
<1>5. ASSUME NEW u \in Task, Occurs(u, d)
      PROVE  Occurs(u, s) /\ u # t
  <2>1. PICK i \in 1 .. Len(d) : d[i] = u
    BY <1>5 DEF Occurs
  <2>2. CASE i < k
    BY <1>1, <1>2, <1>3, <2>1, <2>2 DEF Occurs, OnceEach
  <2>3. CASE ~(i < k)
    <3>1. i + 1 \in 1 .. Len(s) /\ u = s[i + 1] /\ i + 1 # k
      BY <1>2, <1>3, <2>1, <2>3
    <3> QED BY <1>1, <3>1 DEF Occurs, OnceEach
  <2> QED BY <2>2, <2>3
<1>6. ASSUME NEW u \in Task, Occurs(u, s), u # t
      PROVE  Occurs(u, d)
  <2>1. PICK j \in 1 .. Len(s) : s[j] = u
    BY <1>6 DEF Occurs
  <2>2. CASE j < k
    BY <1>2, <1>3, <2>1, <2>2 DEF Occurs
  <2>3. CASE ~(j < k)
    <3>1. j - 1 \in 1 .. Len(d) /\ d[j - 1] = u
      BY <1>1, <1>2, <1>3, <1>6, <2>1, <2>3
    <3> QED BY <3>1 DEF Occurs
  <2> QED BY <2>2, <2>3
<1> QED
  BY <1>2, <1>4, <1>5, <1>6 DEF d

LEMMA AppendMembers ==
    ASSUME NEW s \in Seq(Task), NEW t \in Task, ~Occurs(t, s), OnceEach(s)
    PROVE  /\ Append(s, t) \in Seq(Task)
           /\ OnceEach(Append(s, t))
           /\ \A u \in Task : Occurs(u, Append(s, t)) <=> Occurs(u, s) \/ u = t
<1> DEFINE d == Append(s, t)
<1>1. /\ d \in Seq(Task)
      /\ Len(d) = Len(s) + 1
      /\ \A i \in 1 .. Len(s) : d[i] = s[i]
      /\ d[Len(s) + 1] = t
      /\ Len(s) \in Nat
  OBVIOUS
<1> HIDE DEF d
<1>2. OnceEach(d)
  BY <1>1 DEF OnceEach, Occurs
<1>3. \A u \in Task : Occurs(u, d) => Occurs(u, s) \/ u = t
  BY <1>1 DEF Occurs
<1>4. \A u \in Task : Occurs(u, s) => Occurs(u, d)
  BY <1>1 DEF Occurs
<1>5. Occurs(t, d)
  BY <1>1 DEF Occurs
<1> QED
  BY <1>1, <1>2, <1>3, <1>4, <1>5 DEF d

-----------------------------------------------------------------------------
(* Arithmetic and the effect of a step on the queues. *)

LEMMA SpinOfType ==
    ASSUME NEW t \in Task, NEW r \in Res
    PROVE  SpinOf(t, r) \in 0 .. PrioMax
<1>1. SpinPrio[t][r] \in Nat
  BY CoreAssumption
<1> QED BY <1>1 DEF SpinOf, PrioMax

LEMMA SpinPrioType ==
    ASSUME TypeOK, FieldInv, NEW t \in Task, pc[t] \in Spinning
    PROVE  spin_prio[t] \in 1 .. PrioMax
<1>1. BasePrio[t] \in 1 .. PrioMax /\ spin_prio[t] \in 0 .. PrioMax
  BY CoreAssumption DEF TypeOK, CoreTypeOK
<1>2. spin_prio[t] >= BasePrio[t]
  BY DEF FieldInv
<1> QED BY <1>1, <1>2 DEF PrioMax

LEMMA CountType ==
    ASSUME NEW n \in 0 .. CntMod - 1
    PROVE  (n + 1) % CntMod \in 0 .. CntMod - 1
BY CoreAssumption

\* A step that touches no queue keeps them sound if no queued task leaves the
\* spin or changes the resource it waits for.
LEMMA QueuesKept ==
    ASSUME TypeOK, QueueIntegrity, UNCHANGED <<enqueued, fifo>>,
           \A u \in Task : enqueued[u] =>
               pc'[u] \in Spinning /\ waiting_res'[u] = waiting_res[u]
    PROVE  QueueIntegrity'
<1>1. LinkedOnce'
  BY DEF QueueIntegrity, LinkedOnce
<1>2. LinkedIsFlagged'
  BY DEF QueueIntegrity, LinkedIsFlagged
<1>3. FlaggedIsLinked'
  BY DEF QueueIntegrity, FlaggedIsLinked
<1> QED BY <1>1, <1>2, <1>3 DEF QueueIntegrity

\* One task enters or leaves the list of the resource it waits for, in step with
\* its frap_enqueued flag; d is the new list.
LEMMA QueueChanged ==
    ASSUME TypeOK, FieldInv, QueueIntegrity,
           NEW t \in Task, NEW r \in Res, NEW d \in Seq(Task), NEW b \in BOOLEAN,
           r = waiting_res[t], waiting_res' = waiting_res,
           OnceEach(d),
           \A u \in Task \ {t} : Occurs(u, d) <=> Occurs(u, fifo[r]),
           Occurs(t, d) <=> b,
           fifo' = [fifo EXCEPT ![r] = d],
           enqueued' = [enqueued EXCEPT ![t] = b],
           \A u \in Task \ {t} : pc'[u] = pc[u],
           b => pc'[t] \in Spinning
    PROVE  fifo' \in [Res -> Seq(Task)] /\ QueueIntegrity'
<1>1. /\ fifo' \in [Res -> Seq(Task)]
      /\ fifo'[r] = d
      /\ \A q \in Res \ {r} : fifo'[q] = fifo[q]
  BY DEF TypeOK, CoreTypeOK
<1>2. enqueued'[t] = b /\ \A u \in Task \ {t} : enqueued'[u] = enqueued[u]
  BY DEF TypeOK, CoreTypeOK
<1>3. LinkedOnce'
  BY <1>1 DEF QueueIntegrity, LinkedOnce
<1>4. LinkedIsFlagged'
  BY <1>1, <1>2 DEF QueueIntegrity, LinkedIsFlagged
<1>5. FlaggedIsLinked'
  <2> SUFFICES ASSUME NEW u \in Task, enqueued'[u]
               PROVE  pc'[u] \in Spinning /\ Occurs(u, fifo'[waiting_res'[u]])
    BY DEF FlaggedIsLinked
  <2>1. CASE u = t
    BY <1>1, <1>2, <2>1
  <2>2. CASE u # t
    <3>1. pc[u] \in Spinning /\ Occurs(u, fifo[waiting_res[u]])
      BY <1>2, <2>2 DEF QueueIntegrity, FlaggedIsLinked
    <3>2. waiting_res[u] \in Res
      BY <3>1 DEF FieldInv, Spinning
    <3> QED BY <1>1, <2>2, <3>1, <3>2
  <2> QED BY <2>1, <2>2
<1> QED BY <1>1, <1>3, <1>4, <1>5 DEF QueueIntegrity

\* frap_queue_remove(), in frap_lock() and in the hook.
LEMMA QueueRemoveFacts ==
    ASSUME TypeOK, QueueIntegrity, NEW t \in Task, waiting_res[t] \in Res
    PROVE  LET r == waiting_res[t]
               d == QueueRemove(r, t)
           IN  /\ d \in Seq(Task)
               /\ OnceEach(d)
               /\ \A u \in Task \ {t} : Occurs(u, d) <=> Occurs(u, fifo[r])
               /\ ~Occurs(t, d)
<1> DEFINE r == waiting_res[t]
<1>1. fifo[r] \in Seq(Task) /\ OnceEach(fifo[r])
  BY DEF TypeOK, CoreTypeOK, QueueIntegrity, LinkedOnce
<1>2. enqueued[t] <=> Occurs(t, fifo[r])
  BY DEF TypeOK, CoreTypeOK, QueueIntegrity, FlaggedIsLinked, LinkedIsFlagged
<1>3. CASE enqueued[t]
  BY <1>1, <1>2, <1>3, DeleteMembers DEF QueueRemove
<1>4. CASE ~enqueued[t]
  BY <1>1, <1>2, <1>4 DEF QueueRemove
<1> QED BY <1>3, <1>4

\* frap_queue_enqueue_tail().
LEMMA QueueTailFacts ==
    ASSUME TypeOK, QueueIntegrity, NEW t \in Task, waiting_res[t] \in Res
    PROVE  LET r == waiting_res[t]
               d == QueueTail(r, t)
           IN  /\ d \in Seq(Task)
               /\ OnceEach(d)
               /\ \A u \in Task \ {t} : Occurs(u, d) <=> Occurs(u, fifo[r])
               /\ Occurs(t, d)
<1> DEFINE r == waiting_res[t]
<1>1. fifo[r] \in Seq(Task) /\ OnceEach(fifo[r])
  BY DEF TypeOK, CoreTypeOK, QueueIntegrity, LinkedOnce
<1>2. enqueued[t] <=> Occurs(t, fifo[r])
  BY DEF TypeOK, CoreTypeOK, QueueIntegrity, FlaggedIsLinked, LinkedIsFlagged
<1>3. CASE enqueued[t]
  BY <1>1, <1>2, <1>3 DEF QueueTail
<1>4. CASE ~enqueued[t]
  BY <1>1, <1>2, <1>4, AppendMembers DEF QueueTail
<1> QED BY <1>3, <1>4

-----------------------------------------------------------------------------
(* The effect of a step on the CPUs. *)

\* CPU c passes from old to another task of its own, or to the idle task.
Handover(c, old, at) ==
    \E n \in Task \cup {Null} :
        /\ n # Null => CpuOf[n] = c /\ n # old
        /\ curr' = [curr EXCEPT ![c] = n]
        /\ switch' = [switch EXCEPT ![c] = [old |-> old, at |-> at]]

LEMMA YieldIsHandover ==
    ASSUME TypeOK, NEW t \in Task, NEW aw, NEW pr, Executes(t), MayYield(t, aw, pr)
    PROVE  UNCHANGED <<curr, switch>> \/ Handover(CpuOf[t], t, "svc")
BY CoreAssumption DEF MayYield, Best, Ready, Handover, Executes

LEMMA SleepIsHandover ==
    ASSUME TypeOK, NEW t \in Task, Sleep(t)
    PROVE  Handover(CpuOf[t], t, "svc")
<1>1. CASE Ready(CpuOf[t], [awake EXCEPT ![t] = FALSE]) = {}
  BY <1>1 DEF Sleep, Handover
<1>2. CASE Ready(CpuOf[t], [awake EXCEPT ![t] = FALSE]) # {}
  BY <1>2 DEF Sleep, Best, Ready, Handover, Executes
<1> QED BY <1>1, <1>2

LEMMA DisplaceIsHandover ==
    ASSUME TypeOK, SwitchInv, NEW c \in Cpu, NEW aw, Displace(c, aw)
    PROVE  \E o \in Task \cup {Null} :
              /\ o # Null => CpuOf[o] = c
              /\ Handover(c, o, "isr")
<1> DEFINE o == IF switch[c].at = "none" THEN curr[c] ELSE switch[c].old
<1>1. o \in Task \cup {Null} /\ (o # Null => CpuOf[o] = c)
  BY DEF TypeOK, SwitchInv
<1>2. PICK n \in Task :
         /\ CpuOf[n] = c /\ n # curr[c] /\ n # switch[c].old
         /\ curr' = [curr EXCEPT ![c] = n]
  BY DEF Displace, Best, Ready
<1>3. switch' = [switch EXCEPT ![c] = [old |-> o, at |-> "isr"]]
  BY DEF Displace, TypeOK
<1>4. Handover(c, o, "isr")
  BY <1>2, <1>3 DEF Handover
<1> QED BY <1>1, <1>4

\* A handover keeps the CPUs sound if the task that loses its CPU is outside its
\* critical section and only that CPU's own tasks moved.
LEMMA HandoverFacts ==
    ASSUME TypeOK, SwitchInv, NonPreemptive,
           NEW c \in Cpu, NEW old \in Task \cup {Null}, NEW at \in {"isr", "svc"},
           old # Null => CpuOf[old] = c,
           Handover(c, old, at),
           UNCHANGED enqueued,
           \A u \in Task : CpuOf[u] # c => pc'[u] = pc[u],
           \A u \in Task : pc'[u] \in {"cs", "exit"} =>
               pc[u] \in {"cs", "exit"} /\ u # curr[c]
    PROVE  /\ curr' \in [Cpu -> Task \cup {Null}]
           /\ switch' \in [Cpu -> [old : Task \cup {Null}, at : SwitchAt]]
           /\ SwitchInv'
           /\ NonPreemptive'
<1>1. PICK n \in Task \cup {Null} :
         /\ n # Null => CpuOf[n] = c /\ n # old
         /\ curr' = [curr EXCEPT ![c] = n]
         /\ switch' = [switch EXCEPT ![c] = [old |-> old, at |-> at]]
  BY DEF Handover
<1>2. /\ curr' \in [Cpu -> Task \cup {Null}]
      /\ switch' \in [Cpu -> [old : Task \cup {Null}, at : SwitchAt]]
  BY <1>1 DEF TypeOK, SwitchAt
<1>3. /\ curr'[c] = n /\ switch'[c].old = old /\ switch'[c].at = at
      /\ \A d \in Cpu \ {c} : curr'[d] = curr[d] /\ switch'[d] = switch[d]
  BY <1>1 DEF TypeOK
<1>4. SwitchInv'
  <2> SUFFICES ASSUME NEW d \in Cpu
               PROVE  /\ curr'[d] # Null => CpuOf[curr'[d]] = d
                      /\ switch'[d].old # Null =>
                            /\ switch'[d].at # "none"
                            /\ CpuOf[switch'[d].old] = d
                            /\ switch'[d].old # curr'[d]
                      /\ switch'[d].at \in {"remove", "lower"} =>
                            switch'[d].old # Null /\ pc'[switch'[d].old] \in Spinning
                      /\ switch'[d].at = "remove" => enqueued'[switch'[d].old]
    BY DEF SwitchInv
  <2>1. CASE d = c
    BY <1>1, <1>3, <2>1
  <2>2. CASE d # c
    <3>1. curr'[d] = curr[d] /\ switch'[d] = switch[d]
      BY <1>3, <2>2
    <3>2. switch[d].old # Null => pc'[switch[d].old] = pc[switch[d].old]
      BY <2>2 DEF SwitchInv, TypeOK
    <3> QED BY <3>1, <3>2 DEF SwitchInv
  <2> QED BY <2>1, <2>2
<1>5. NonPreemptive'
  <2> SUFFICES ASSUME NEW u \in Task, pc'[u] \in {"cs", "exit"}
               PROVE  Executes(u)'
    BY DEF NonPreemptive
  <2>1. Executes(u) /\ u # curr[c]
    BY DEF NonPreemptive
  <2>2. CpuOf[u] \in Cpu /\ CpuOf[u] # c
    BY <2>1, CpuAssumption DEF Executes
  <2> QED BY <1>3, <2>1, <2>2 DEF Executes
<1> QED BY <1>2, <1>4, <1>5

\* The CPUs stay sound when they are left alone and only t, which executes,
\* moves: no switch in progress has read anything about t.
LEMMA CpusKept ==
    ASSUME TypeOK, SwitchInv, NonPreemptive, UNCHANGED <<curr, switch>>,
           NEW t \in Task, Executes(t),
           \A u \in Task \ {t} : pc'[u] = pc[u] /\ enqueued'[u] = enqueued[u]
    PROVE  SwitchInv' /\ NonPreemptive'
<1>1. ASSUME NEW c \in Cpu
      PROVE  switch[c].old # t
  BY <1>1, CoreAssumption DEF Executes, SwitchInv
<1>2. SwitchInv'
  <2> SUFFICES ASSUME NEW c \in Cpu
               PROVE  /\ switch[c].at \in {"remove", "lower"} =>
                            pc'[switch[c].old] \in Spinning
                      /\ switch[c].at = "remove" => enqueued'[switch[c].old]
    BY DEF SwitchInv
  <2>1. switch[c].old # Null =>
            switch[c].old \in Task \ {t}
    BY <1>1 DEF TypeOK
  <2> QED BY <2>1 DEF SwitchInv
<1>3. NonPreemptive'
  BY DEF NonPreemptive, Executes
<1> QED BY <1>2, <1>3

\* The owner fields stay right when nobody enters or leaves a critical section.
LEMMA OwnersKept ==
    ASSUME OwnerIsHolder, TypeOK, UNCHANGED owner,
           \A u \in Task : /\ pc'[u] = "cs" <=> pc[u] = "cs"
                           /\ pc[u] = "cs" => waiting_res'[u] = waiting_res[u]
                           /\ pc[u] = "cs" => in_cs'[u] = in_cs[u]
    PROVE  OwnerIsHolder'
<1>1. \A t \in Task : pc'[t] = "cs" => owner'[waiting_res'[t]] = t /\ in_cs'[t]
  BY DEF OwnerIsHolder
<1>2. \A r \in Res : owner'[r] # Null =>
          pc'[owner'[r]] = "cs" /\ waiting_res'[owner'[r]] = r
  BY DEF OwnerIsHolder, TypeOK, CoreTypeOK
<1> QED BY <1>1, <1>2 DEF OwnerIsHolder

\* A step of the scheduler alone.
LEMMA CoreUnchanged ==
    ASSUME TypeOK, FieldInv, OwnerIsHolder, QueueIntegrity,
           UNCHANGED <<coreVars, prio, lockcount>>
    PROVE  FieldInv' /\ OwnerIsHolder' /\ QueueIntegrity'
<1>1. FieldInv'
  BY DEF FieldInv, coreVars, tcbVars
<1>2. OwnerIsHolder'
  BY DEF OwnerIsHolder, coreVars, tcbVars, resVars
<1>3. QueueIntegrity'
  BY QueuesKept DEF QueueIntegrity, FlaggedIsLinked, coreVars, tcbVars, resVars
<1> QED BY <1>1, <1>2, <1>3

-----------------------------------------------------------------------------
(* A scheduler call of the executing task t that leaves it outside the     *)
(* critical section.                                                       *)
LEMMA YieldFacts ==
    ASSUME TypeOK, SwitchInv, NonPreemptive,
           NEW t \in Task, NEW aw, NEW pr, Executes(t), MayYield(t, aw, pr),
           UNCHANGED enqueued,
           \A u \in Task \ {t} : pc'[u] = pc[u],
           pc'[t] \notin {"cs", "exit"}
    PROVE  /\ curr' \in [Cpu -> Task \cup {Null}]
           /\ switch' \in [Cpu -> [old : Task \cup {Null}, at : SwitchAt]]
           /\ SwitchInv'
           /\ NonPreemptive'
<1>1. CASE UNCHANGED <<curr, switch>>
  BY <1>1, CpusKept DEF TypeOK
<1>2. CASE Handover(CpuOf[t], t, "svc")
  <2>1. CpuOf[t] \in Cpu /\ curr[CpuOf[t]] = t
    BY CpuAssumption DEF Executes
  <2>2. \A u \in Task : pc'[u] \in {"cs", "exit"} =>
            pc[u] \in {"cs", "exit"} /\ u # curr[CpuOf[t]]
    BY <2>1
  <2> QED BY <1>2, <2>1, <2>2, HandoverFacts
<1> QED BY <1>1, <1>2, YieldIsHandover

-----------------------------------------------------------------------------
(* Every step preserves the invariant: one lemma for each action. *)

LEMMA RejectStep ==
    ASSUME IInv, NEW t \in Task, NEW r \in Res, Reject(t, r)
    PROVE  IInv'
<1> USE DEF IInv
<1> USE DEF Reject, LockRejected, GoTo, coreVars, tcbVars, resVars, schedVars
<1>1. TypeOK'
  BY SpinOfType DEF TypeOK, CoreTypeOK, Label, Spinning
<1>2. FieldInv'
  BY CoreAssumption DEF FieldInv, TypeOK, CoreTypeOK, Spinning
<1>3. SwitchInv' /\ NonPreemptive'
  BY CpusKept DEF TypeOK, CoreTypeOK
<1>4. OwnerIsHolder'
  <2>1. \A u \in Task : /\ pc'[u] = "cs" <=> pc[u] = "cs"
                        /\ pc[u] = "cs" => waiting_res'[u] = waiting_res[u]
                        /\ pc[u] = "cs" => in_cs'[u] = in_cs[u]
    BY DEF TypeOK, CoreTypeOK
  <2> QED BY <2>1, OwnersKept
<1>5. QueueIntegrity'
  <2>1. \A u \in Task : enqueued[u] =>
            pc'[u] \in Spinning /\ waiting_res'[u] = waiting_res[u]
    BY DEF TypeOK, CoreTypeOK, QueueIntegrity, FlaggedIsLinked, Spinning
  <2> QED BY <2>1, QueuesKept
<1> QED BY <1>1, <1>2, <1>3, <1>4, <1>5

LEMMA LockStep ==
    ASSUME IInv, NEW t \in Task, NEW r \in Res, Lock(t, r)
    PROVE  IInv'
<1> USE DEF IInv
<1> USE DEF Lock, LockEntry, LockAccepts, GoTo, coreVars, tcbVars, resVars, schedVars
<1>1. TypeOK'
  <2>1. prio[t] \in 0 .. PrioMax
    BY DEF TypeOK, PrioMax
  <2>2. SpinOf(t, r) \in 0 .. PrioMax
    BY SpinOfType
  <2> QED BY <2>1, <2>2 DEF TypeOK, CoreTypeOK, Label, Spinning
<1>2. FieldInv'
  BY CoreAssumption DEF FieldInv, TypeOK, CoreTypeOK, Spinning
<1>3. SwitchInv' /\ NonPreemptive'
  BY CpusKept DEF TypeOK, CoreTypeOK
<1>4. OwnerIsHolder'
  <2>1. \A u \in Task : /\ pc'[u] = "cs" <=> pc[u] = "cs"
                        /\ pc[u] = "cs" => waiting_res'[u] = waiting_res[u]
                        /\ pc[u] = "cs" => in_cs'[u] = in_cs[u]
    BY DEF TypeOK, CoreTypeOK
  <2> QED BY <2>1, OwnersKept
<1>5. QueueIntegrity'
  <2>1. \A u \in Task : enqueued[u] =>
            pc'[u] \in Spinning /\ waiting_res'[u] = waiting_res[u]
    BY DEF TypeOK, CoreTypeOK, QueueIntegrity, FlaggedIsLinked, Spinning
  <2> QED BY <2>1, QueuesKept
<1> QED BY <1>1, <1>2, <1>3, <1>4, <1>5

LEMMA RaiseStep ==
    ASSUME IInv, NEW t \in Task, Raise(t)
    PROVE  IInv'
<1> USE DEF IInv
<1> USE DEF Raise, Raised, SetPrio, GoTo, coreVars, tcbVars, resVars, schedVars
<1>1. /\ curr' \in [Cpu -> Task \cup {Null}]
      /\ switch' \in [Cpu -> [old : Task \cup {Null}, at : SwitchAt]]
      /\ SwitchInv'
      /\ NonPreemptive'
  <2>1. MayYield(t, awake, prio')
    OBVIOUS
  <2>2. (\A u \in Task \ {t} : pc'[u] = pc[u]) /\ pc'[t] \notin {"cs", "exit"}
    BY DEF TypeOK, CoreTypeOK
  <2> QED BY <2>1, <2>2, YieldFacts
<1>2. TypeOK'
  <2>1. spin_prio[t] \in 1 .. PrioMax
    BY SpinPrioType DEF Spinning
  <2>2. prio' \in [Task -> 1 .. PrioMax]
    BY <2>1 DEF TypeOK
  <2> QED BY <1>1, <2>2 DEF TypeOK, CoreTypeOK, Label, Spinning
<1>3. FieldInv'
  BY CoreAssumption DEF FieldInv, TypeOK, CoreTypeOK, Spinning
<1>4. OwnerIsHolder'
  <2>1. \A u \in Task : /\ pc'[u] = "cs" <=> pc[u] = "cs"
                        /\ pc[u] = "cs" => waiting_res'[u] = waiting_res[u]
                        /\ pc[u] = "cs" => in_cs'[u] = in_cs[u]
    BY DEF TypeOK, CoreTypeOK
  <2> QED BY <2>1, OwnersKept
<1>5. QueueIntegrity'
  <2>1. \A u \in Task : enqueued[u] =>
            pc'[u] \in Spinning /\ waiting_res'[u] = waiting_res[u]
    BY DEF TypeOK, CoreTypeOK, QueueIntegrity, FlaggedIsLinked, Spinning
  <2> QED BY <2>1, QueuesKept
<1> QED BY <1>1, <1>2, <1>3, <1>4, <1>5

LEMMA CheckStep ==
    ASSUME IInv, NEW t \in Task, Check(t)
    PROVE  IInv'
<1> USE DEF IInv
<1> USE DEF Check, CheckCancelled, GoTo, coreVars, tcbVars, resVars, schedVars
<1>1. TypeOK'
  <2>1. preempt_cnt' \in [Task -> 0 .. CntMod - 1]
    <3>1. preempt_cnt[t] \in 0 .. CntMod - 1
      BY DEF TypeOK, CoreTypeOK
    <3>2. (preempt_cnt[t] + 1) % CntMod \in 0 .. CntMod - 1
      BY <3>1, CountType
    <3> QED BY <3>2 DEF TypeOK, CoreTypeOK
  <2> QED BY <2>1 DEF TypeOK, CoreTypeOK, Label, Spinning
<1>2. FieldInv'
  BY CoreAssumption DEF FieldInv, TypeOK, CoreTypeOK, Spinning
<1>3. SwitchInv' /\ NonPreemptive'
  BY CpusKept DEF TypeOK, CoreTypeOK
<1>4. OwnerIsHolder'
  <2>1. \A u \in Task : /\ pc'[u] = "cs" <=> pc[u] = "cs"
                        /\ pc[u] = "cs" => waiting_res'[u] = waiting_res[u]
                        /\ pc[u] = "cs" => in_cs'[u] = in_cs[u]
    BY DEF TypeOK, CoreTypeOK
  <2> QED BY <2>1, OwnersKept
<1>5. QueueIntegrity'
  <2>1. \A u \in Task : enqueued[u] =>
            pc'[u] \in Spinning /\ waiting_res'[u] = waiting_res[u]
    BY DEF TypeOK, CoreTypeOK, QueueIntegrity, FlaggedIsLinked, Spinning
  <2> QED BY <2>1, QueuesKept
<1> QED BY <1>1, <1>2, <1>3, <1>4, <1>5

LEMMA ReraiseStep ==
    ASSUME IInv, NEW t \in Task, Reraise(t)
    PROVE  IInv'
<1> USE DEF IInv
<1> USE DEF Reraise, Reraised, SetPrio, GoTo, coreVars, tcbVars, resVars, schedVars
<1>1. /\ curr' \in [Cpu -> Task \cup {Null}]
      /\ switch' \in [Cpu -> [old : Task \cup {Null}, at : SwitchAt]]
      /\ SwitchInv'
      /\ NonPreemptive'
  <2>1. MayYield(t, awake, prio')
    OBVIOUS
  <2>2. (\A u \in Task \ {t} : pc'[u] = pc[u]) /\ pc'[t] \notin {"cs", "exit"}
    BY DEF TypeOK, CoreTypeOK
  <2> QED BY <2>1, <2>2, YieldFacts
<1>2. TypeOK'
  <2>1. spin_prio[t] \in 1 .. PrioMax
    BY SpinPrioType DEF Spinning
  <2>2. prio' \in [Task -> 1 .. PrioMax]
    BY <2>1 DEF TypeOK
  <2> QED BY <1>1, <2>2 DEF TypeOK, CoreTypeOK, Label, Spinning
<1>3. FieldInv'
  BY CoreAssumption DEF FieldInv, TypeOK, CoreTypeOK, Spinning
<1>4. OwnerIsHolder'
  <2>1. \A u \in Task : /\ pc'[u] = "cs" <=> pc[u] = "cs"
                        /\ pc[u] = "cs" => waiting_res'[u] = waiting_res[u]
                        /\ pc[u] = "cs" => in_cs'[u] = in_cs[u]
    BY DEF TypeOK, CoreTypeOK
  <2> QED BY <2>1, OwnersKept
<1>5. QueueIntegrity'
  <2>1. \A u \in Task : enqueued[u] =>
            pc'[u] \in Spinning /\ waiting_res'[u] = waiting_res[u]
    BY DEF TypeOK, CoreTypeOK, QueueIntegrity, FlaggedIsLinked, Spinning
  <2> QED BY <2>1, QueuesKept
<1> QED BY <1>1, <1>2, <1>3, <1>4, <1>5

LEMMA EnterStep ==
    ASSUME IInv, NEW t \in Task, Enter(t)
    PROVE  IInv'
<1> USE DEF IInv
<1> USE DEF Enter, TryEnter, GoTo, coreVars, tcbVars, resVars, schedVars
<1> DEFINE r == waiting_res[t]
<1>1. r \in Res
  BY DEF FieldInv
<1>2. fifo' \in [Res -> Seq(Task)] /\ QueueIntegrity'
  <2>1. (\A u \in Task \ {t} : pc'[u] = pc[u]) /\ (FALSE => pc'[t] \in Spinning)
    BY DEF TypeOK, CoreTypeOK, Spinning
  <2>2. fifo' = [fifo EXCEPT ![r] = QueueRemove(r, t)] /\ enqueued' = [enqueued EXCEPT ![t] = FALSE]
    OBVIOUS
  <2>3. waiting_res' = waiting_res
    OBVIOUS
  <2> QED BY <1>1, <2>1, <2>2, <2>3, QueueRemoveFacts, QueueChanged
<1>3. TypeOK'
  <2>1. lockcount' \in [Task -> {0, 1}]
    <3>1. lockcount[t] = 0
      BY DEF TypeOK, FieldInv
    <3> QED BY <3>1 DEF TypeOK
  <2> QED BY <1>1, <1>2, <2>1 DEF TypeOK, CoreTypeOK, Label, Spinning
<1>4. FieldInv'
  BY DEF FieldInv, TypeOK, CoreTypeOK, Spinning
<1>5. SwitchInv' /\ NonPreemptive'
  <2>1. \A u \in Task \ {t} : pc'[u] = pc[u] /\ enqueued'[u] = enqueued[u]
    BY DEF TypeOK, CoreTypeOK
  <2> QED BY <2>1, CpusKept
<1>6. OwnerIsHolder'
  <2>1. owner[r] = Null /\ owner'[r] = t /\ pc'[t] = "cs" /\ in_cs'[t]
    BY <1>1 DEF CanEnter, TypeOK, CoreTypeOK
  <2>2. ASSUME NEW u \in Task, u # t, pc'[u] = "cs"
        PROVE  owner'[waiting_res'[u]] = u /\ in_cs'[u]
    <3>1. pc[u] = "cs" /\ waiting_res[u] \in Res
      BY <2>2 DEF FieldInv, TypeOK, CoreTypeOK
    <3>2. owner[waiting_res[u]] = u /\ in_cs[u]
      BY <3>1 DEF OwnerIsHolder
    <3>3. waiting_res[u] # r
      BY <2>1, <3>2, CoreAssumption
    <3> QED BY <2>2, <3>1, <3>2, <3>3 DEF TypeOK, CoreTypeOK
  <2>3. ASSUME NEW q \in Res, q # r, owner'[q] # Null
        PROVE  pc'[owner'[q]] = "cs" /\ waiting_res'[owner'[q]] = q
    <3>1. owner'[q] = owner[q] /\ owner[q] \in Task
      BY <2>3 DEF TypeOK, CoreTypeOK
    <3>2. pc[owner[q]] = "cs" /\ waiting_res[owner[q]] = q
      BY <2>3, <3>1 DEF OwnerIsHolder
    <3>3. owner[q] # t
      BY <3>2
    <3> QED BY <3>1, <3>2, <3>3 DEF TypeOK, CoreTypeOK
  <2> QED BY <1>1, <2>1, <2>2, <2>3 DEF OwnerIsHolder
<1> QED BY <1>2, <1>3, <1>4, <1>5, <1>6

LEMMA WaitStep ==
    ASSUME IInv, NEW t \in Task, Wait(t)
    PROVE  IInv'
<1> USE DEF IInv
<1> USE DEF Wait, TryWait, GoTo, coreVars, tcbVars, resVars, schedVars
<1> DEFINE r == waiting_res[t]
<1>1. r \in Res
  BY DEF FieldInv
<1>2. fifo' \in [Res -> Seq(Task)] /\ QueueIntegrity'
  <2>1. (\A u \in Task \ {t} : pc'[u] = pc[u]) /\ (TRUE => pc'[t] \in Spinning)
    BY DEF TypeOK, CoreTypeOK, Spinning
  <2>2. fifo' = [fifo EXCEPT ![r] = QueueTail(r, t)] /\ enqueued' = [enqueued EXCEPT ![t] = TRUE]
    OBVIOUS
  <2>3. waiting_res' = waiting_res
    OBVIOUS
  <2> QED BY <1>1, <2>1, <2>2, <2>3, QueueTailFacts, QueueChanged
<1>3. TypeOK'
  BY <1>1, <1>2 DEF TypeOK, CoreTypeOK, FieldInv, Label, Spinning
<1>4. FieldInv'
  BY DEF FieldInv, TypeOK, CoreTypeOK, Spinning
<1>5. SwitchInv' /\ NonPreemptive'
  <2>1. \A u \in Task \ {t} : pc'[u] = pc[u] /\ enqueued'[u] = enqueued[u]
    BY DEF TypeOK, CoreTypeOK
  <2> QED BY <2>1, CpusKept
<1>6. OwnerIsHolder'
  <2>1. \A u \in Task : /\ pc'[u] = "cs" <=> pc[u] = "cs"
                        /\ pc[u] = "cs" => waiting_res'[u] = waiting_res[u]
                        /\ pc[u] = "cs" => in_cs'[u] = in_cs[u]
    BY DEF TypeOK, CoreTypeOK
  <2> QED BY <2>1, OwnersKept
<1> QED BY <1>2, <1>3, <1>4, <1>5, <1>6

LEMMA ReleaseStep ==
    ASSUME IInv, NEW t \in Task, Release(t)
    PROVE  IInv'
<1> USE DEF IInv
<1> USE DEF Release, ClearOwner, GoTo, coreVars, tcbVars, resVars, schedVars
<1>1. TypeOK'
  BY DEF TypeOK, CoreTypeOK, Label, Spinning
<1>2. FieldInv'
  BY CoreAssumption DEF FieldInv, TypeOK, CoreTypeOK, Spinning
<1>3. SwitchInv' /\ NonPreemptive'
  BY CpusKept DEF TypeOK, CoreTypeOK
<1>4. OwnerIsHolder'
  <2> DEFINE r == waiting_res[t]
  <2>1. r \in Res /\ owner[r] = t /\ owner'[r] = Null
    BY DEF FieldInv, OwnerIsHolder, TypeOK, CoreTypeOK
  <2>2. ASSUME NEW u \in Task, pc'[u] = "cs"
        PROVE  owner'[waiting_res'[u]] = u /\ in_cs'[u]
    <3>1. u # t /\ pc[u] = "cs" /\ waiting_res[u] \in Res
      BY <2>2 DEF FieldInv, TypeOK, CoreTypeOK
    <3>2. owner[waiting_res[u]] = u /\ in_cs[u]
      BY <3>1 DEF OwnerIsHolder
    <3>3. waiting_res[u] # r
      BY <2>1, <3>1, <3>2
    <3> QED BY <3>1, <3>2, <3>3 DEF TypeOK, CoreTypeOK
  <2>3. ASSUME NEW q \in Res, owner'[q] # Null
        PROVE  pc'[owner'[q]] = "cs" /\ waiting_res'[owner'[q]] = q
    <3>1. q # r /\ owner'[q] = owner[q] /\ owner[q] \in Task
      BY <2>1, <2>3 DEF TypeOK, CoreTypeOK
    <3>2. pc[owner[q]] = "cs" /\ waiting_res[owner[q]] = q
      BY <2>3, <3>1 DEF OwnerIsHolder
    <3>3. owner[q] # t
      BY <3>1, <3>2
    <3> QED BY <3>1, <3>2, <3>3 DEF TypeOK, CoreTypeOK
  <2> QED BY <2>2, <2>3 DEF OwnerIsHolder
<1>5. QueueIntegrity'
  <2>1. \A u \in Task : enqueued[u] =>
            pc'[u] \in Spinning /\ waiting_res'[u] = waiting_res[u]
    BY DEF TypeOK, CoreTypeOK, QueueIntegrity, FlaggedIsLinked, Spinning
  <2> QED BY <2>1, QueuesKept
<1> QED BY <1>1, <1>2, <1>3, <1>4, <1>5

LEMMA SchedUnlockStep ==
    ASSUME IInv, NEW t \in Task, SchedUnlock(t)
    PROVE  IInv'
<1> USE DEF IInv
<1> USE DEF SchedUnlock, LeaveNonPreemptive, GoTo, coreVars, tcbVars, resVars, schedVars
<1>1. /\ curr' \in [Cpu -> Task \cup {Null}]
      /\ switch' \in [Cpu -> [old : Task \cup {Null}, at : SwitchAt]]
      /\ SwitchInv'
      /\ NonPreemptive'
  <2>1. MayYield(t, awake, prio)
    OBVIOUS
  <2>2. (\A u \in Task \ {t} : pc'[u] = pc[u]) /\ pc'[t] \notin {"cs", "exit"}
    BY DEF TypeOK, CoreTypeOK
  <2> QED BY <2>1, <2>2, YieldFacts
<1>2. TypeOK'
  <2>1. lockcount' \in [Task -> {0, 1}]
    BY DEF TypeOK, FieldInv
  <2> QED BY <1>1, <2>1 DEF TypeOK, CoreTypeOK, Label, Spinning
<1>3. FieldInv'
  BY CoreAssumption DEF FieldInv, TypeOK, CoreTypeOK, Spinning
<1>4. OwnerIsHolder'
  <2>1. \A u \in Task : /\ pc'[u] = "cs" <=> pc[u] = "cs"
                        /\ pc[u] = "cs" => waiting_res'[u] = waiting_res[u]
                        /\ pc[u] = "cs" => in_cs'[u] = in_cs[u]
    BY DEF TypeOK, CoreTypeOK
  <2> QED BY <2>1, OwnersKept
<1>5. QueueIntegrity'
  <2>1. \A u \in Task : enqueued[u] =>
            pc'[u] \in Spinning /\ waiting_res'[u] = waiting_res[u]
    BY DEF TypeOK, CoreTypeOK, QueueIntegrity, FlaggedIsLinked, Spinning
  <2> QED BY <2>1, QueuesKept
<1> QED BY <1>1, <1>2, <1>3, <1>4, <1>5

LEMMA RestoreStep ==
    ASSUME IInv, NEW t \in Task, Restore(t)
    PROVE  IInv'
<1> USE DEF IInv
<1> USE DEF Restore, Restored, SetPrio, GoTo, coreVars, tcbVars, resVars, schedVars
<1>1. /\ curr' \in [Cpu -> Task \cup {Null}]
      /\ switch' \in [Cpu -> [old : Task \cup {Null}, at : SwitchAt]]
      /\ SwitchInv'
      /\ NonPreemptive'
  <2>1. MayYield(t, awake, prio')
    OBVIOUS
  <2>2. (\A u \in Task \ {t} : pc'[u] = pc[u]) /\ pc'[t] \notin {"cs", "exit"}
    BY DEF TypeOK, CoreTypeOK
  <2> QED BY <2>1, <2>2, YieldFacts
<1>2. TypeOK'
  BY <1>1, CoreAssumption DEF TypeOK, CoreTypeOK, FieldInv, PrioMax, Label, Spinning
<1>3. FieldInv'
  BY CoreAssumption DEF FieldInv, TypeOK, CoreTypeOK, Spinning
<1>4. OwnerIsHolder'
  <2>1. \A u \in Task : /\ pc'[u] = "cs" <=> pc[u] = "cs"
                        /\ pc[u] = "cs" => waiting_res'[u] = waiting_res[u]
                        /\ pc[u] = "cs" => in_cs'[u] = in_cs[u]
    BY DEF TypeOK, CoreTypeOK
  <2> QED BY <2>1, OwnersKept
<1>5. QueueIntegrity'
  <2>1. \A u \in Task : enqueued[u] =>
            pc'[u] \in Spinning /\ waiting_res'[u] = waiting_res[u]
    BY DEF TypeOK, CoreTypeOK, QueueIntegrity, FlaggedIsLinked, Spinning
  <2> QED BY <2>1, QueuesKept
<1> QED BY <1>1, <1>2, <1>3, <1>4, <1>5

LEMMA FinishStep ==
    ASSUME IInv, NEW t \in Task, Finish(t)
    PROVE  IInv'
<1> USE DEF IInv
<1> USE DEF Finish, ForgetResource, GoTo, coreVars, tcbVars, resVars, schedVars
<1>1. TypeOK'
  BY DEF TypeOK, CoreTypeOK, Label, Spinning
<1>2. FieldInv'
  BY CoreAssumption DEF FieldInv, TypeOK, CoreTypeOK, Spinning
<1>3. SwitchInv' /\ NonPreemptive'
  BY CpusKept DEF TypeOK, CoreTypeOK
<1>4. OwnerIsHolder'
  <2>1. \A u \in Task : /\ pc'[u] = "cs" <=> pc[u] = "cs"
                        /\ pc[u] = "cs" => waiting_res'[u] = waiting_res[u]
                        /\ pc[u] = "cs" => in_cs'[u] = in_cs[u]
    BY DEF TypeOK, CoreTypeOK
  <2> QED BY <2>1, OwnersKept
<1>5. QueueIntegrity'
  <2>1. \A u \in Task : enqueued[u] =>
            pc'[u] \in Spinning /\ waiting_res'[u] = waiting_res[u]
    BY DEF TypeOK, CoreTypeOK, QueueIntegrity, FlaggedIsLinked, Spinning
  <2> QED BY <2>1, QueuesKept
<1> QED BY <1>1, <1>2, <1>3, <1>4, <1>5

LEMMA SleepStep ==
    ASSUME IInv, NEW t \in Task, Sleep(t)
    PROVE  IInv'
<1> USE DEF IInv
<1>1. UNCHANGED <<coreVars, prio, lockcount>>
  BY DEF Sleep
<1>2. /\ curr' \in [Cpu -> Task \cup {Null}]
      /\ switch' \in [Cpu -> [old : Task \cup {Null}, at : SwitchAt]]
      /\ SwitchInv'
      /\ NonPreemptive'
  <2>1. CpuOf[t] \in Cpu /\ curr[CpuOf[t]] = t /\ pc[t] = "idle"
    BY CpuAssumption DEF Sleep, Executes
  <2>2. Handover(CpuOf[t], t, "svc")
    BY SleepIsHandover
  <2> QED BY <1>1, <2>1, <2>2, HandoverFacts DEF coreVars, tcbVars
<1>3. TypeOK'
  <2>1. awake' \in [Task -> BOOLEAN]
    BY DEF Sleep, TypeOK
  <2> QED BY <1>1, <1>2, <2>1 DEF TypeOK, CoreTypeOK, coreVars, tcbVars, resVars
<1>4. FieldInv' /\ OwnerIsHolder' /\ QueueIntegrity'
  BY <1>1, CoreUnchanged
<1> QED BY <1>2, <1>3, <1>4

\* An interrupt handler displaces the current task of its CPU.
LEMMA DisplaceStep ==
    ASSUME IInv, NEW c \in Cpu, NEW aw, Displace(c, aw),
           UNCHANGED <<coreVars, prio, lockcount>>
    PROVE  /\ curr' \in [Cpu -> Task \cup {Null}]
           /\ switch' \in [Cpu -> [old : Task \cup {Null}, at : SwitchAt]]
           /\ SwitchInv'
           /\ NonPreemptive'
<1> USE DEF IInv
<1>1. PICK o \in Task \cup {Null} :
          (o # Null => CpuOf[o] = c) /\ Handover(c, o, "isr")
  BY DisplaceIsHandover
<1>2. \A u \in Task : pc[u] \in {"cs", "exit"} => u # curr[c]
  BY CoreAssumption DEF Displace, FieldInv
<1> QED BY <1>1, <1>2, HandoverFacts DEF coreVars, tcbVars

LEMMA PreemptStep ==
    ASSUME IInv, NEW c \in Cpu, Preempt(c)
    PROVE  IInv'
<1> USE DEF IInv
<1>1. UNCHANGED <<coreVars, prio, lockcount, awake>> /\ Displace(c, awake)
  BY DEF Preempt
<1>2. /\ curr' \in [Cpu -> Task \cup {Null}]
      /\ switch' \in [Cpu -> [old : Task \cup {Null}, at : SwitchAt]]
      /\ SwitchInv'
      /\ NonPreemptive'
  BY <1>1, DisplaceStep
<1>3. TypeOK'
  BY <1>1, <1>2 DEF TypeOK, CoreTypeOK, coreVars, tcbVars, resVars
<1>4. FieldInv' /\ OwnerIsHolder' /\ QueueIntegrity'
  BY <1>1, CoreUnchanged
<1> QED BY <1>2, <1>3, <1>4

LEMMA WakeStep ==
    ASSUME IInv, NEW t \in Task, Wake(t)
    PROVE  IInv'
<1> USE DEF IInv
<1>1. UNCHANGED <<coreVars, prio, lockcount>> /\ awake' \in [Task -> BOOLEAN]
  BY DEF Wake, TypeOK
<1>2. /\ curr' \in [Cpu -> Task \cup {Null}]
      /\ switch' \in [Cpu -> [old : Task \cup {Null}, at : SwitchAt]]
      /\ SwitchInv'
      /\ NonPreemptive'
  <2>1. CASE UNCHANGED <<curr, switch>>
    BY <1>1, <2>1 DEF TypeOK, SwitchInv, NonPreemptive, Executes, coreVars, tcbVars
  <2>2. CASE Displace(CpuOf[t], awake')
    BY <1>1, <2>2, CpuAssumption, DisplaceStep
  <2> QED BY <2>1, <2>2 DEF Wake
<1>3. TypeOK'
  BY <1>1, <1>2 DEF TypeOK, CoreTypeOK, coreVars, tcbVars, resVars
<1>4. FieldInv' /\ OwnerIsHolder' /\ QueueIntegrity'
  BY <1>1, CoreUnchanged
<1> QED BY <1>2, <1>3, <1>4

LEMMA HookTestStep ==
    ASSUME IInv, NEW c \in Cpu, HookTest(c)
    PROVE  IInv'
<1> USE DEF IInv
<1> DEFINE old == switch[c].old
<1>1. UNCHANGED <<coreVars, prio, lockcount, awake, curr>>
  BY DEF HookTest
<1>2. /\ switch[c].at # "none"
      /\ \/ /\ old \in Task /\ enqueued[old] /\ pc[old] \in Spinning
            /\ switch' = [switch EXCEPT ![c] = [old |-> old, at |-> "remove"]]
         \/ switch' = [switch EXCEPT ![c] = NoSwitch]
  BY DEF HookTest, PreemptCancels, QueueIntegrity, FlaggedIsLinked, TypeOK
<1>3. switch' \in [Cpu -> [old : Task \cup {Null}, at : SwitchAt]]
  BY <1>2 DEF TypeOK, SwitchAt, NoSwitch
<1>4. TypeOK'
  BY <1>1, <1>3 DEF TypeOK, CoreTypeOK, coreVars, tcbVars, resVars
<1>5. FieldInv' /\ OwnerIsHolder' /\ QueueIntegrity'
  BY <1>1, CoreUnchanged
<1>6. \A d \in Cpu \ {c} : switch'[d] = switch[d]
  BY <1>2 DEF TypeOK
<1>7. SwitchInv'
  <2>1. CASE switch' = [switch EXCEPT ![c] = NoSwitch]
    BY <1>1, <2>1 DEF SwitchInv, TypeOK, NoSwitch, coreVars, tcbVars
  <2>2. CASE /\ old \in Task /\ enqueued[old] /\ pc[old] \in Spinning
             /\ switch' = [switch EXCEPT ![c] = [old |-> old, at |-> "remove"]]
    BY <1>1, <2>2, CoreAssumption DEF SwitchInv, TypeOK, coreVars, tcbVars
  <2> QED BY <1>2, <2>1, <2>2
<1>8. NonPreemptive'
  <2> SUFFICES ASSUME NEW u \in Task, pc[u] \in {"cs", "exit"}
               PROVE  Executes(u)'
    BY <1>1 DEF NonPreemptive, coreVars
  <2>1. Executes(u) /\ CpuOf[u] # c /\ CpuOf[u] \in Cpu
    BY <1>2, CpuAssumption DEF NonPreemptive, Executes
  <2> QED BY <1>1, <1>6, <2>1 DEF Executes
<1> QED BY <1>4, <1>5, <1>7, <1>8

LEMMA HookCancelStep ==
    ASSUME IInv, NEW c \in Cpu, HookCancel(c)
    PROVE  IInv'
<1> USE DEF IInv
<1> DEFINE t == switch[c].old
           r == waiting_res[t]
<1>1. t \in Task /\ pc[t] \in Spinning /\ r \in Res
  BY DEF HookCancel, SwitchInv, FieldInv, TypeOK, Spinning
<1>2. /\ UNCHANGED <<pc, waiting_res, base_prio, spin_prio, in_cs, owner>>
      /\ UNCHANGED <<prio, lockcount, awake, curr>>
      /\ fifo' = [fifo EXCEPT ![r] = QueueRemove(r, t)]
      /\ enqueued' = [enqueued EXCEPT ![t] = FALSE]
      /\ cancelled' = [cancelled EXCEPT ![t] = TRUE]
      /\ preempt_cnt' = [preempt_cnt EXCEPT ![t] = (@ + 1) % CntMod]
      /\ switch[c].at = "remove"
      /\ switch' = [switch EXCEPT ![c].at = "lower"]
  BY DEF HookCancel, CancelSpin
<1> HIDE DEF t
<1>3. fifo' \in [Res -> Seq(Task)] /\ QueueIntegrity'
  BY <1>1, <1>2, QueueRemoveFacts, QueueChanged
<1>4. switch' \in [Cpu -> [old : Task \cup {Null}, at : SwitchAt]]
  BY <1>2 DEF TypeOK, SwitchAt
<1>5. TypeOK'
  <2>1. preempt_cnt' \in [Task -> 0 .. CntMod - 1]
    <3>1. (preempt_cnt[t] + 1) % CntMod \in 0 .. CntMod - 1
      BY <1>1, CountType DEF TypeOK, CoreTypeOK
    <3> QED BY <1>2, <3>1 DEF TypeOK, CoreTypeOK
  <2> QED BY <1>1, <1>2, <1>3, <1>4, <2>1 DEF TypeOK, CoreTypeOK
<1>6. FieldInv'
  BY <1>2 DEF FieldInv
<1>7. OwnerIsHolder'
  BY <1>2 DEF OwnerIsHolder
<1>8. /\ switch'[c].old = t /\ switch'[c].at = "lower"
      /\ \A d \in Cpu \ {c} : switch'[d] = switch[d]
  BY <1>2 DEF TypeOK, t
<1>9. SwitchInv'
  <2> SUFFICES ASSUME NEW d \in Cpu
               PROVE  /\ curr[d] # Null => CpuOf[curr[d]] = d
                      /\ switch'[d].old # Null =>
                            /\ switch'[d].at # "none"
                            /\ CpuOf[switch'[d].old] = d
                            /\ switch'[d].old # curr[d]
                      /\ switch'[d].at \in {"remove", "lower"} =>
                            switch'[d].old # Null /\ pc[switch'[d].old] \in Spinning
                      /\ switch'[d].at = "remove" => enqueued'[switch'[d].old]
    BY <1>2 DEF SwitchInv
  <2>1. CASE d = c
    BY <1>1, <1>8, <2>1, CoreAssumption DEF SwitchInv, t
  <2>2. CASE d # c
    <3>1. switch[d].at = "remove" => switch[d].old \in Task /\ switch[d].old # t
      BY <1>1, <2>2, CoreAssumption DEF SwitchInv, TypeOK, t
    <3>2. switch[d].at = "remove" => enqueued'[switch[d].old]
      BY <1>2, <3>1 DEF SwitchInv, TypeOK, CoreTypeOK
    <3> QED BY <1>8, <2>2, <3>2 DEF SwitchInv
  <2> QED BY <2>1, <2>2
<1>10. NonPreemptive'
  <2> SUFFICES ASSUME NEW u \in Task, pc[u] \in {"cs", "exit"}
               PROVE  Executes(u)'
    BY <1>2 DEF NonPreemptive
  <2>1. Executes(u) /\ CpuOf[u] # c /\ CpuOf[u] \in Cpu
    BY <1>2, CpuAssumption DEF NonPreemptive, Executes
  <2> QED BY <1>2, <1>8, <2>1 DEF Executes
<1> QED BY <1>3, <1>5, <1>6, <1>7, <1>9, <1>10

LEMMA HookLowerStep ==
    ASSUME IInv, NEW c \in Cpu, HookLower(c)
    PROVE  IInv'
<1> USE DEF IInv
<1> DEFINE t == switch[c].old
<1>1. t \in Task /\ pc[t] \in Spinning
  BY DEF HookLower, SwitchInv, TypeOK
<1>2. /\ UNCHANGED <<pc, waiting_res, base_prio, spin_prio, cancelled, in_cs>>
      /\ UNCHANGED <<enqueued, preempt_cnt, owner, fifo, lockcount, awake, curr>>
      /\ prio' = [prio EXCEPT ![t] = base_prio[t]]
      /\ switch[c].at = "lower"
      /\ switch' = [switch EXCEPT ![c] = NoSwitch]
  BY DEF HookLower, coreVars, tcbVars, resVars
<1> HIDE DEF t
<1>3. base_prio[t] \in 1 .. PrioMax
  BY <1>1, CoreAssumption DEF FieldInv, Spinning
<1>4. prio' \in [Task -> 1 .. PrioMax]
  BY <1>2, <1>3 DEF TypeOK
<1>5. switch' \in [Cpu -> [old : Task \cup {Null}, at : SwitchAt]]
  BY <1>2 DEF TypeOK, SwitchAt, NoSwitch
<1>6. TypeOK'
  BY <1>2, <1>4, <1>5 DEF TypeOK, CoreTypeOK
<1>7. FieldInv'
  BY <1>1, <1>2 DEF FieldInv, TypeOK, Spinning
<1>8. OwnerIsHolder' /\ QueueIntegrity'
  <2>1. OwnerIsHolder'
    BY <1>2 DEF OwnerIsHolder
  <2>2. QueueIntegrity'
    BY <1>2, QueuesKept DEF QueueIntegrity, FlaggedIsLinked
  <2> QED BY <2>1, <2>2
<1>9. switch'[c] = NoSwitch /\ \A d \in Cpu \ {c} : switch'[d] = switch[d]
  BY <1>2 DEF TypeOK
<1>10. SwitchInv'
  BY <1>2, <1>9 DEF SwitchInv, NoSwitch
<1>11. NonPreemptive'
  <2> SUFFICES ASSUME NEW u \in Task, pc[u] \in {"cs", "exit"}
               PROVE  Executes(u)'
    BY <1>2 DEF NonPreemptive
  <2>1. Executes(u) /\ CpuOf[u] # c /\ CpuOf[u] \in Cpu
    BY <1>2, CpuAssumption DEF NonPreemptive, Executes
  <2> QED BY <1>2, <1>9, <2>1 DEF Executes
<1> QED BY <1>6, <1>7, <1>8, <1>10, <1>11

-----------------------------------------------------------------------------
(* The invariant holds in every reachable state. *)

LEMMA InitInv == Init => IInv
<1> SUFFICES ASSUME Init PROVE IInv
  OBVIOUS
<1> USE CoreAssumption DEF Init, CoreInit
<1>1. TypeOK
  BY DEF TypeOK, CoreTypeOK, Label, SwitchAt, NoSwitch, PrioMax
<1>2. FieldInv
  <2>1. ASSUME NEW t \in Task PROVE pc[t] \in {"cs", "exit"} <=> lockcount[t] = 1
    OBVIOUS
  <2>2. ASSUME NEW t \in Task PROVE pc[t] \in {"cs", "exit"} <=> in_cs[t]
    OBVIOUS
  <2>3. ASSUME NEW t \in Task PROVE pc[t] = "idle" /\ prio[t] = BasePrio[t]
    OBVIOUS
  <2> HIDE DEF Init, CoreInit
  <2> QED BY <2>1, <2>2, <2>3, Zenon DEF FieldInv, Spinning
<1>3. SwitchInv
  BY DEF SwitchInv, NoSwitch
<1>4. NonPreemptive /\ OwnerIsHolder
  BY DEF NonPreemptive, OwnerIsHolder
<1>5. QueueIntegrity
  BY DEF QueueIntegrity, LinkedOnce, LinkedIsFlagged, FlaggedIsLinked, OnceEach, Occurs
<1> QED BY <1>1, <1>2, <1>3, <1>4, <1>5 DEF IInv

LEMMA NextInv == IInv /\ [Next]_vars => IInv'
<1> SUFFICES ASSUME IInv, [Next]_vars PROVE IInv'
  OBVIOUS
<1>1. ASSUME NEW t \in Task, TaskStep(t) PROVE IInv'
  BY <1>1, RejectStep, LockStep, RaiseStep, CheckStep, ReraiseStep, EnterStep,
     WaitStep, ReleaseStep, SchedUnlockStep, RestoreStep, FinishStep, SleepStep,
     WakeStep DEF TaskStep
<1>2. ASSUME NEW c \in Cpu, CpuStep(c) PROVE IInv'
  BY <1>2, PreemptStep, HookTestStep, HookCancelStep, HookLowerStep DEF CpuStep
<1>3. CASE UNCHANGED vars
  <2>1. UNCHANGED <<coreVars, prio, lockcount, awake, curr, switch>>
    BY <1>3 DEF vars, schedVars
  <2>2. FieldInv' /\ OwnerIsHolder' /\ QueueIntegrity'
    BY <2>1, CoreUnchanged DEF IInv
  <2>3. TypeOK' /\ SwitchInv' /\ NonPreemptive'
    BY <2>1 DEF IInv, TypeOK, CoreTypeOK, SwitchInv, NonPreemptive, Executes,
                coreVars, tcbVars, resVars
  <2> QED BY <2>2, <2>3 DEF IInv
<1> QED BY <1>1, <1>2, <1>3 DEF Next

\* Whatever the timing of preemptions, frap_lock(), frap_unlock() and the hook keep
\* program points, fields, queues, owners and switches consistent.
THEOREM Invariance == Spec => []IInv
BY InitInv, NextInv, PTL DEF Spec

\* The fields of struct tcb_s and struct frap_res keep their types: a priority
\* is always a valid uint8_t task priority, the lock count of a task is 0 or 1,
\* no counter leaves its width.
THEOREM TypeCorrect == Spec => []TypeOK
<1>1. IInv => TypeOK
  BY DEF IInv
<1> QED BY <1>1, Invariance, PTL

\* The assertions of frap_unlock() never fire.
THEOREM OwnerCorrect == Spec => []OwnerIsHolder
<1>1. IInv => OwnerIsHolder
  BY DEF IInv
<1> QED BY <1>1, Invariance, PTL

\* frap_lock() admits one task at a time to a resource.
THEOREM Exclusion == Spec => []MutualExclusion
<1>1. IInv => MutualExclusion
  BY DEF IInv, OwnerIsHolder, MutualExclusion
<1> QED BY <1>1, Invariance, PTL

\* frap_enqueued and the lists agree, so list_delete() is only ever called on a
\* node that is in the list.
THEOREM QueuesCorrect == Spec => []QueueIntegrity
<1>1. IInv => QueueIntegrity
  BY DEF IInv
<1> QED BY <1>1, Invariance, PTL

\* sched_lock() in frap_lock() keeps the CPU for the critical section.
THEOREM RunsToCompletion == Spec => []NonPreemptive
<1>1. IInv => NonPreemptive
  BY DEF IInv
<1> QED BY <1>1, Invariance, PTL

\* The three assertions of frap_on_preempt() never fire on pinned tasks.
THEOREM HookCorrect == Spec => []HookAssertions
<1>1. ASSUME IInv PROVE HookAssertions
  <2> SUFFICES ASSUME NEW c \in Cpu, switch[c].at = "remove"
               PROVE  /\ ~in_cs[switch[c].old]
                      /\ waiting_res[switch[c].old] # Null
                      /\ enqueued[switch[c].old]
    BY DEF HookAssertions
  <2>1. /\ switch[c].old \in Task
        /\ pc[switch[c].old] \in Spinning
        /\ enqueued[switch[c].old]
    BY <1>1 DEF IInv, SwitchInv, TypeOK
  <2>2. ~in_cs[switch[c].old] /\ waiting_res[switch[c].old] \in Res
    BY <1>1, <2>1 DEF IInv, FieldInv, TypeOK, CoreTypeOK, Spinning
  <2> QED BY <2>1, <2>2, CoreAssumption
<1> QED BY <1>1, Invariance, PTL

\* Outside frap_lock() and frap_unlock() a task has its own priority.
THEOREM PriorityCorrect == Spec => []PriorityRestored
<1>1. IInv => PriorityRestored
  BY DEF IInv, FieldInv, PriorityRestored
<1> QED BY <1>1, Invariance, PTL

-----------------------------------------------------------------------------
(* FrapLock implements the abstract FIFO lock of FrapSpec, for every       *)
(* instance.  frap_lock()'s prologue is a Request, the section under r->sl *)
(* a Grant, a Join or a stutter, the cancellation in frap_on_preempt() a   *)
(* Withdraw, "r->owner = NULL" a Release; the scheduler stutters.          *)

\* Steps that the abstract lock does not see.
LEMMA Stutters ==
    ASSUME TypeOK, UNCHANGED <<waiting_res, owner, fifo>>,
           \A u \in Task : /\ pc'[u] \in Spinning <=> pc[u] \in Spinning
                           /\ pc'[u] = "cs" <=> pc[u] = "cs"
    PROVE  UNCHANGED Abstract!vars
<1>1. phaseBar' = phaseBar
  BY DEF phaseBar
<1>2. reqBar' = reqBar
  BY DEF reqBar
<1> QED BY <1>1, <1>2 DEF Abstract!vars

\* A task moves from one phase to another: the abstract variables follow.
LEMMA PhaseMoves ==
    ASSUME TypeOK, NEW t \in Task, NEW label \in Label, GoTo(t, label)
    PROVE  phaseBar' = [phaseBar EXCEPT ![t] =
               IF label \in Spinning THEN "waiting"
               ELSE IF label = "cs" THEN "holding" ELSE "out"]
<1>1. pc' = [pc EXCEPT ![t] = label] /\ pc \in [Task -> Label]
  BY DEF GoTo, TypeOK, CoreTypeOK
<1>2. ASSUME NEW u \in Task
      PROVE  phaseBar'[u] = [phaseBar EXCEPT ![t] =
               IF label \in Spinning THEN "waiting"
               ELSE IF label = "cs" THEN "holding" ELSE "out"][u]
  BY <1>1 DEF phaseBar
<1> QED BY <1>2 DEF phaseBar

LEMMA LockRequests ==
    ASSUME IInv, NEW t \in Task, NEW r \in Res, Lock(t, r)
    PROVE  Abstract!Request(t, r)
<1>1. /\ pc[t] = "idle" /\ GoTo(t, "raise")
      /\ waiting_res' = [waiting_res EXCEPT ![t] = r]
      /\ UNCHANGED <<owner, fifo>>
  BY DEF Lock, LockEntry, resVars
<1>2. phaseBar[t] = "out"
  BY <1>1 DEF phaseBar, Spinning
<1>3. phaseBar' = [phaseBar EXCEPT ![t] = "waiting"]
  BY <1>1, PhaseMoves DEF IInv, Label, Spinning
<1>4. reqBar' = [reqBar EXCEPT ![t] = r]
  <2>1. pc' = [pc EXCEPT ![t] = "raise"]
    BY <1>1 DEF GoTo
  <2>2. ASSUME NEW u \in Task PROVE reqBar'[u] = [reqBar EXCEPT ![t] = r][u]
    BY <1>1, <2>1 DEF reqBar, Spinning, IInv, TypeOK, CoreTypeOK
  <2> QED BY <2>2 DEF reqBar
<1> QED BY <1>1, <1>2, <1>3, <1>4 DEF Abstract!Request

\* The head of the queue is what list_delete() unlinks when a task enters.
LEMMA EnterGrants ==
    ASSUME IInv, NEW t \in Task, Enter(t)
    PROVE  Abstract!Grant(t, waiting_res[t])
<1> DEFINE r == waiting_res[t]
           q == fifo[r]
<1>1. /\ pc[t] = "try" /\ GoTo(t, "cs") /\ CanEnter(t, r)
      /\ fifo' = [fifo EXCEPT ![r] = QueueRemove(r, t)]
      /\ owner' = [owner EXCEPT ![r] = t]
      /\ UNCHANGED waiting_res
  BY DEF Enter, TryEnter
<1>2. r \in Res /\ q \in Seq(Task)
  BY <1>1 DEF IInv, FieldInv, TypeOK, CoreTypeOK
<1> HIDE DEF r
<1>3. phaseBar[t] = "waiting" /\ reqBar[t] = r
  BY <1>1 DEF phaseBar, reqBar, Spinning, r
<1>4. phaseBar' = [phaseBar EXCEPT ![t] = "holding"]
  BY <1>1, PhaseMoves DEF IInv, Label, Spinning
<1>5. reqBar' = reqBar
  <2>1. pc' = [pc EXCEPT ![t] = "cs"]
    BY <1>1 DEF GoTo
  <2>2. ASSUME NEW u \in Task PROVE reqBar'[u] = reqBar[u]
    BY <1>1, <2>1 DEF reqBar, Spinning, IInv, TypeOK, CoreTypeOK
  <2> QED BY <2>2 DEF reqBar
<1>6. \/ q = <<>> /\ UNCHANGED fifo
      \/ q # <<>> /\ Head(q) = t /\ fifo' = [fifo EXCEPT ![r] = Tail(@)]
  <2>1. CASE q = <<>>
    <3>1. ~enqueued[t]
      BY <1>2, <2>1 DEF IInv, QueueIntegrity, FlaggedIsLinked, Occurs, r
    <3> QED BY <1>1, <1>2, <2>1, <3>1 DEF QueueRemove, IInv, TypeOK, CoreTypeOK
  <2>2. CASE q # <<>>
    <3>1. Head(q) = t /\ 1 \in 1 .. Len(q) /\ q[1] = t
      BY <1>1, <1>2, <2>2 DEF CanEnter
    <3>2. enqueued[t] /\ OnceEach(q)
      BY <1>2, <3>1 DEF IInv, QueueIntegrity, LinkedIsFlagged, LinkedOnce, Occurs
    <3>3. /\ Delete(t, q) \in Seq(Task)
          /\ Len(Delete(t, q)) = Len(q) - 1
          /\ \A i \in 1 .. Len(q) - 1 : Delete(t, q)[i] = q[i + 1]
      BY <1>2, <3>1, <3>2, DeleteFacts
    <3>4. Delete(t, q) = Tail(q)
      <4>1. /\ Tail(q) \in Seq(Task)
            /\ Len(Tail(q)) = Len(q) - 1
            /\ \A i \in 1 .. Len(q) - 1 : Tail(q)[i] = q[i + 1]
        BY <1>2, <2>2
      <4> QED BY <3>3, <4>1, SeqEqual
    <3> QED BY <1>1, <2>2, <3>1, <3>2, <3>4 DEF QueueRemove
  <2> QED BY <2>1, <2>2
<1>7. owner[r] = Null
  BY <1>1 DEF CanEnter
<1> QED BY <1>1, <1>3, <1>4, <1>5, <1>6, <1>7 DEF Abstract!Grant, r

\* A task that cannot enter is at most appended.
LEMMA WaitJoins ==
    ASSUME IInv, NEW t \in Task, Wait(t)
    PROVE  Abstract!Join(t, waiting_res[t]) \/ UNCHANGED Abstract!vars
<1> DEFINE r == waiting_res[t]
<1>1. /\ pc[t] = "try" /\ pc' = [pc EXCEPT ![t] = "check"] /\ ~CanEnter(t, r)
      /\ fifo' = [fifo EXCEPT ![r] = QueueTail(r, t)]
      /\ UNCHANGED <<waiting_res, owner>>
  BY DEF Wait, TryWait, GoTo
<1>2. r \in Res
  BY <1>1 DEF IInv, FieldInv
<1> HIDE DEF r
<1>3. \A u \in Task : /\ pc'[u] \in Spinning <=> pc[u] \in Spinning
                      /\ pc'[u] = "cs" <=> pc[u] = "cs"
  BY <1>1 DEF Spinning, IInv, TypeOK, CoreTypeOK
<1>4. CASE enqueued[t]
  <2>1. fifo' = fifo
    BY <1>1, <1>2, <1>4 DEF QueueTail, IInv, TypeOK, CoreTypeOK
  <2> QED BY <1>1, <1>3, <2>1, Stutters DEF IInv
<1>5. CASE ~enqueued[t]
  <2>1. phaseBar[t] = "waiting" /\ reqBar[t] = r
    BY <1>1 DEF phaseBar, reqBar, Spinning, r
  <2>2. phaseBar' = phaseBar /\ reqBar' = reqBar
    BY <1>1, <1>3 DEF phaseBar, reqBar
  <2>3. ~Abstract!Queued(t, r)
    BY <1>2, <1>5 DEF Abstract!Queued, IInv, QueueIntegrity, LinkedIsFlagged, Occurs
  <2>4. owner[r] # Null \/ fifo[r] # <<>>
    BY <1>1 DEF CanEnter
  <2>5. fifo' = [fifo EXCEPT ![r] = Append(@, t)]
    BY <1>1, <1>5 DEF QueueTail
  <2> QED BY <1>1, <2>1, <2>2, <2>3, <2>4, <2>5 DEF Abstract!Join, r
<1> QED BY <1>4, <1>5

LEMMA ReleaseReleases ==
    ASSUME IInv, NEW t \in Task, Release(t)
    PROVE  Abstract!Release(t, waiting_res[t])
<1> DEFINE r == waiting_res[t]
<1>1. /\ pc[t] = "cs" /\ GoTo(t, "exit")
      /\ owner' = [owner EXCEPT ![r] = Null]
      /\ UNCHANGED <<waiting_res, fifo>>
  BY DEF Release, ClearOwner, tcbVars
<1>2. owner[r] = t
  BY <1>1 DEF IInv, OwnerIsHolder
<1> HIDE DEF r
<1>3. phaseBar[t] = "holding" /\ reqBar[t] = r
  BY <1>1 DEF phaseBar, reqBar, Spinning, r
<1>4. phaseBar' = [phaseBar EXCEPT ![t] = "out"]
  BY <1>1, PhaseMoves DEF IInv, Label, Spinning
<1>5. reqBar' = [reqBar EXCEPT ![t] = Null]
  <2>1. pc' = [pc EXCEPT ![t] = "exit"]
    BY <1>1 DEF GoTo
  <2>2. ASSUME NEW u \in Task PROVE reqBar'[u] = [reqBar EXCEPT ![t] = Null][u]
    BY <1>1, <2>1 DEF reqBar, Spinning, IInv, TypeOK, CoreTypeOK
  <2> QED BY <2>2 DEF reqBar
<1> QED BY <1>1, <1>2, <1>3, <1>4, <1>5 DEF Abstract!Release, r

\* The hook unlinks the old task from the list it is in.
LEMMA CancelWithdraws ==
    ASSUME IInv, NEW c \in Cpu, HookCancel(c)
    PROVE  \E t \in Task, r \in Res : Abstract!Withdraw(t, r)
<1> DEFINE t == switch[c].old
           r == waiting_res[t]
           q == fifo[r]
<1>1. /\ switch[c].at = "remove"
      /\ fifo' = [fifo EXCEPT ![r] = QueueRemove(r, t)]
      /\ UNCHANGED <<pc, waiting_res, owner>>
  BY DEF HookCancel, CancelSpin
<1>2. t \in Task /\ pc[t] \in Spinning /\ enqueued[t]
  BY <1>1 DEF IInv, SwitchInv, TypeOK
<1>3. r \in Res /\ q \in Seq(Task) /\ OnceEach(q)
  BY <1>2 DEF IInv, FieldInv, Spinning, TypeOK, CoreTypeOK, QueueIntegrity, LinkedOnce
<1>4. PICK k \in 1 .. Len(q) : q[k] = t
  BY <1>2 DEF IInv, QueueIntegrity, FlaggedIsLinked, Occurs
<1> HIDE DEF t, r
<1>5. PositionOf(t, q) = k
  <2>1. PositionOf(t, q) \in 1 .. Len(q) /\ q[PositionOf(t, q)] = t
    BY <1>4 DEF PositionOf
  <2> QED BY <1>3, <1>4, <2>1 DEF OnceEach
<1>6. fifo' = [fifo EXCEPT ![r] = Abstract!Without(q, k)]
  BY <1>1, <1>2, <1>5 DEF QueueRemove, Delete, Abstract!Without
<1>7. phaseBar[t] = "waiting" /\ reqBar[t] = r
  BY <1>2 DEF phaseBar, reqBar, r
<1>8. phaseBar' = phaseBar /\ reqBar' = reqBar
  BY <1>1 DEF phaseBar, reqBar
<1>9. Abstract!Withdraw(t, r)
  BY <1>1, <1>4, <1>6, <1>7, <1>8 DEF Abstract!Withdraw
<1> QED BY <1>2, <1>3, <1>9

-----------------------------------------------------------------------------
LEMMA QuietStutters ==
    ASSUME IInv, NEW t \in Task,
           \/ \E r \in Res : Reject(t, r)
           \/ Raise(t) \/ Check(t) \/ Reraise(t) \/ SchedUnlock(t) \/ Restore(t)
           \/ Finish(t) \/ Sleep(t) \/ Wake(t)
    PROVE  UNCHANGED Abstract!vars
<1>1. CASE Finish(t)
  <2>1. /\ pc[t] = "done" /\ pc' = [pc EXCEPT ![t] = "idle"]
        /\ waiting_res' = [waiting_res EXCEPT ![t] = Null]
        /\ UNCHANGED <<owner, fifo>>
    BY <1>1 DEF Finish, ForgetResource, GoTo, resVars
  <2>2. ASSUME NEW u \in Task PROVE phaseBar'[u] = phaseBar[u] /\ reqBar'[u] = reqBar[u]
    BY <2>1 DEF phaseBar, reqBar, Spinning, IInv, TypeOK, CoreTypeOK
  <2>3. phaseBar' = phaseBar /\ reqBar' = reqBar
    BY <2>2 DEF phaseBar, reqBar
  <2> QED BY <2>1, <2>3 DEF Abstract!vars
<1>2. CASE ~Finish(t)
  <2>1. UNCHANGED <<waiting_res, owner, fifo>>
    BY <1>2 DEF Reject, Raise, Check, Reraise, SchedUnlock, Restore, Sleep, Wake,
                LockRejected, Raised, CheckCancelled, Reraised, LeaveNonPreemptive,
                Restored, coreVars, tcbVars, resVars
  <2>2. \A u \in Task : /\ pc'[u] \in Spinning <=> pc[u] \in Spinning
                        /\ pc'[u] = "cs" <=> pc[u] = "cs"
    BY <1>2 DEF Reject, Raise, Check, Reraise, SchedUnlock, Restore, Sleep, Wake,
                LockRejected, Raised, CheckCancelled, Reraised, LeaveNonPreemptive,
                Restored, GoTo, Spinning, coreVars, IInv, TypeOK, CoreTypeOK
  <2> QED BY <2>1, <2>2, Stutters DEF IInv
<1> QED BY <1>1, <1>2

LEMMA StepRefines ==
    IInv /\ [Next]_vars => [Abstract!Next]_Abstract!vars
<1> SUFFICES ASSUME IInv, [Next]_vars PROVE Abstract!Next \/ UNCHANGED Abstract!vars
  OBVIOUS
<1>1. ASSUME NEW t \in Task, TaskStep(t)
      PROVE  Abstract!Next \/ UNCHANGED Abstract!vars
  <2>1. ASSUME NEW r \in Res, Lock(t, r) PROVE Abstract!Next
    BY <2>1, LockRequests DEF Abstract!Next
  <2>2. ASSUME pc[t] \in {"try", "cs"} PROVE waiting_res[t] \in Res
    BY <2>2 DEF IInv, FieldInv
  <2>3. CASE Enter(t)
    BY <2>2, <2>3, EnterGrants DEF Abstract!Next, Enter, TryEnter
  <2>4. CASE Wait(t)
    BY <2>2, <2>4, WaitJoins DEF Abstract!Next, Wait, TryWait
  <2>5. CASE Release(t)
    BY <2>2, <2>5, ReleaseReleases DEF Abstract!Next, Release, ClearOwner
  <2> QED BY <1>1, <2>1, <2>3, <2>4, <2>5, QuietStutters DEF TaskStep
<1>2. ASSUME NEW c \in Cpu, CpuStep(c)
      PROVE  Abstract!Next \/ UNCHANGED Abstract!vars
  <2>1. CASE HookCancel(c)
    BY <2>1, CancelWithdraws DEF Abstract!Next
  <2>2. CASE Preempt(c) \/ HookTest(c) \/ HookLower(c)
    <3>1. UNCHANGED <<pc, waiting_res, owner, fifo>>
      BY <2>2 DEF Preempt, HookTest, HookLower, coreVars, tcbVars, resVars
    <3> QED BY <3>1, Stutters DEF IInv
  <2> QED BY <1>2, <2>1, <2>2 DEF CpuStep
<1>3. CASE UNCHANGED vars
  BY <1>3, Stutters DEF vars, coreVars, tcbVars, resVars, IInv
<1> QED BY <1>1, <1>2, <1>3 DEF Next

\* frap_lock(), frap_unlock() and frap_on_preempt() implement the abstract FIFO
\* lock: grants go to the head of the queue, and no waiter is lost or invented.
THEOREM Refinement == Spec => AbstractSpec
<1>1. Init => Abstract!Init
  BY DEF Init, CoreInit, Abstract!Init, phaseBar, reqBar, Spinning
<1> QED BY <1>1, StepRefines, Invariance, PTL DEF Spec, AbstractSpec, Abstract!Spec

-----------------------------------------------------------------------------
(* The bound FRAP's analysis rests on, for every instance in which no two
   tasks of a CPU share a priority level: each CPU has at most one task
   queued. *)

\* A task runs at one of its own levels.
LevelInv ==
    \A t \in Task :
        /\ prio[t] \in Levels(t)
        /\ pc[t] \in Spinning => spin_prio[t] \in Levels(t)

\* A queued task executes, or is being switched out and not yet dequeued.
QueuedRuns ==
    \A t \in Task : enqueued[t] =>
        \/ Executes(t)
        \/ switch[CpuOf[t]].old = t /\ switch[CpuOf[t]].at # "lower"

\* A queued task that is being switched out has been outranked, so the hook will
\* dequeue it.
Outranked ==
    \A c \in Cpu :
        /\ switch[c].at \in {"isr", "svc"}
        /\ switch[c].old # Null
        /\ enqueued[switch[c].old]
        => curr[c] # Null /\ prio[curr[c]] > prio[switch[c].old]

SpinInv == LevelInv /\ QueuedRuns /\ Outranked

-----------------------------------------------------------------------------
LEMMA LevelFacts ==
    ASSUME NEW t \in Task
    PROVE  /\ BasePrio[t] \in Levels(t)
           /\ \A r \in Res : LockAccepts(t, r, BasePrio[t]) => SpinOf(t, r) \in Levels(t)
BY DEF Levels

LEMMA LevelsApart ==
    ASSUME DistinctLevels, NEW t \in Task, NEW u \in Task, t # u, CpuOf[t] = CpuOf[u],
           NEW p \in Levels(t), NEW q \in Levels(u)
    PROVE  p # q
BY DEF DistinctLevels

\* A CPU whose scheduling does not change and whose tasks keep their priorities;
\* only the executing task may join or leave a queue.
LEMMA QueuedKept ==
    ASSUME IInv, QueuedRuns, Outranked, UNCHANGED <<curr, switch, prio>>,
           NEW t \in Task, Executes(t),
           \A u \in Task \ {t} : enqueued'[u] = enqueued[u]
    PROVE  QueuedRuns' /\ Outranked'
<1>1. QueuedRuns'
  BY DEF QueuedRuns, Executes
<1>2. ASSUME NEW c \in Cpu PROVE switch[c].old # t
  BY <1>2, CoreAssumption DEF Executes, IInv, SwitchInv
<1>3. \A c \in Cpu : switch[c].old # Null => switch[c].old \in Task \ {t}
  BY <1>2 DEF IInv, TypeOK
<1>4. Outranked'
  BY <1>3 DEF Outranked
<1> QED BY <1>1, <1>4

\* The executing task t makes a scheduler call with new priorities pr.
LEMMA QueuedYields ==
    ASSUME IInv, DistinctLevels, LevelInv, LevelInv', TypeOK', QueuedRuns, Outranked,
           NEW t \in Task, Executes(t), MayYield(t, awake, prio'),
           UNCHANGED enqueued,
           \A u \in Task \ {t} : prio'[u] = prio[u]
    PROVE  QueuedRuns' /\ Outranked'
<1> DEFINE c == CpuOf[t]
<1>1. c \in Cpu /\ curr[c] = t /\ switch[c].at = "none"
  BY CpuAssumption DEF Executes
<1>2. \A d \in Cpu : switch[d].old # t
  BY CoreAssumption DEF Executes, IInv, SwitchInv
<1>3. \A d \in Cpu \ {c} : curr[d] # t
  BY CoreAssumption DEF IInv, SwitchInv
<1>4. CASE UNCHANGED <<curr, switch>>
  <2>1. QueuedRuns'
    BY <1>4 DEF QueuedRuns, Executes
  <2>2. Outranked'
    <3> SUFFICES ASSUME NEW d \in Cpu, switch[d].at \in {"isr", "svc"},
                        switch[d].old # Null, enqueued[switch[d].old]
                 PROVE  curr[d] # Null /\ prio'[curr[d]] > prio'[switch[d].old]
      BY <1>4 DEF Outranked
    <3>1. curr[d] # Null /\ prio[curr[d]] > prio[switch[d].old]
      BY DEF Outranked
    <3>2. d # c /\ curr[d] \in Task \ {t} /\ switch[d].old \in Task \ {t}
      BY <1>1, <1>2, <1>3, <3>1 DEF IInv, TypeOK
    <3> QED BY <3>1, <3>2
  <2> QED BY <2>1, <2>2
<1>5. ASSUME NEW n \in Best(c, awake, prio'),
             prio'[n] >= prio'[t],
             curr' = [curr EXCEPT ![c] = n],
             switch' = [switch EXCEPT ![c] = [old |-> t, at |-> "svc"]]
      PROVE  QueuedRuns' /\ Outranked'
  <2>1. n \in Task /\ CpuOf[n] = c /\ n # t
    BY <1>1 DEF Best, Ready
  <2>2. /\ curr'[c] = n /\ switch'[c] = [old |-> t, at |-> "svc"]
        /\ \A d \in Cpu \ {c} : curr'[d] = curr[d] /\ switch'[d] = switch[d]
    BY <1>1, <1>5 DEF IInv, TypeOK
  <2>3. prio'[n] > prio'[t]
    <3>1. prio'[n] # prio'[t]
      BY <2>1, LevelsApart DEF LevelInv
    <3>2. prio'[n] \in Nat /\ prio'[t] \in Nat
      BY <2>1 DEF TypeOK
    <3> QED BY <1>5, <3>1, <3>2
  <2>4. QueuedRuns'
    <3> SUFFICES ASSUME NEW u \in Task, enqueued[u]
                 PROVE  \/ Executes(u)'
                        \/ switch'[CpuOf[u]].old = u /\ switch'[CpuOf[u]].at # "lower"
      BY DEF QueuedRuns
    <3>1. CpuOf[u] \in Cpu
      BY CpuAssumption
    <3>2. CASE CpuOf[u] = c
      BY <1>1, <2>2, <3>2, CoreAssumption DEF QueuedRuns, Executes, IInv, SwitchInv
    <3>3. CASE CpuOf[u] # c
      BY <2>2, <3>1, <3>3 DEF QueuedRuns, Executes
    <3> QED BY <3>2, <3>3
  <2>5. Outranked'
    <3> SUFFICES ASSUME NEW d \in Cpu, switch'[d].at \in {"isr", "svc"},
                        switch'[d].old # Null, enqueued[switch'[d].old]
                 PROVE  curr'[d] # Null /\ prio'[curr'[d]] > prio'[switch'[d].old]
      BY DEF Outranked
    <3>1. CASE d = c
      BY <2>1, <2>2, <2>3, <3>1, CoreAssumption
    <3>2. CASE d # c
      <4>1. curr[d] # Null /\ prio[curr[d]] > prio[switch[d].old]
        BY <2>2, <3>2 DEF Outranked
      <4>2. curr[d] \in Task \ {t} /\ switch[d].old \in Task \ {t}
        BY <1>2, <1>3, <2>2, <3>2, <4>1 DEF IInv, TypeOK
      <4> QED BY <2>2, <3>2, <4>1, <4>2
    <3> QED BY <3>1, <3>2
  <2> QED BY <2>4, <2>5
<1> QED BY <1>4, <1>5 DEF MayYield

\* An interrupt handler displaces the task of CPU c.
LEMMA QueuedDisplaced ==
    ASSUME IInv, DistinctLevels, LevelInv, QueuedRuns, Outranked,
           UNCHANGED <<enqueued, prio>>,
           NEW c \in Cpu, NEW aw, Displace(c, aw)
    PROVE  QueuedRuns' /\ Outranked'
<1> DEFINE old == IF switch[c].at = "none" THEN curr[c] ELSE switch[c].old
<1>1. PICK n \in Best(c, aw, prio) \ {switch[c].old} :
          /\ prio[n] >= PrioOf(curr[c], prio)
          /\ curr' = [curr EXCEPT ![c] = n]
  BY DEF Displace
<1>2. /\ switch[c].at \in {"none", "isr"}
      /\ switch' = [switch EXCEPT ![c] = [old |-> old, at |-> "isr"]]
  BY DEF Displace
<1>3. n \in Task /\ CpuOf[n] = c /\ n # curr[c] /\ n # old
  BY <1>1 DEF Best, Ready
<1>4. /\ curr'[c] = n /\ switch'[c].old = old /\ switch'[c].at = "isr"
      /\ \A d \in Cpu \ {c} : curr'[d] = curr[d] /\ switch'[d] = switch[d]
  BY <1>1, <1>2 DEF IInv, TypeOK
<1> HIDE DEF old
<1>5. QueuedRuns'
  <2> SUFFICES ASSUME NEW u \in Task, enqueued[u]
               PROVE  \/ Executes(u)'
                      \/ switch'[CpuOf[u]].old = u /\ switch'[CpuOf[u]].at # "lower"
    BY DEF QueuedRuns
  <2>1. CpuOf[u] \in Cpu
    BY CpuAssumption
  <2>2. CASE CpuOf[u] = c
    BY <1>2, <1>4, <2>2, CoreAssumption DEF QueuedRuns, Executes, IInv, SwitchInv, old
  <2>3. CASE CpuOf[u] # c
    BY <1>4, <2>1, <2>3 DEF QueuedRuns, Executes
  <2> QED BY <2>2, <2>3
<1>6. ASSUME old # Null, enqueued[old] PROVE prio[n] > prio[old]
  <2>1. old \in Task /\ CpuOf[old] = c
    BY <1>2, <1>6 DEF old, IInv, TypeOK, SwitchInv
  <2>2. prio[n] \in Nat /\ prio[old] \in Nat
    BY <1>3, <2>1 DEF IInv, TypeOK
  <2>3. CASE switch[c].at = "none"
    <3>1. prio[n] # prio[old]
      BY <1>3, <2>1, LevelsApart DEF LevelInv
    <3> QED BY <1>1, <1>6, <2>2, <2>3, <3>1 DEF old, PrioOf
  <2>4. CASE switch[c].at = "isr"
    <3>1. curr[c] # Null /\ prio[curr[c]] > prio[old]
      BY <1>6, <2>4 DEF Outranked, old
    <3>2. prio[curr[c]] \in Nat
      BY <3>1 DEF IInv, TypeOK
    <3> QED BY <1>1, <2>2, <3>1, <3>2 DEF PrioOf
  <2> QED BY <1>2, <2>3, <2>4
<1>7. Outranked'
  <2> SUFFICES ASSUME NEW d \in Cpu, switch'[d].at \in {"isr", "svc"},
                      switch'[d].old # Null, enqueued[switch'[d].old]
               PROVE  curr'[d] # Null /\ prio[curr'[d]] > prio[switch'[d].old]
    BY DEF Outranked
  <2>1. CASE d = c
    BY <1>3, <1>4, <1>6, <2>1, CoreAssumption
  <2>2. CASE d # c
    BY <1>4, <2>2 DEF Outranked
  <2> QED BY <2>1, <2>2
<1> QED BY <1>5, <1>7

-----------------------------------------------------------------------------
(* Every step preserves the invariant.  The premises that every lemma needs: *)
(* IInv holds before and after the step.                                     *)

\* The steps of the executing task that make no scheduler call.
LEMMA QuietSteps ==
    ASSUME IInv, IInv', SpinInv, NEW t \in Task,
           \/ \E r \in Res : Reject(t, r) \/ Lock(t, r)
           \/ Check(t) \/ Enter(t) \/ Wait(t) \/ Release(t) \/ Finish(t)
    PROVE  SpinInv'
<1>1. /\ Executes(t)
      /\ UNCHANGED <<curr, switch, prio>>
      /\ \A u \in Task \ {t} : /\ enqueued'[u] = enqueued[u]
                               /\ pc'[u] = pc[u]
                               /\ spin_prio'[u] = spin_prio[u]
  BY DEF Reject, Lock, Check, Enter, Wait, Release, Finish, LockRejected, LockEntry,
         CheckCancelled, TryEnter, TryWait, ClearOwner, ForgetResource, GoTo,
         schedVars, tcbVars, resVars, IInv, TypeOK, CoreTypeOK
<1>2. pc'[t] \in Spinning => spin_prio'[t] \in Levels(t)
  <2>1. ASSUME NEW r \in Res, Reject(t, r) PROVE pc'[t] \notin Spinning
    BY <2>1 DEF Reject, LockRejected, Spinning
  <2>2. ASSUME NEW r \in Res, Lock(t, r) PROVE spin_prio'[t] \in Levels(t)
    <3>1. prio[t] = BasePrio[t]
      BY <2>2 DEF Lock, LockEntry, IInv, FieldInv
    <3>2. spin_prio'[t] = SpinOf(t, r) /\ LockAccepts(t, r, BasePrio[t])
      BY <2>2, <3>1 DEF Lock, LockEntry, IInv, TypeOK, CoreTypeOK
    <3> QED BY <3>2, LevelFacts
  <2>3. ASSUME Check(t) \/ Wait(t) PROVE spin_prio'[t] \in Levels(t)
    BY <2>3 DEF Check, Wait, CheckCancelled, TryWait, SpinInv, LevelInv, Spinning
  <2>4. ASSUME Enter(t) \/ Release(t) \/ Finish(t) PROVE pc'[t] \notin Spinning
    BY <2>4 DEF Enter, Release, Finish, TryEnter, ClearOwner, ForgetResource, GoTo,
                Spinning, IInv, TypeOK, CoreTypeOK
  <2> QED BY <2>1, <2>2, <2>3, <2>4
<1>3. LevelInv'
  BY <1>1, <1>2 DEF SpinInv, LevelInv
<1>4. QueuedRuns' /\ Outranked'
  BY <1>1, QueuedKept DEF SpinInv
<1> QED BY <1>3, <1>4 DEF SpinInv

\* The steps that change the task's own priority or unlock the scheduler.
LEMMA CallSteps ==
    ASSUME IInv, IInv', SpinInv, DistinctLevels, NEW t \in Task,
           Raise(t) \/ Reraise(t) \/ SchedUnlock(t) \/ Restore(t)
    PROVE  SpinInv'
<1>1. /\ Executes(t) /\ MayYield(t, awake, prio')
      /\ UNCHANGED <<enqueued, spin_prio>>
      /\ \A u \in Task \ {t} : pc'[u] = pc[u] /\ prio'[u] = prio[u]
  BY DEF Raise, Reraise, SchedUnlock, Restore, SetPrio, Raised, Reraised,
         LeaveNonPreemptive, Restored, GoTo, tcbVars, IInv, TypeOK, CoreTypeOK
<1>2. prio'[t] \in Levels(t) /\ (pc'[t] \in Spinning => spin_prio[t] \in Levels(t))
  <2>1. CASE Raise(t) \/ Reraise(t)
    BY <2>1 DEF Raise, Reraise, SetPrio, Raised, Reraised, SpinInv, LevelInv, Spinning,
                IInv, TypeOK
  <2>2. CASE SchedUnlock(t)
    BY <2>2 DEF SchedUnlock, LeaveNonPreemptive, GoTo, SpinInv, LevelInv, Spinning,
                IInv, TypeOK, CoreTypeOK
  <2>3. CASE Restore(t)
    BY <2>3, LevelFacts DEF Restore, SetPrio, Restored, GoTo, Spinning,
                IInv, FieldInv, TypeOK, CoreTypeOK
  <2> QED BY <2>1, <2>2, <2>3
<1>3. LevelInv'
  BY <1>1, <1>2 DEF SpinInv, LevelInv
<1>4. QueuedRuns' /\ Outranked'
  BY <1>1, <1>3, QueuedYields DEF SpinInv, IInv
<1> QED BY <1>3, <1>4 DEF SpinInv

\* A task that sleeps is not queued.
LEMMA SleepSpin ==
    ASSUME IInv, SpinInv, NEW t \in Task, Sleep(t)
    PROVE  SpinInv'
<1> DEFINE c == CpuOf[t]
<1>1. c \in Cpu /\ curr[c] = t /\ switch[c].at = "none" /\ ~enqueued[t]
  BY CpuAssumption DEF Sleep, Executes, IInv, QueueIntegrity, FlaggedIsLinked, Spinning
<1>2. /\ UNCHANGED <<pc, spin_prio, enqueued, prio>>
      /\ switch' = [switch EXCEPT ![c] = [old |-> t, at |-> "svc"]]
      /\ \E n : curr' = [curr EXCEPT ![c] = n]
  BY DEF Sleep, coreVars, tcbVars
<1>3. /\ switch'[c] = [old |-> t, at |-> "svc"]
      /\ \A d \in Cpu \ {c} : curr'[d] = curr[d] /\ switch'[d] = switch[d]
  BY <1>1, <1>2 DEF IInv, TypeOK
<1>4. LevelInv'
  BY <1>2 DEF SpinInv, LevelInv
<1>5. QueuedRuns'
  <2> SUFFICES ASSUME NEW u \in Task, enqueued[u]
               PROVE  \/ Executes(u)'
                      \/ switch'[CpuOf[u]].old = u /\ switch'[CpuOf[u]].at # "lower"
    BY <1>2 DEF QueuedRuns
  <2>1. CpuOf[u] \in Cpu
    BY CpuAssumption
  <2>2. CpuOf[u] # c
    BY <1>1, CoreAssumption DEF SpinInv, QueuedRuns, Executes, IInv, SwitchInv
  <2> QED BY <1>3, <2>1, <2>2 DEF SpinInv, QueuedRuns, Executes
<1>6. Outranked'
  BY <1>1, <1>2, <1>3 DEF SpinInv, Outranked
<1> QED BY <1>4, <1>5, <1>6 DEF SpinInv

LEMMA DisplaceSpin ==
    ASSUME IInv, SpinInv, DistinctLevels,
           \/ \E c \in Cpu : Preempt(c)
           \/ \E t \in Task : Wake(t)
    PROVE  SpinInv'
<1>1. UNCHANGED <<pc, spin_prio, enqueued, prio>>
  BY DEF Preempt, Wake, coreVars, tcbVars
<1>2. LevelInv'
  BY <1>1 DEF SpinInv, LevelInv
<1>3. QueuedRuns' /\ Outranked'
  <2>1. CASE UNCHANGED <<curr, switch>>
    BY <1>1, <2>1 DEF SpinInv, QueuedRuns, Outranked, Executes
  <2>2. ASSUME NEW c \in Cpu, NEW aw, Displace(c, aw) PROVE QueuedRuns' /\ Outranked'
    BY <1>1, <2>2, QueuedDisplaced DEF SpinInv
  <2> QED BY <2>1, <2>2, CpuAssumption DEF Preempt, Wake
<1> QED BY <1>2, <1>3 DEF SpinInv

LEMMA HookTestSpin ==
    ASSUME IInv, SpinInv, NEW c \in Cpu, HookTest(c)
    PROVE  SpinInv'
<1> DEFINE old == switch[c].old
<1>1. UNCHANGED <<pc, spin_prio, enqueued, prio, curr>> /\ switch[c].at \in {"isr", "svc"}
  BY DEF HookTest, coreVars, tcbVars
<1>2. \A d \in Cpu \ {c} : switch'[d] = switch[d]
  BY DEF HookTest, IInv, TypeOK
<1>3. ASSUME old # Null, enqueued[old]
      PROVE  switch'[c] = [old |-> old, at |-> "remove"]
  <2>1. curr[c] # Null /\ prio[curr[c]] > prio[old]
    BY <1>1, <1>3 DEF SpinInv, Outranked
  <2> QED BY <1>3, <2>1 DEF HookTest, PreemptCancels, PrioOf, IInv, TypeOK
<1>4. switch'[c].at \in {"none", "remove"}
  BY DEF HookTest, NoSwitch, IInv, TypeOK
<1>5. LevelInv'
  BY <1>1 DEF SpinInv, LevelInv
<1>6. QueuedRuns'
  <2> SUFFICES ASSUME NEW u \in Task, enqueued[u]
               PROVE  \/ Executes(u)'
                      \/ switch'[CpuOf[u]].old = u /\ switch'[CpuOf[u]].at # "lower"
    BY <1>1 DEF QueuedRuns
  <2>1. CpuOf[u] \in Cpu
    BY CpuAssumption
  <2>2. CASE CpuOf[u] = c
    <3>1. old = u
      BY <1>1, <2>2 DEF SpinInv, QueuedRuns, Executes
    <3> QED BY <1>3, <2>2, <3>1, CoreAssumption
  <2>3. CASE CpuOf[u] # c
    BY <1>1, <1>2, <2>1, <2>3 DEF SpinInv, QueuedRuns, Executes
  <2> QED BY <2>2, <2>3
<1>7. Outranked'
  BY <1>1, <1>2, <1>4 DEF SpinInv, Outranked
<1> QED BY <1>5, <1>6, <1>7 DEF SpinInv

LEMMA HookCancelSpin ==
    ASSUME IInv, SpinInv, NEW c \in Cpu, HookCancel(c)
    PROVE  SpinInv'
<1> DEFINE t == switch[c].old
<1>1. /\ UNCHANGED <<pc, spin_prio, prio, curr>>
      /\ switch[c].at = "remove"
      /\ switch' = [switch EXCEPT ![c].at = "lower"]
      /\ enqueued' = [enqueued EXCEPT ![t] = FALSE]
  BY DEF HookCancel, CancelSpin
<1>2. t \in Task /\ CpuOf[t] = c
  BY <1>1 DEF IInv, SwitchInv, TypeOK
<1>3. /\ switch'[c].at = "lower"
      /\ \A d \in Cpu \ {c} : switch'[d] = switch[d]
      /\ \A u \in Task : enqueued'[u] => enqueued[u] /\ u # t
  BY <1>1, <1>2 DEF IInv, TypeOK, CoreTypeOK
<1> HIDE DEF t
<1>4. LevelInv'
  BY <1>1 DEF SpinInv, LevelInv
<1>5. QueuedRuns'
  <2> SUFFICES ASSUME NEW u \in Task, enqueued'[u]
               PROVE  \/ Executes(u)'
                      \/ switch'[CpuOf[u]].old = u /\ switch'[CpuOf[u]].at # "lower"
    BY DEF QueuedRuns
  <2>1. CpuOf[u] \in Cpu
    BY CpuAssumption
  <2>2. CpuOf[u] # c
    BY <1>1, <1>3 DEF SpinInv, QueuedRuns, Executes, t
  <2> QED BY <1>1, <1>3, <2>1, <2>2 DEF SpinInv, QueuedRuns, Executes
<1>6. Outranked'
  <2> SUFFICES ASSUME NEW d \in Cpu, switch'[d].at \in {"isr", "svc"},
                      switch'[d].old # Null, enqueued'[switch'[d].old]
               PROVE  curr[d] # Null /\ prio[curr[d]] > prio[switch'[d].old]
    BY <1>1 DEF Outranked
  <2>1. d # c /\ switch'[d] = switch[d]
    BY <1>3
  <2>2. enqueued[switch[d].old]
    BY <1>3, <2>1 DEF IInv, TypeOK
  <2> QED BY <2>1, <2>2 DEF SpinInv, Outranked
<1> QED BY <1>4, <1>5, <1>6 DEF SpinInv

LEMMA HookLowerSpin ==
    ASSUME IInv, SpinInv, NEW c \in Cpu, HookLower(c)
    PROVE  SpinInv'
<1> DEFINE t == switch[c].old
<1>1. /\ UNCHANGED <<pc, spin_prio, enqueued, curr>>
      /\ switch[c].at = "lower"
      /\ switch' = [switch EXCEPT ![c] = NoSwitch]
      /\ prio' = [prio EXCEPT ![t] = base_prio[t]]
  BY DEF HookLower, coreVars, tcbVars
<1>2. t \in Task /\ CpuOf[t] = c /\ pc[t] \in Spinning
  BY <1>1 DEF IInv, SwitchInv, TypeOK
<1>3. base_prio[t] = BasePrio[t]
  BY <1>2 DEF IInv, FieldInv, Spinning
<1> HIDE DEF t
<1>4. /\ switch'[c] = NoSwitch
      /\ \A d \in Cpu \ {c} : switch'[d] = switch[d]
      /\ prio'[t] = BasePrio[t]
      /\ \A u \in Task \ {t} : prio'[u] = prio[u]
  BY <1>1, <1>2, <1>3 DEF IInv, TypeOK
<1>5. LevelInv'
  BY <1>1, <1>2, <1>4, LevelFacts DEF SpinInv, LevelInv
<1>6. QueuedRuns'
  <2> SUFFICES ASSUME NEW u \in Task, enqueued[u]
               PROVE  \/ Executes(u)'
                      \/ switch'[CpuOf[u]].old = u /\ switch'[CpuOf[u]].at # "lower"
    BY <1>1 DEF QueuedRuns
  <2>1. CpuOf[u] \in Cpu
    BY CpuAssumption
  <2>2. CpuOf[u] # c
    BY <1>1 DEF SpinInv, QueuedRuns, Executes
  <2> QED BY <1>1, <1>4, <2>1, <2>2 DEF SpinInv, QueuedRuns, Executes
<1>7. Outranked'
  <2> SUFFICES ASSUME NEW d \in Cpu, switch'[d].at \in {"isr", "svc"},
                      switch'[d].old # Null, enqueued[switch'[d].old]
               PROVE  curr[d] # Null /\ prio'[curr[d]] > prio'[switch'[d].old]
    BY <1>1 DEF Outranked
  <2>1. d # c /\ switch'[d] = switch[d]
    BY <1>4 DEF NoSwitch
  <2>2. curr[d] # Null /\ prio[curr[d]] > prio[switch[d].old]
    BY <2>1 DEF SpinInv, Outranked
  <2>3. /\ curr[d] \in Task /\ CpuOf[curr[d]] = d
        /\ switch[d].old \in Task /\ CpuOf[switch[d].old] = d
    BY <2>1, <2>2 DEF IInv, SwitchInv, TypeOK
  <2> QED BY <1>2, <1>4, <2>1, <2>2, <2>3
<1> QED BY <1>5, <1>6, <1>7 DEF SpinInv

LEMMA SpinInit == Init => SpinInv
<1> SUFFICES ASSUME Init PROVE SpinInv
  OBVIOUS
<1>1. LevelInv
  BY LevelFacts, CoreAssumption DEF Init, CoreInit, LevelInv, Spinning
<1>2. QueuedRuns /\ Outranked
  BY DEF Init, CoreInit, QueuedRuns, Outranked, NoSwitch
<1> QED BY <1>1, <1>2 DEF SpinInv

LEMMA SpinNext ==
    ASSUME DistinctLevels, IInv, IInv', SpinInv, [Next]_vars
    PROVE  SpinInv'
<1>1. ASSUME NEW t \in Task, TaskStep(t) PROVE SpinInv'
  BY <1>1, QuietSteps, CallSteps, SleepSpin, DisplaceSpin DEF TaskStep
<1>2. ASSUME NEW c \in Cpu, CpuStep(c) PROVE SpinInv'
  BY <1>2, DisplaceSpin, HookTestSpin, HookCancelSpin, HookLowerSpin DEF CpuStep
<1>3. CASE UNCHANGED vars
  BY <1>3 DEF vars, coreVars, tcbVars, schedVars, SpinInv, LevelInv, QueuedRuns,
              Outranked, Executes
<1> QED BY <1>1, <1>2, <1>3 DEF Next

\* A preempted spinner always leaves the queue, so a CPU never has two tasks
\* queued, provided no two tasks of a CPU share a priority level.
THEOREM OneSpinner == DistinctLevels /\ Spec => []OneSpinnerPerCpu
<1>1. ASSUME IInv, SpinInv PROVE OneSpinnerPerCpu
  <2> SUFFICES ASSUME NEW t \in Task, NEW u \in Task, enqueued[t], enqueued[u],
                      CpuOf[t] = CpuOf[u]
               PROVE  t = u
    BY DEF OneSpinnerPerCpu
  <2>1. CpuOf[t] \in Cpu
    BY CpuAssumption
  <2> QED BY <1>1, <2>1, CoreAssumption DEF SpinInv, QueuedRuns, Executes, IInv, SwitchInv
<1> QED
  <2> SUFFICES ASSUME DistinctLevels PROVE Spec => []OneSpinnerPerCpu
    OBVIOUS
  <2>1. IInv /\ IInv' /\ SpinInv /\ [Next]_vars => SpinInv'
    BY SpinNext
  <2>2. IInv /\ SpinInv => OneSpinnerPerCpu
    BY <1>1
  <2> QED BY <2>1, <2>2, SpinInit, Invariance, PTL DEF Spec

=============================================================================
