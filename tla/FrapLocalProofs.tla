-------------------------- MODULE FrapLocalProofs ---------------------------
(***************************************************************************)
(* The local PCP variant beside the global protocol, for every number of   *)
(* tasks, CPUs and resources: a local critical section is not preempted,   *)
(* and what the two protocols save and restore does not mix, for every     *)
(* affinity; with pinned tasks the ceiling protects the statements outside *)
(* sched_lock(); and if the users of a resource share a CPU and start      *)
(* below its ceiling, a task in the critical section is the owner.         *)
(*                                                                         *)
(* The invariant is the one of FrapSmpProofs, for the tasks that are in a  *)
(* local critical section and those that a local call has raised.          *)
(***************************************************************************)
EXTENDS FrapLocal, FrapSmpProofs

-----------------------------------------------------------------------------
(* The inductive invariant. *)
RaisedLabel == {"own", "lock", "cs", "clear", "restore"}
Loc == {t \in Task : lpc[t] = "cs"}
Up == {t \in Task : lpc[t] \in RaisedLabel}

\* What a program point says about the local call.
CallInv ==
    \A t \in Task : lpc[t] # "none" =>
        /\ pc[t] = "idle"
        /\ lres[t] \in LocalRes[t] /\ lres[t] \in Res /\ ~IsGlobal[lres[t]]
        /\ saved_prio[t] = BasePrio[t]

LocalTypeOK ==
    /\ lpc \in [Task -> LocalLabel]
    /\ lres \in [Task -> Res \cup {Null}]
    /\ saved_prio \in [Task -> 0 .. PrioMax]

LInv == IInv(Loc, Up) /\ LocalTypeOK /\ CallInv

-----------------------------------------------------------------------------
(* The steps of the local calls preserve it. *)

USE DEF LGoTo, GoTo, coreVars, tcbVars, resVars

\* The sets of the next state, by name.
LEMMA Renamed ==
    ASSUME NEW loc, NEW up, IInv(loc, up)', Loc' = loc, Up' = up
    PROVE  IInv(Loc, Up)'
BY DEF IInv, FieldInv, LinkInv

\* A local step of t leaves the sets alone but for t.
SetsMove(t, loc, up, loc2, up2) ==
    \A u \in Task \ {t} : (u \in loc2 <=> u \in loc) /\ (u \in up2 <=> u \in up)

LEMMA LocalCoreMove ==
    ASSUME NEW loc, NEW up, IInv(loc, up), NEW t \in Task, NEW loc2, NEW up2,
           SetsMove(t, loc, up, loc2, up2), pc[t] = "idle",
           UNCHANGED <<pc, waiting_res, base_prio, spin_prio, cancelled, enqueued, preempt_cnt, fifo>>,
           in_cs' \in [Task -> BOOLEAN], in_cs'[t] <=> t \in loc2,
           \A u \in Task \ {t} : in_cs'[u] = in_cs[u],
           owner' \in [Res -> Task \cup {Null}], \A r \in Res : IsGlobal[r] => owner'[r] = owner[r]
    PROVE  CoreMove(t, loc2, up2)
<1>1. CoreTypeOK /\ FieldInv(loc, up)
    BY DEF IInv
<1>2. CoreTypeOK'
    BY <1>1 DEF CoreTypeOK
<1>3. FieldInv(loc2, up2)'
    <2> SUFFICES ASSUME NEW u \in Task
                 PROVE  /\ pc[u] # "idle" => /\ waiting_res[u] \in Res /\ IsGlobal[waiting_res[u]]
                                             /\ base_prio[u] = BasePrio[u]
                                             /\ spin_prio[u] \in 1 .. PrioMax
                        /\ enqueued[u] => pc[u] \in Spinning
                        /\ in_cs'[u] <=> pc[u] \in {"cs", "exit"} \/ u \in loc2
                        /\ pc[u] = "cs" => owner'[waiting_res[u]] = u
                        /\ u \in loc2 \cup up2 => pc[u] = "idle"
        BY DEF FieldInv
    <2>1. CASE u = t
        BY <1>1, <2>1 DEF FieldInv
    <2>2. CASE u # t
        BY <1>1, <2>2 DEF FieldInv, SetsMove
    <2> QED
        BY <2>1, <2>2
<1> QED
    BY <1>2, <1>3 DEF CoreMove

LEMMA LocalLink ==
    ASSUME NEW loc, NEW up, IInv(loc, up), NEW t \in Task, NEW loc2, NEW up2,
           SetsMove(t, loc, up, loc2, up2), pc[t] = "idle", pc' = pc,
           sch'.prio[t] \in 1 .. PrioMax, sch'.lock[t] = IF t \in loc2 THEN 1 ELSE 0,
           t \notin up2 => sch'.prio[t] = BasePrio[t],
           \A u \in Task \ {t} : sch'.prio[u] = sch.prio[u] /\ sch'.lock[u] = sch.lock[u]
    PROVE  LinkInv(sch, loc2, up2)'
<1>1. LinkInv(sch, loc, up)
    BY DEF IInv
<1> QED
    BY <1>1 DEF LinkInv, SetsMove

\* A local step of the task of c.
LEMMA LocalMove ==
    ASSUME NEW loc, NEW up, IInv(loc, up), NEW c \in Cpu, NEW t \in Task, Executes(c, t),
           NEW loc2, NEW up2, SetsMove(t, loc, up, loc2, up2), Loc' = loc2, Up' = up2,
           pc[t] = "idle",
           UNCHANGED <<pc, waiting_res, base_prio, spin_prio, cancelled, enqueued, preempt_cnt, fifo>>,
           in_cs' \in [Task -> BOOLEAN], in_cs'[t] <=> t \in loc2,
           \A u \in Task \ {t} : in_cs'[u] = in_cs[u],
           owner' \in [Res -> Task \cup {Null}], \A r \in Res : IsGlobal[r] => owner'[r] = owner[r],
           SchedMove(c),
           sch'.prio[t] \in 1 .. PrioMax, sch'.lock[t] = IF t \in loc2 THEN 1 ELSE 0,
           t \notin up2 => sch'.prio[t] = BasePrio[t],
           \A u \in Task \ {t} : sch'.prio[u] = sch.prio[u] /\ sch'.lock[u] = sch.lock[u]
    PROVE  IInv(Loc, Up)'
<1>1. CoreMove(t, loc2, up2)
    BY LocalCoreMove
<1>2. LinkInv(sch, loc2, up2)'
    BY LocalLink
<1>3. IInv(loc2, up2)'
    BY <1>1, <1>2, TaskMove DEF Executes
<1> QED
    BY <1>3, Renamed

\* The statement t executes next decides whether t is in the sets.
LEMMA SetsOf ==
    ASSUME LocalTypeOK, NEW t \in Task, NEW label \in LocalLabel, lpc' = [lpc EXCEPT ![t] = label],
           NEW loc, NEW up, NEW loc2, NEW up2, loc = Loc, up = Up, loc2 = Loc', up2 = Up'
    PROVE  /\ SetsMove(t, loc, up, loc2, up2)
           /\ t \in loc2 <=> label = "cs"
           /\ t \in up2 <=> label \in RaisedLabel
           /\ lpc' \in [Task -> LocalLabel]
           /\ lpc'[t] = label /\ \A u \in Task \ {t} : lpc'[u] = lpc[u]
<1>1. /\ lpc' \in [Task -> LocalLabel]
      /\ lpc'[t] = label /\ \A u \in Task \ {t} : lpc'[u] = lpc[u]
    BY DEF LocalTypeOK
<1> QED
    BY <1>1 DEF SetsMove, Loc, Up

\* What the invariant says of a task in a local call.
LEMMA CallFacts ==
    ASSUME LInv, NEW t \in Task
    PROVE  /\ LocalTypeOK /\ CallInv /\ CoreTypeOK /\ StateOK(sch)
           /\ in_cs \in [Task -> BOOLEAN] /\ owner \in [Res -> Task \cup {Null}]
           /\ sch.prio \in [Task -> Nat] /\ sch.lock \in [Task -> {0, 1}]
           /\ sch.prio[t] \in 1 .. PrioMax
           /\ lpc[t] # "none" => /\ pc[t] = "idle" /\ saved_prio[t] = BasePrio[t]
                                 /\ lres[t] \in Res /\ ~IsGlobal[lres[t]]
           /\ pc[t] = "idle" => /\ in_cs[t] <=> lpc[t] = "cs"
                                /\ sch.lock[t] = IF lpc[t] = "cs" THEN 1 ELSE 0
                                /\ lpc[t] \notin RaisedLabel => sch.prio[t] = BasePrio[t]
           /\ BasePrio[t] \in 1 .. PrioMax
<1>1. IInv(Loc, Up) /\ LocalTypeOK /\ CallInv
    BY DEF LInv
<1>2. CoreTypeOK /\ FieldInv(Loc, Up) /\ LinkInv(sch, Loc, Up) /\ StateOK(sch)
    BY <1>1 DEF IInv
<1>3. in_cs \in [Task -> BOOLEAN] /\ owner \in [Res -> Task \cup {Null}]
    BY <1>2 DEF CoreTypeOK
<1>4. sch.prio \in [Task -> Nat] /\ sch.lock \in [Task -> {0, 1}] /\ sch.prio[t] \in 1 .. PrioMax
    BY <1>2, StateFields DEF LinkInv
<1>5. lpc[t] # "none" => /\ pc[t] = "idle" /\ saved_prio[t] = BasePrio[t]
                         /\ lres[t] \in Res /\ ~IsGlobal[lres[t]]
    BY <1>1 DEF CallInv
<1>6. (t \in Loc <=> lpc[t] = "cs") /\ (t \in Up <=> lpc[t] \in RaisedLabel)
    BY DEF Loc, Up
<1>7. in_cs[t] <=> pc[t] \in {"cs", "exit"} \/ t \in Loc
    BY <1>2 DEF FieldInv
<1>8. /\ sch.lock[t] = IF pc[t] \in {"cs", "exit"} \/ t \in Loc THEN 1 ELSE 0
      /\ t \notin Up /\ pc[t] = "idle" => sch.prio[t] = BasePrio[t]
    BY <1>2 DEF LinkInv
<1>9. BasePrio[t] \in 1 .. PrioMax
    BY CoreAssumption
<1> QED
    BY <1>1, <1>2, <1>3, <1>4, <1>5, <1>6, <1>7, <1>8, <1>9

\* The priority of the raise is at least the ceiling.
LEMMA EffectiveType ==
    ASSUME LInv, NEW t \in Task, lpc[t] # "none"
    PROVE  /\ Effective(t) \in 1 .. PrioMax
           /\ Effective(t) >= Ceiling[lres[t]] /\ Effective(t) >= sch.prio[t]
<1> DEFINE S == {sch.prio[t], Ceiling[lres[t]]}
<1>1. sch.prio[t] \in 1 .. PrioMax /\ Ceiling[lres[t]] \in 1 .. PrioMax
    BY CallFacts, LocalAssumption
<1>2. PrioMax \in Nat /\ S \in SUBSET (0 .. PrioMax) /\ S # {}
    BY <1>1 DEF PrioMax
<1>3. Max(S) \in S /\ \A y \in S : y <= Max(S)
    BY <1>2, GreatestNatural
<1>4. Effective(t) = Max(S)
    BY DEF Effective
<1> HIDE DEF S
<1>5. Effective(t) \in S /\ \A y \in S : Effective(t) >= y
    <2>1. \A y \in S : y \in Nat
        BY <1>2 DEF PrioMax
    <2> QED
        BY <1>3, <1>4, <2>1
<1> QED
    BY <1>1, <1>5 DEF S

LEMMA LocalStepOK ==
    ASSUME LInv, NEW c \in Cpu, NEW t \in Task, LocalStep(c, t)
    PROVE  LInv'
<1>l. PICK loc : loc = Loc
    OBVIOUS
<1>u. PICK up : up = Up
    OBVIOUS
<1>m. PICK loc2 : loc2 = Loc'
    OBVIOUS
<1>v. PICK up2 : up2 = Up'
    OBVIOUS
<1>0. /\ IInv(loc, up) /\ LocalTypeOK /\ CallInv
      /\ CoreTypeOK /\ StateOK(sch)
      /\ in_cs \in [Task -> BOOLEAN] /\ owner \in [Res -> Task \cup {Null}]
      /\ sch.prio \in [Task -> Nat] /\ sch.lock \in [Task -> {0, 1}]
      /\ sch.prio[t] \in 1 .. PrioMax /\ BasePrio[t] \in 1 .. PrioMax
    BY <1>l, <1>u, CallFacts DEF LInv
\* The invariant of the local call, for a step that keeps r and the saved priority.
<1>k. ASSUME pc' = pc, lres' = lres, saved_prio' = saved_prio, lpc[t] # "none",
             NEW label \in LocalLabel, lpc' = [lpc EXCEPT ![t] = label]
      PROVE  LocalTypeOK' /\ CallInv'
    <2>1. lpc' \in [Task -> LocalLabel] /\ lpc'[t] = label /\ \A u \in Task \ {t} : lpc'[u] = lpc[u]
        BY <1>0, <1>k DEF LocalTypeOK
    <2>2. LocalTypeOK'
        BY <1>0, <1>k, <2>1 DEF LocalTypeOK
    <2>3. CallInv'
        BY <1>0, <1>k, <2>1 DEF CallInv
    <2> QED
        BY <2>2, <2>3
<1>1. ASSUME NEW r \in LocalRes[t], LocalReject(c, t, r)
      PROVE  LInv'
    <2>1. UNCHANGED vars /\ UNCHANGED <<lpc, lres, saved_prio>>
        BY <1>1 DEF LocalReject
    <2>2. IInv(loc, up)' /\ Loc' = loc /\ Up' = up
        BY <1>0, <1>l, <1>u, <2>1, Stuttering DEF Loc, Up
    <2>3. IInv(Loc, Up)'
        BY <2>2, Renamed
    <2>4. LocalTypeOK' /\ CallInv'
        BY <1>0, <2>1 DEF LocalTypeOK, CallInv, vars
    <2> QED
        BY <2>3, <2>4 DEF LInv
<1>2. ASSUME NEW r \in LocalRes[t], LocalLock(c, t, r)
      PROVE  LInv'
    <2>1. /\ UNCHANGED vars /\ lpc[t] = "none" /\ pc[t] = "idle" /\ ~IsGlobal[r]
          /\ lres' = [lres EXCEPT ![t] = r] /\ saved_prio' = [saved_prio EXCEPT ![t] = sch.prio[t]]
          /\ lpc' = [lpc EXCEPT ![t] = "raise"] /\ pc' = pc
        BY <1>2 DEF LocalLock, Outside, At, vars
    <2>2. r \in Res /\ "raise" \in LocalLabel
        BY LocalAssumption DEF LocalLabel
    <2>3. sch.prio[t] = BasePrio[t] /\ sch.prio[t] \in 0 .. PrioMax
        BY <1>0, <2>1, CallFacts DEF RaisedLabel, PrioMax
    <2>4. /\ lpc' \in [Task -> LocalLabel] /\ lres' \in [Task -> Res \cup {Null}]
          /\ saved_prio' \in [Task -> 0 .. PrioMax]
        BY <1>0, <2>1, <2>2, <2>3 DEF LocalTypeOK
    <2>5. /\ lpc'[t] = "raise" /\ lres'[t] = r /\ saved_prio'[t] = BasePrio[t]
          /\ \A u \in Task \ {t} : lpc'[u] = lpc[u] /\ lres'[u] = lres[u] /\ saved_prio'[u] = saved_prio[u]
        BY <1>0, <2>1, <2>3 DEF LocalTypeOK
    <2>6. CallInv'
        BY <1>0, <2>1, <2>2, <2>5 DEF CallInv
    <2>7. Loc' = loc /\ Up' = up
        BY <1>l, <1>u, <2>1, <2>5 DEF Loc, Up, RaisedLabel
    <2>8. IInv(loc, up)'
        BY <1>0, <2>1, Stuttering
    <2>9. IInv(Loc, Up)'
        BY <2>7, <2>8, Renamed
    <2> QED
        BY <2>4, <2>6, <2>9 DEF LInv, LocalTypeOK
\* frap_set_prio() on the caller, in a local call.
<1>3. ASSUME NEW p \in 1 .. PrioMax, Executes(c, t), Calls(c, SetPriority(sch, c, t, p)),
             UNCHANGED coreVars, pc[t] = "idle", lpc[t] # "cs",
             SetsMove(t, loc, up, loc2, up2), t \notin loc2, t \notin up2 => p = BasePrio[t]
      PROVE  IInv(Loc, Up)'
    <2> DEFINE after == SetPriority(sch, c, t, p)
    <2>1. p \in Nat
        BY DEF PrioMax
    <2>2. Effect(sch, after, c) /\ after.lock = sch.lock /\ after.prio = [sch.prio EXCEPT ![t] = p]
        BY <1>0, <2>1, SetPriorityEffect
    <2> HIDE DEF after
    <2>3. SchedMove(c) /\ sch'.prio = after.prio /\ sch'.lock = after.lock
        BY <1>0, <1>3, <2>2, CallsMove DEF after
    <2>4. sch.lock[t] = 0 /\ (in_cs[t] <=> FALSE)
        BY <1>3, CallFacts
    <2>5. /\ sch'.prio[t] = p /\ sch'.lock[t] = IF t \in loc2 THEN 1 ELSE 0
          /\ \A u \in Task \ {t} : sch'.prio[u] = sch.prio[u] /\ sch'.lock[u] = sch.lock[u]
        BY <1>0, <1>3, <2>2, <2>3, <2>4
    <2>6. in_cs' = in_cs /\ owner' = owner /\ (in_cs'[t] <=> t \in loc2)
        BY <1>3, <2>4
    <2> QED
        BY <1>0, <1>3, <1>m, <1>v, <2>3, <2>5, <2>6, LocalMove
\* A store to r->owner.
<1>4. ASSUME Executes(c, t), NEW o \in Task \cup {Null}, owner' = [owner EXCEPT ![lres[t]] = o],
             UNCHANGED <<pc, tcbVars, fifo, sch, level, hook, hookres>>,
             lpc[t] \in {"own", "clear"}, SetsMove(t, loc, up, loc2, up2), t \notin loc2, t \in up2
      PROVE  IInv(Loc, Up)'
    <2>1. /\ pc[t] = "idle" /\ lres[t] \in Res /\ ~IsGlobal[lres[t]]
          /\ sch.lock[t] = 0 /\ (in_cs[t] <=> FALSE)
        BY <1>4, CallFacts
    <2>2. owner' \in [Res -> Task \cup {Null}] /\ \A r \in Res : IsGlobal[r] => owner'[r] = owner[r]
        BY <1>0, <1>4, <2>1
    <2>3. SchedMove(c) /\ sch' = sch
        BY <1>0, <1>4, NoMove
    <2>4. in_cs' = in_cs /\ (in_cs'[t] <=> t \in loc2) /\ sch'.lock[t] = IF t \in loc2 THEN 1 ELSE 0
        BY <1>4, <2>1, <2>3
    <2> QED
        BY <1>0, <1>4, <1>m, <1>v, <2>1, <2>2, <2>3, <2>4, LocalMove
<1>5. CASE LocalRaise(c, t)
    <2>1. /\ Executes(c, t) /\ lpc[t] = "raise" /\ lpc' = [lpc EXCEPT ![t] = "own"]
          /\ Calls(c, SetPriority(sch, c, t, Effective(t))) /\ UNCHANGED coreVars
          /\ lres' = lres /\ saved_prio' = saved_prio /\ pc' = pc
        BY <1>5 DEF LocalRaise, At
    <2>2. /\ SetsMove(t, loc, up, loc2, up2) /\ "own" \in LocalLabel
          /\ t \in loc2 <=> "own" = "cs"
          /\ t \in up2 <=> "own" \in RaisedLabel
        <3>1. "own" \in LocalLabel
            BY DEF LocalLabel
        <3> QED
            BY <1>l, <1>u, <1>m, <1>v, <1>0, <2>1, <3>1, SetsOf
    <2>3. Effective(t) \in 1 .. PrioMax /\ pc[t] = "idle"
        BY <2>1, EffectiveType, CallFacts
    <2>4. IInv(Loc, Up)'
        <3>1. t \notin loc2 /\ t \in up2
            BY <2>2 DEF RaisedLabel
        <3> QED
            BY <1>3, <2>1, <2>2, <2>3, <3>1
    <2> QED
        BY <1>k, <2>1, <2>2, <2>4 DEF LInv
<1>6. CASE LocalOwn(c, t)
    <2>1. /\ Executes(c, t) /\ lpc[t] = "own" /\ lpc' = [lpc EXCEPT ![t] = "lock"]
          /\ owner' = [owner EXCEPT ![lres[t]] = t]
          /\ UNCHANGED <<pc, tcbVars, fifo, sch, level, hook, hookres>>
          /\ lres' = lres /\ saved_prio' = saved_prio /\ pc' = pc
        BY <1>6 DEF LocalOwn, At
    <2>2. /\ SetsMove(t, loc, up, loc2, up2) /\ "lock" \in LocalLabel
          /\ t \in loc2 <=> "lock" = "cs"
          /\ t \in up2 <=> "lock" \in RaisedLabel
        <3>1. "lock" \in LocalLabel
            BY DEF LocalLabel
        <3> QED
            BY <1>l, <1>u, <1>m, <1>v, <1>0, <2>1, <3>1, SetsOf
    <2>3. t \notin loc2 /\ t \in up2
        BY <2>2 DEF RaisedLabel
    <2>4. IInv(Loc, Up)'
        BY <1>4, <2>1, <2>2, <2>3
    <2> QED
        BY <1>k, <2>1, <2>2, <2>4 DEF LInv
<1>7. CASE LocalEnter(c, t)
    <2>1. /\ Executes(c, t) /\ lpc[t] = "lock" /\ lpc' = [lpc EXCEPT ![t] = "cs"]
          /\ sch' = [sch EXCEPT !.lock[t] = @ + 1] /\ in_cs' = [in_cs EXCEPT ![t] = TRUE]
          /\ UNCHANGED <<pc, waiting_res, base_prio, spin_prio, cancelled, enqueued, preempt_cnt,
                         owner, fifo, level, hook, hookres>>
          /\ lres' = lres /\ saved_prio' = saved_prio /\ pc' = pc
        BY <1>7 DEF LocalEnter, At
    <2>2. /\ SetsMove(t, loc, up, loc2, up2) /\ "cs" \in LocalLabel
          /\ t \in loc2 <=> "cs" = "cs"
          /\ t \in up2 <=> "cs" \in RaisedLabel
        <3>1. "cs" \in LocalLabel
            BY DEF LocalLabel
        <3> QED
            BY <1>l, <1>u, <1>m, <1>v, <1>0, <2>1, <3>1, SetsOf
    <2>3. pc[t] = "idle" /\ sch.lock[t] = 0 /\ t \in loc2 /\ t \in up2
        BY <2>1, <2>2, CallFacts DEF RaisedLabel
    <2>4. SchedMove(c) /\ sch'.prio = sch.prio /\ sch'.lock = [sch.lock EXCEPT ![t] = 1]
        BY <1>0, <2>1, <2>3, LockMove
    <2>5. /\ sch'.prio[t] \in 1 .. PrioMax /\ sch'.lock[t] = IF t \in loc2 THEN 1 ELSE 0
          /\ \A u \in Task \ {t} : sch'.prio[u] = sch.prio[u] /\ sch'.lock[u] = sch.lock[u]
        BY <1>0, <2>3, <2>4
    <2>6. /\ in_cs' \in [Task -> BOOLEAN] /\ (in_cs'[t] <=> t \in loc2)
          /\ \A u \in Task \ {t} : in_cs'[u] = in_cs[u]
        BY <1>0, <2>1, <2>3
    <2>7. owner' \in [Res -> Task \cup {Null}] /\ \A r \in Res : IsGlobal[r] => owner'[r] = owner[r]
        BY <1>0, <2>1
    <2>8. IInv(Loc, Up)'
        <3>1. /\ Executes(c, t) /\ SetsMove(t, loc, up, loc2, up2) /\ SchedMove(c)
              /\ UNCHANGED <<pc, waiting_res, base_prio, spin_prio, cancelled, enqueued, preempt_cnt, fifo>>
              /\ t \notin up2 => sch'.prio[t] = BasePrio[t]
            BY <2>1, <2>2, <2>3, <2>4
        <3> QED
            BY <1>0, <1>m, <1>v, <2>3, <2>5, <2>6, <2>7, <3>1, LocalMove
    <2> QED
        BY <1>k, <2>1, <2>2, <2>8 DEF LInv
<1>8. CASE LocalLeave(c, t)
    <2> DEFINE after == SchedUnlock(sch, c, t)
    <2>1. /\ Executes(c, t) /\ lpc[t] = "cs" /\ lpc' = [lpc EXCEPT ![t] = "clear"]
          /\ Calls(c, after) /\ in_cs' = [in_cs EXCEPT ![t] = FALSE]
          /\ UNCHANGED <<pc, waiting_res, base_prio, spin_prio, cancelled, enqueued, preempt_cnt,
                         owner, fifo>>
          /\ lres' = lres /\ saved_prio' = saved_prio /\ pc' = pc
        BY <1>8 DEF LocalLeave, At
    <2>2. /\ SetsMove(t, loc, up, loc2, up2) /\ "clear" \in LocalLabel
          /\ t \in loc2 <=> "clear" = "cs"
          /\ t \in up2 <=> "clear" \in RaisedLabel
        <3>1. "clear" \in LocalLabel
            BY DEF LocalLabel
        <3> QED
            BY <1>l, <1>u, <1>m, <1>v, <1>0, <2>1, <3>1, SetsOf
    <2>3. pc[t] = "idle" /\ t \notin loc2 /\ t \in up2 /\ sch.assigned[c] = t
        BY <2>1, <2>2, CallFacts DEF RaisedLabel, Executes
    <2>4. Effect(sch, after, c) /\ after.lock = [sch.lock EXCEPT ![t] = 0] /\ after.prio = sch.prio
        BY <1>0, <2>3, UnlockEffect
    <2> HIDE DEF after
    <2>5. SchedMove(c) /\ sch'.prio = after.prio /\ sch'.lock = after.lock
        BY <1>0, <2>1, <2>4, CallsMove
    <2>6. /\ sch'.prio[t] \in 1 .. PrioMax /\ sch'.lock[t] = IF t \in loc2 THEN 1 ELSE 0
          /\ \A u \in Task \ {t} : sch'.prio[u] = sch.prio[u] /\ sch'.lock[u] = sch.lock[u]
        BY <1>0, <2>3, <2>4, <2>5
    <2>7. /\ in_cs' \in [Task -> BOOLEAN] /\ (in_cs'[t] <=> t \in loc2)
          /\ \A u \in Task \ {t} : in_cs'[u] = in_cs[u]
        BY <1>0, <2>1, <2>3
    <2>8. owner' \in [Res -> Task \cup {Null}] /\ \A r \in Res : IsGlobal[r] => owner'[r] = owner[r]
        BY <1>0, <2>1
    <2>9. IInv(Loc, Up)'
        BY <1>0, <1>m, <1>v, <2>1, <2>2, <2>3, <2>5, <2>6, <2>7, <2>8, LocalMove
    <2> QED
        BY <1>k, <2>1, <2>2, <2>9 DEF LInv
<1>9. CASE LocalClear(c, t)
    <2>1. /\ Executes(c, t) /\ lpc[t] = "clear" /\ lpc' = [lpc EXCEPT ![t] = "restore"]
          /\ owner' = [owner EXCEPT ![lres[t]] = Null]
          /\ UNCHANGED <<pc, tcbVars, fifo, sch, level, hook, hookres>>
          /\ lres' = lres /\ saved_prio' = saved_prio /\ pc' = pc
        BY <1>9 DEF LocalClear, At
    <2>2. /\ SetsMove(t, loc, up, loc2, up2) /\ "restore" \in LocalLabel
          /\ t \in loc2 <=> "restore" = "cs"
          /\ t \in up2 <=> "restore" \in RaisedLabel
        <3>1. "restore" \in LocalLabel
            BY DEF LocalLabel
        <3> QED
            BY <1>l, <1>u, <1>m, <1>v, <1>0, <2>1, <3>1, SetsOf
    <2>3. t \notin loc2 /\ t \in up2
        BY <2>2 DEF RaisedLabel
    <2>4. IInv(Loc, Up)'
        BY <1>4, <2>1, <2>2, <2>3
    <2> QED
        BY <1>k, <2>1, <2>2, <2>4 DEF LInv
<1>10. CASE LocalRestore(c, t)
    <2>1. /\ Executes(c, t) /\ lpc[t] = "restore" /\ lpc' = [lpc EXCEPT ![t] = "reset"]
          /\ Calls(c, SetPriority(sch, c, t, IF saved_prio[t] # 0 THEN saved_prio[t] ELSE sch.prio[t]))
          /\ UNCHANGED coreVars
          /\ lres' = lres /\ saved_prio' = saved_prio /\ pc' = pc
        BY <1>10 DEF LocalRestore, At
    <2>2. /\ SetsMove(t, loc, up, loc2, up2) /\ "reset" \in LocalLabel
          /\ t \in loc2 <=> "reset" = "cs"
          /\ t \in up2 <=> "reset" \in RaisedLabel
        <3>1. "reset" \in LocalLabel
            BY DEF LocalLabel
        <3> QED
            BY <1>l, <1>u, <1>m, <1>v, <1>0, <2>1, <3>1, SetsOf
    <2>3. saved_prio[t] = BasePrio[t] /\ saved_prio[t] # 0 /\ pc[t] = "idle"
        BY <1>0, <2>1, CallFacts DEF PrioMax
    <2>4. Calls(c, SetPriority(sch, c, t, BasePrio[t]))
        BY <2>1, <2>3
    <2>5. IInv(Loc, Up)'
        <3>1. t \notin loc2
            BY <2>2
        <3> QED
            BY <1>0, <1>3, <2>1, <2>2, <2>3, <2>4, <3>1
    <2> QED
        BY <1>k, <2>1, <2>2, <2>5 DEF LInv
<1>11. CASE LocalReset(c, t)
    <2>1. /\ UNCHANGED vars /\ lpc[t] = "reset" /\ lpc' = [lpc EXCEPT ![t] = "none"]
          /\ lres' = [lres EXCEPT ![t] = Null] /\ saved_prio' = [saved_prio EXCEPT ![t] = 0]
          /\ pc' = pc
        BY <1>11 DEF LocalReset, At, vars
    <2>2. /\ lpc' \in [Task -> LocalLabel] /\ lres' \in [Task -> Res \cup {Null}]
          /\ saved_prio' \in [Task -> 0 .. PrioMax]
        BY <1>0, <2>1 DEF LocalTypeOK, LocalLabel, PrioMax
    <2>3. /\ lpc'[t] = "none"
          /\ \A u \in Task \ {t} : lpc'[u] = lpc[u] /\ lres'[u] = lres[u] /\ saved_prio'[u] = saved_prio[u]
        BY <1>0, <2>1 DEF LocalTypeOK
    <2>4. CallInv'
        BY <1>0, <2>1, <2>3 DEF CallInv
    <2>5. Loc' = loc /\ Up' = up
        BY <1>l, <1>u, <2>1, <2>3 DEF Loc, Up, RaisedLabel
    <2>6. IInv(loc, up)'
        BY <1>0, <2>1, Stuttering
    <2>7. IInv(Loc, Up)'
        BY <2>5, <2>6, Renamed
    <2> QED
        BY <2>2, <2>4, <2>7 DEF LInv, LocalTypeOK
<1> QED
    BY <1>1, <1>2, <1>5, <1>6, <1>7, <1>8, <1>9, <1>10, <1>11 DEF LocalStep

\* The program points of the tasks in a local call, when another task or the hook
\* makes a step.
LEMMA OthersStep ==
    ASSUME LInv, UNCHANGED localVars, \A t \in Task : lpc[t] # "none" => pc'[t] = pc[t],
           NEW loc, NEW up, loc = Loc, up = Up, IInv(loc, up)'
    PROVE  LInv'
<1>1. /\ lpc' = lpc /\ lres' = lres /\ saved_prio' = saved_prio
      /\ LocalTypeOK /\ CallInv
    BY DEF localVars, LInv
<1>2. LocalTypeOK' /\ CallInv'
    BY <1>1 DEF LocalTypeOK, CallInv
<1>3. Loc' = loc /\ Up' = up
    BY <1>1 DEF Loc, Up
<1>4. IInv(Loc, Up)'
    BY <1>3, Renamed
<1> QED
    BY <1>2, <1>4 DEF LInv

LEMMA GlobalStepPc ==
    ASSUME LInv, NEW c \in Cpu, NEW t \in Task, GlobalStep(c, t), NEW u \in Task, u # t
    PROVE  pc'[u] = pc[u]
<1>1. pc \in [Task -> Label]
    BY CallFacts DEF CoreTypeOK
<1>2. (\E l : pc' = [pc EXCEPT ![t] = l]) \/ pc' = pc
    BY DEF GlobalStep, Lock, LockEntry, Reject, LockRejected, ProtocolStep, Raise, Raised, Check,
           CheckCancelled, Reraise, Reraised, Enter, TryEnter, Wait, TryWait, Release, ClearOwner,
           Unlock, LeaveNonPreemptive, Restore, Restored, Finish, ForgetResource, Sleep
<1> QED
    BY <1>1, <1>2

LEMMA LInitInv == LInit => LInv
<1> SUFFICES ASSUME LInit
             PROVE  LInv
    OBVIOUS
<1>1. IInv({}, {})
    BY InitInv DEF LInit, SmpInv
<1>2. Loc = {} /\ Up = {}
    BY DEF LInit, Loc, Up, RaisedLabel
<1>3. LocalTypeOK /\ CallInv
    BY DEF LInit, LocalTypeOK, CallInv, LocalLabel, PrioMax
<1> QED
    BY <1>1, <1>2, <1>3 DEF LInv

LEMMA LNextInv == LInv /\ [LNext]_lvars => LInv'
<1> SUFFICES ASSUME LInv, [LNext]_lvars
             PROVE  LInv'
    OBVIOUS
<1>l. PICK loc : loc = Loc
    OBVIOUS
<1>u. PICK up : up = Up
    OBVIOUS
<1>0. IInv(loc, up)
    BY <1>l, <1>u DEF LInv
<1>1. ASSUME NEW c \in Cpu, NEW t \in Task, GlobalStep(c, t)
      PROVE  LInv'
    <2>1. t \notin loc \cup up /\ UNCHANGED localVars
        BY <1>1, <1>l, <1>u DEF GlobalStep, Loc, Up, RaisedLabel
    <2>2. IInv(loc, up)'
        BY <1>0, <1>1, <2>1, LockStep, ProtocolStepOK, SleepStep DEF GlobalStep
    <2>3. \A u \in Task : lpc[u] # "none" => pc'[u] = pc[u]
        BY <1>1, GlobalStepPc DEF GlobalStep
    <2> QED
        BY <1>l, <1>u, <2>1, <2>2, <2>3, OthersStep
<1>2. ASSUME NEW c \in Cpu, NEW t \in Task, Leave(c, t), UNCHANGED localVars
      PROVE  LInv'
    <2>1. pc' = pc
        BY <1>2 DEF Leave
    <2> QED
        BY <1>0, <1>2, <1>l, <1>u, <2>1, LeaveStep, OthersStep
<1>3. ASSUME NEW c \in Cpu, HookTest(c) \/ HookRead(c) \/ HookCancel(c) \/ HookLower(c),
             UNCHANGED localVars
      PROVE  LInv'
    <2>1. pc' = pc
        BY <1>3 DEF HookTest, HookRead, HookCancel, HookLower, CancelSpin
    <2> QED
        BY <1>0, <1>3, <1>l, <1>u, <2>1, HookStep, OthersStep
<1>4. ASSUME NEW c \in Cpu, LInterrupt(c)
      PROVE  LInv'
    <2>1. IInv(loc, up)' /\ pc' = pc /\ UNCHANGED localVars
        BY <1>0, <1>4, DeliveryStep, WakeStep DEF LInterrupt, HandleDelivery, Wake, Interrupts
    <2> QED
        BY <1>l, <1>u, <2>1, OthersStep
<1>5. ASSUME UNCHANGED lvars
      PROVE  LInv'
    <2>1. UNCHANGED vars /\ UNCHANGED localVars /\ pc' = pc
        BY <1>5 DEF lvars, vars
    <2> QED
        BY <1>0, <1>l, <1>u, <2>1, Stuttering, OthersStep
<1> QED
    BY <1>1, <1>2, <1>3, <1>4, <1>5, LocalStepOK DEF LNext, LRun

THEOREM LInvHolds == LSpec => []LInv
BY LInitInv, LNextInv, PTL DEF LSpec

(* Type correctness of the local calls: no call sees a saved priority out of
   range, and sched_lock() does not nest although both protocols use it. *)
THEOREM LocalTypeCorrect == LSpec => []LTypeOK
<1>1. LInv => LTypeOK
    <2> SUFFICES ASSUME LInv
                 PROVE  LTypeOK
        OBVIOUS
    <2>1. PICK loc, up : loc = Loc /\ up = Up
        OBVIOUS
    <2>2. TypeOK
        BY <2>1, InvTyped DEF LInv
    <2> QED
        BY <2>2 DEF LInv, LocalTypeOK, LTypeOK
<1> QED
    BY <1>1, LInvHolds, PTL

(* Between sched_lock() and sched_unlock() of the local calls a task has a CPU
   that executes it, for every affinity and whatever its priority is. *)
THEOREM LocalNonPreemptiveHolds == LSpec => []LocalNonPreemptive
<1>1. LInv => LocalNonPreemptive
    <2> SUFFICES ASSUME LInv, NEW t \in Task, lpc[t] = "cs"
                 PROVE  \E c \in Cpu : Executes(c, t)
        BY DEF LocalNonPreemptive
    <2>1. PICK loc, up : loc = Loc /\ up = Up
        OBVIOUS
    <2>2. sch.lock[t] > 0
        BY CallFacts
    <2> QED
        BY <2>1, <2>2, LockedExecutes DEF LInv
<1> QED
    BY <1>1, LInvHolds, PTL

(* A task outside both protocols has the priority it was created with, although
   frap_base_prio, frap_saved_prio and the hook all keep or set one. *)
THEOREM LocalPriorityRestoredHolds == LSpec => []LocalPriorityRestored
<1>1. LInv => LocalPriorityRestored
    BY CallFacts DEF LocalPriorityRestored, RaisedLabel
<1> QED
    BY <1>1, LInvHolds, PTL

-----------------------------------------------------------------------------
(* The ceiling, with pinned tasks.  A raised task that has lost its CPU lost it
   to a task at or above its own priority, and stays covered by it: whoever
   leaves the CPU or lowers its priority there looks at the ready list at once,
   because with pinned tasks no CPU ever has a note to do so later. *)
NoEqual(s) == \A d \in Cpu : s.deliver[d] # "equal"
Allowed(s, u) == \A d \in Cpu : s.assigned[d] = u => d \in s.aff[u]
CoveredOn(s, d, u) == s.state[u] = "ready" /\ s.aff[u] = {d} => s.prio[u] <= PrioOn(s, d)
Covered(s, u) == Allowed(s, u) /\ \A d \in Cpu : CoveredOn(s, d, u)

\* A call that keeps the tasks in set covered.
Covers(s, s2, set) == NoEqual(s2) /\ \A u \in set : Covered(s, u) => Covered(s2, u)

\* A call on c changes nothing for the other CPUs.
LEMMA OthersCovered ==
    ASSUME NEW s \in SchedState, Placed(s), NEW s2, NEW c \in Cpu, NEW u \in Task,
           Reschedules(s, s2, c), SameTasks(s, s2), Allowed(s, u),
           \A d \in Cpu \ {c} : CoveredOn(s, d, u)
    PROVE  Allowed(s2, u) /\ \A d \in Cpu \ {c} : CoveredOn(s2, d, u)
<1>1. /\ s2 \in SchedState /\ Placed(s2)
      /\ \A d \in Cpu \ {c} : s2.assigned[d] = s.assigned[d]
      /\ s2.assigned[c] # s.assigned[c] => c \in s2.aff[s2.assigned[c]]
      /\ s2.prio = s.prio /\ s2.aff = s.aff
      /\ s2.state[u] = "blocked" <=> s.state[u] = "blocked"
    BY DEF Reschedules, SameTasks
<1>2. Allowed(s2, u)
    BY <1>1 DEF Allowed
<1>3. ASSUME NEW d \in Cpu \ {c}, s2.state[u] = "ready", s2.aff[u] = {d}
      PROVE  s2.prio[u] <= PrioOn(s2, d)
    <2>1. PrioOn(s2, d) = PrioOn(s, d)
        BY <1>1 DEF PrioOn
    <2>2. s.state[u] = "ready"
        <3> SUFFICES ASSUME s.state[u] # "ready"
                     PROVE  FALSE
            OBVIOUS
        <3>1. s.state[u] = "running" /\ s.cpu[u] \in Cpu
            BY <1>1, <1>3 DEF SchedState
        <3>2. s.assigned[s.cpu[u]] = u
            BY <3>1 DEF Placed, Linked
        <3>3. s.cpu[u] = d
            BY <1>1, <1>3, <3>1, <3>2 DEF Allowed
        <3>4. s2.assigned[d] = u
            BY <1>1, <3>2, <3>3
        <3> QED
            BY <1>1, <1>3, <3>4 DEF Placed, Linked
    <2> QED
        BY <1>1, <1>3, <2>1, <2>2 DEF CoveredOn
<1> QED
    BY <1>2, <1>3 DEF CoveredOn

LEMMA SwitchRunningCovers ==
    ASSUME NEW s \in SchedState, Placed(s), NEW c \in Cpu, NEW equal \in BOOLEAN, NEW u \in Task,
           Allowed(s, u), \A d \in Cpu \ {c} : CoveredOn(s, d, u),
           CoveredOn(s, c, u) \/ ~Locked(s, c)
    PROVE  Covered(SwitchRunning(s, c, equal), u)
<1> DEFINE s2 == SwitchRunning(s, c, equal)
<1>1. Reschedules(s, s2, c) /\ SameTasks(s, s2)
    BY SwitchRunningStep
<1>2. \/ Locked(s, c) /\ s2 = s
      \/ \A v \in Task : s2.state[v] = "ready" /\ c \in s2.aff[v] => s2.prio[v] <= PrioOn(s2, c)
    BY SwitchRunningServes
<1> HIDE DEF s2
<1>3. CoveredOn(s2, c, u)
    BY <1>2 DEF CoveredOn
<1>4. Allowed(s2, u) /\ \A d \in Cpu \ {c} : CoveredOn(s2, d, u)
    BY <1>1, OthersCovered
<1> QED
    BY <1>3, <1>4 DEF Covered, s2

LEMMA DeliverTaskCovers ==
    ASSUME NEW s \in SchedState, Placed(s), NEW c \in Cpu, NEW target \in Cpu, NEW how \in Deliver,
           how # "equal", NoEqual(s)
    PROVE  Covers(s, DeliverTask(s, c, target, how), Task)
<1>1. CASE s.deliver[target] = how
    BY <1>1 DEF DeliverTask, Covers
<1>2. CASE s.deliver[target] # how /\ c = target
    <2>1. DeliverTask(s, c, target, how) = SwitchRunning(s, c, FALSE)
        BY <1>2 DEF DeliverTask
    <2>2. SwitchRunning(s, c, FALSE).deliver = s.deliver
        BY SwitchRunningStep
    <2>3. \A u \in Task : Covered(s, u) => Covered(SwitchRunning(s, c, FALSE), u)
        BY SwitchRunningCovers DEF Covered
    <2> QED
        BY <2>1, <2>2, <2>3 DEF NoEqual, Covers
<1>3. CASE s.deliver[target] # how /\ c # target
    <2> DEFINE s2 == [s EXCEPT !.deliver[target] = how]
    <2>1. DeliverTask(s, c, target, how) = s2
        BY <1>3 DEF DeliverTask
    <2>2. /\ s2.assigned = s.assigned /\ s2.prio = s.prio /\ s2.aff = s.aff /\ s2.state = s.state
          /\ s2.deliver[target] = how /\ \A d \in Cpu \ {target} : s2.deliver[d] = s.deliver[d]
        BY DEF SchedState
    <2> HIDE DEF s2
    <2>3. \A u \in Task : Covered(s, u) => Covered(s2, u)
        BY <2>2 DEF Covered, Allowed, CoveredOn, PrioOn
    <2>4. NoEqual(s2)
        BY <2>2 DEF NoEqual
    <2> QED
        BY <2>1, <2>3, <2>4 DEF Covers
<1> QED
    BY <1>1, <1>2, <1>3

LEMMA AddReadyToRunCovers ==
    ASSUME NEW s \in SchedState, NEW c \in Cpu, NEW t \in Task, Loose(s, t), NoEqual(s)
    PROVE  Covers(s, AddReadyToRun(s, c, t), Task \ {t})
<1> DEFINE target == SelectCpu(s, s.aff[t])
           added == [AddPrioritized([s EXCEPT !.state[t] = "ready"], t) EXCEPT !.cpu[t] = target]
           s2 == AddReadyToRun(s, c, t)
<1>1. target \in Cpu /\ "higher" \in Deliver
    BY SelectCpuInMask DEF SchedState, Deliver
<1>2. s2 = IF PrioOn(s, target) < s.prio[t] THEN DeliverTask(added, c, target, "higher") ELSE added
    BY DEF AddReadyToRun
<1>3. /\ added.assigned = s.assigned /\ added.prio = s.prio
      /\ added.aff = s.aff /\ added.deliver = s.deliver
      /\ added.state = [s.state EXCEPT ![t] = "ready"]
    BY DEF AddPrioritized, SchedState
<1>4. added \in SchedState /\ Placed(added)
    BY AddedPlaced
<1>5. s.state \in [Task -> {"running", "ready", "blocked"}]
    BY DEF SchedState
<1> HIDE DEF added, s2, target
<1>6. \A u \in Task \ {t} : Covered(s, u) => Covered(added, u)
    BY <1>3, <1>5 DEF Covered, Allowed, CoveredOn, PrioOn
<1>7. NoEqual(added)
    BY <1>3 DEF NoEqual
<1>8. Covers(added, s2, Task)
    BY <1>1, <1>2, <1>4, <1>7, DeliverTaskCovers DEF Covers
<1> QED
    BY <1>6, <1>8 DEF Covers, s2

\* A running task sets its own priority: afterwards every task pinned to its CPU
\* is covered, the task itself included.
LEMMA RunningSetPriorityCovers ==
    ASSUME NEW s \in SchedState, Placed(s), NEW c \in Cpu, NEW t \in Task, NEW p \in Nat,
           s.assigned[c] = t, s.lock[t] = 0, c \in s.aff[t], NoEqual(s)
    PROVE  /\ Covers(s, RunningSetPriority(s, c, t, p), Task)
           /\ Allowed(s, t) => Covered(RunningSetPriority(s, c, t, p), t)
<1> DEFINE s1 == [s EXCEPT !.prio[t] = p]
           s2 == RunningSetPriority(s, c, t, p)
<1>1. s.state[t] = "running" /\ s.cpu[t] = c /\ \A d \in Cpu : s.assigned[d] = t => d = c
    BY DEF Placed, Linked
<1>2. /\ s1 \in SchedState /\ Placed(s1) /\ SameCpus(s, s1)
      /\ s1.prio = [s.prio EXCEPT ![t] = p] /\ s1.aff = s.aff /\ s1.state = s.state
      /\ s1.cpu = s.cpu /\ s1.ready = s.ready /\ s1.deliver = s.deliver
    BY <1>1, PrioChanged
<1>3. s2 = IF s.ready # <<>> /\ p <= s.prio[Head(s.ready)] THEN DeliverTask(s1, c, c, "equal") ELSE s1
    BY <1>1 DEF RunningSetPriority
<1> HIDE DEF s1, s2
<1>4. /\ s1.assigned = s.assigned /\ s1.lock = s.lock /\ s.prio \in [Task -> Nat]
      /\ s.assigned \in [Cpu -> Task \cup {Null}] /\ s.ready \in Seq(Task)
      /\ s1.prio[t] = p /\ \A u \in Task \ {t} : s1.prio[u] = s.prio[u]
    BY <1>2 DEF SameCpus, SchedState
<1>5. PrioOn(s1, c) = p /\ ~Locked(s1, c)
    BY <1>4, SchedAssumption DEF PrioOn, Locked
<1>6. \A d \in Cpu \ {c} : PrioOn(s1, d) = PrioOn(s, d)
    BY <1>1, <1>4 DEF PrioOn
<1>7. ASSUME NEW u \in Task, Allowed(s, u), u # t => Covered(s, u)
      PROVE  Allowed(s1, u) /\ \A d \in Cpu \ {c} : CoveredOn(s1, d, u)
    <2>1. Allowed(s1, u)
        BY <1>2, <1>4, <1>7 DEF Allowed
    <2>2. CASE u = t
        BY <1>1, <1>2, <2>1, <2>2 DEF CoveredOn
    <2>3. CASE u # t
        BY <1>2, <1>4, <1>6, <1>7, <2>1, <2>3 DEF CoveredOn, Covered
    <2> QED
        BY <2>2, <2>3
<1>8. CASE s2 = s1 /\ ~(s.ready # <<>> /\ p <= s.prio[Head(s.ready)])
    <2>1. ASSUME NEW u \in Task, s1.state[u] = "ready"
          PROVE  s1.prio[u] <= p
        <3>1. PICK i \in 1 .. Len(s.ready) : s.ready[i] = u
            BY <1>2, <2>1 DEF Placed, Linked, Occurs
        <3>2. s.ready # <<>> /\ Head(s.ready) = s.ready[1] /\ 1 \in 1 .. Len(s.ready)
            BY <1>4, <3>1
        <3>3. s.ready[1] \in Task /\ s.prio[s.ready[1]] \in Nat /\ s.prio[u] \in Nat
            BY <1>4, <3>2
        <3>4. i = 1 \/ s.prio[s.ready[1]] >= s.prio[s.ready[i]]
            BY <3>1, <3>2 DEF Placed, QueueOK, Descends
        <3>5. s.prio[s.ready[1]] < p
            BY <1>8, <3>2, <3>3
        <3>6. u # t
            BY <1>1, <1>2, <2>1
        <3> QED
            BY <1>4, <3>1, <3>3, <3>4, <3>5, <3>6
    <2>2. \A u \in Task : CoveredOn(s1, c, u)
        BY <1>5, <2>1 DEF CoveredOn
    <2>3. ASSUME NEW u \in Task, Allowed(s, u), u # t => Covered(s, u)
          PROVE  Covered(s2, u)
        BY <1>7, <1>8, <2>2, <2>3 DEF Covered
    <2>4. NoEqual(s2)
        BY <1>2, <1>8 DEF NoEqual
    <2> QED
        BY <2>3, <2>4 DEF Covers, Covered, s2
<1>9. CASE s2 = DeliverTask(s1, c, c, "equal")
    <2>1. s2 = SwitchRunning(s1, c, TRUE)
        BY <1>2, <1>9 DEF DeliverTask, NoEqual
    <2>2. s2.deliver = s.deliver
        BY <1>2, <2>1, SwitchRunningStep
    <2>3. ASSUME NEW u \in Task, Allowed(s, u), u # t => Covered(s, u)
          PROVE  Covered(s2, u)
        <3>1. Allowed(s1, u) /\ \A d \in Cpu \ {c} : CoveredOn(s1, d, u)
            BY <1>7, <2>3
        <3> QED
            BY <1>2, <1>5, <2>1, <3>1, SwitchRunningCovers
    <2> QED
        BY <2>2, <2>3 DEF Covers, Covered, NoEqual, s2
<1> QED
    BY <1>3, <1>8, <1>9

\* nxsched_set_priority() of a pinned task, called on its CPU.
LEMMA SetPriorityCovers ==
    ASSUME NEW s \in SchedState, Placed(s), NEW c \in Cpu, NEW t \in Task, NEW p \in Nat,
           NoEqual(s), s.aff[t] = {c}, Allowed(s, t), s.lock[t] = 0
    PROVE  /\ Covers(s, SetPriority(s, c, t, p), Task \ {t})
           /\ s.state[t] = "running" => Covered(SetPriority(s, c, t, p), t)
<1>1. CASE s.state[t] = "running"
    <2>1. s.cpu[t] \in Cpu /\ s.assigned[s.cpu[t]] = t
        BY <1>1 DEF SchedState, Placed, Linked
    <2>2. s.assigned[c] = t
        BY <2>1 DEF Allowed
    <2>3. /\ Covers(s, RunningSetPriority(s, c, t, p), Task)
          /\ Covered(RunningSetPriority(s, c, t, p), t)
        BY <2>2, RunningSetPriorityCovers
    <2>4. SetPriority(s, c, t, p) = RunningSetPriority(s, c, t, p)
        BY <1>1 DEF SetPriority
    <2> QED
        BY <2>3, <2>4 DEF Covers
<1>2. CASE s.state[t] = "ready"
    <2> DEFINE s1 == [s EXCEPT !.ready = RemoveFirst(@, t), !.prio[t] = p]
               s2 == SetPriority(s, c, t, p)
    <2>1. /\ s1 \in SchedState /\ Loose(s1, t) /\ SameCpus(s, s1)
          /\ s1.prio = [s.prio EXCEPT ![t] = p] /\ s1.aff = s.aff /\ s1.state = s.state
          /\ s1.cpu = s.cpu /\ s1.deliver = s.deliver
        BY <1>2, TakenOut
    <2>2. s2 = AddReadyToRun(s1, c, t)
        BY <1>2 DEF SetPriority, ReadyToRunSetPriority
    <2> HIDE DEF s1, s2
    <2>3. NoEqual(s1)
        BY <2>1 DEF NoEqual
    <2>4. Covers(s1, s2, Task \ {t})
        BY <2>1, <2>2, <2>3, AddReadyToRunCovers
    <2>5. \A d \in Cpu : s.assigned[d] # t
        BY <1>2 DEF Placed, Linked
    <2>6. s1.assigned = s.assigned /\ \A u \in Task \ {t} : s1.prio[u] = s.prio[u]
        BY <2>1 DEF SameCpus, SchedState
    <2>7. \A d \in Cpu : PrioOn(s1, d) = PrioOn(s, d)
        BY <2>5, <2>6 DEF PrioOn, SchedState
    <2>8. \A u \in Task \ {t} : Covered(s, u) => Covered(s1, u)
        BY <2>1, <2>6, <2>7 DEF Covered, Allowed, CoveredOn
    <2> QED
        BY <1>2, <2>4, <2>8 DEF Covers, s2
<1>3. CASE s.state[t] \notin {"running", "ready"}
    <2> DEFINE s1 == [s EXCEPT !.prio[t] = p]
    <2>1. SetPriority(s, c, t, p) = s1
        BY <1>3 DEF SetPriority
    <2>2. /\ s1 \in SchedState /\ Placed(s1) /\ SameCpus(s, s1)
          /\ s1.prio = [s.prio EXCEPT ![t] = p] /\ s1.aff = s.aff /\ s1.state = s.state
          /\ s1.deliver = s.deliver
        BY <1>3, PrioChanged
    <2> HIDE DEF s1
    <2>3. \A d \in Cpu : s.assigned[d] # t
        BY <1>3 DEF Placed, Linked
    <2>4. s1.assigned = s.assigned /\ \A u \in Task \ {t} : s1.prio[u] = s.prio[u]
        BY <2>2 DEF SameCpus, SchedState
    <2>5. \A d \in Cpu : PrioOn(s1, d) = PrioOn(s, d)
        BY <2>3, <2>4 DEF PrioOn, SchedState
    <2>6. \A u \in Task \ {t} : Covered(s, u) => Covered(s1, u)
        BY <2>2, <2>4, <2>5 DEF Covered, Allowed, CoveredOn
    <2>7. NoEqual(s1)
        BY <2>2 DEF NoEqual
    <2> QED
        BY <1>3, <2>1, <2>6, <2>7 DEF Covers
<1> QED
    BY <1>1, <1>2, <1>3

LEMMA RemoveSelfCovers ==
    ASSUME NEW s \in SchedState, Placed(s), NEW c \in Cpu, NEW t \in Task, s.assigned[c] = t,
           NoEqual(s)
    PROVE  Covers(s, RemoveSelf(s, c), Task \ {t})
<1> DEFINE s1 == SelfOut(s, c, t)
           s2 == RemoveSelf(s, c)
<1>1. /\ s1 \in SchedState /\ Placed(s1)
      /\ s1.assigned = [s.assigned EXCEPT ![c] = Null]
      /\ s1.state = [s.state EXCEPT ![t] = "blocked"]
      /\ s1.running = s.running /\ s1.lock = s.lock /\ s1.irqlock = s.irqlock
      /\ s1.irqcount = s.irqcount /\ s1.prio = s.prio /\ s1.aff = s.aff
      /\ s1.deliver = s.deliver
    BY SelfRemoved
<1>2. s2 = SwitchRunning(s1, c, FALSE)
    BY DEF RemoveSelf, SelfOut
<1> HIDE DEF s1, s2
<1>3. /\ s.assigned \in [Cpu -> Task \cup {Null}]
      /\ s.state \in [Task -> {"running", "ready", "blocked"}]
    BY DEF SchedState
<1>4. s1.assigned[c] = Null /\ \A d \in Cpu \ {c} : s1.assigned[d] = s.assigned[d]
    BY <1>1, <1>3
<1>5. ~Locked(s1, c)
    BY <1>4 DEF Locked
<1>6. ASSUME NEW u \in Task \ {t}, Covered(s, u)
      PROVE  Covered(s2, u)
    <2>1. Allowed(s1, u)
        BY <1>1, <1>4, <1>6, SchedAssumption DEF Allowed, Covered
    <2>2. \A d \in Cpu \ {c} : CoveredOn(s1, d, u)
        BY <1>1, <1>3, <1>4, <1>6 DEF CoveredOn, Covered, PrioOn
    <2> QED
        BY <1>1, <1>2, <1>5, <1>6, <2>1, <2>2, SwitchRunningCovers
<1>7. s2.deliver = s.deliver
    BY <1>1, <1>2, SwitchRunningStep
<1> QED
    BY <1>6, <1>7 DEF Covers, NoEqual, s2

LEMMA SchedUnlockCovers ==
    ASSUME NEW s \in SchedState, Placed(s), NEW c \in Cpu, NEW t \in Task, NoEqual(s)
    PROVE  Covers(s, SchedUnlock(s, c, t), Task)
<1> DEFINE s1 == [s EXCEPT !.lock[t] = 0]
           s2 == SchedUnlock(s, c, t)
<1>1. /\ s1 \in SchedState /\ Placed(s1)
      /\ s1.lock = [s.lock EXCEPT ![t] = 0]
      /\ s1.assigned = s.assigned /\ s1.running = s.running /\ s1.irqlock = s.irqlock
      /\ s1.irqcount = s.irqcount /\ s1.prio = s.prio /\ s1.aff = s.aff
      /\ s1.deliver = s.deliver /\ s1.state = s.state /\ s1.ready = s.ready
    BY LockChanged
<1>2. (s2 = DeliverTask(s1, c, c, "higher") \/ s2 = s1) /\ "higher" \in Deliver
    BY DEF SchedUnlock, Deliver
<1> HIDE DEF s1, s2
<1>3. NoEqual(s1) /\ \A u \in Task : Covered(s, u) => Covered(s1, u)
    BY <1>1 DEF NoEqual, Covered, Allowed, CoveredOn, PrioOn
<1>4. Covers(s1, s2, Task)
    BY <1>1, <1>2, <1>3, DeliverTaskCovers DEF Covers
<1> QED
    BY <1>3, <1>4 DEF Covers, s2

LEMMA ProcessDeliveredCovers ==
    ASSUME NEW s \in SchedState, Placed(s), NEW c \in Cpu, NoEqual(s)
    PROVE  Covers(s, ProcessDelivered(s, c), Task)
<1> DEFINE s1 == [s EXCEPT !.deliver[c] = "none"]
           s2 == ProcessDelivered(s, c)
           how == s.deliver[c]
<1>1. /\ s1 \in SchedState /\ Placed(s1) /\ SameCpus(s, s1)
      /\ s1.deliver = [s.deliver EXCEPT ![c] = "none"]
      /\ s1.prio = s.prio /\ s1.aff = s.aff /\ s1.state = s.state /\ s1.ready = s.ready
    BY NoteTaken
<1>2. how \in Deliver /\ how # "equal" /\ (how = "equal") = FALSE
    BY DEF SchedState, NoEqual
<1>3. \/ s2 = SwitchRunning(s1, c, how = "equal")
      \/ \E target \in Cpu \ {c} : s2 = DeliverTask(s1, c, target, how)
    BY ProcessDeliveredCases
<1> HIDE DEF s1, s2, how
<1>4. NoEqual(s1) /\ \A u \in Task : Covered(s, u) => Covered(s1, u)
    <2>1. NoEqual(s1)
        BY <1>1 DEF NoEqual, SchedState
    <2>2. s1.assigned = s.assigned
        BY <1>1 DEF SameCpus
    <2> QED
        BY <1>1, <2>1, <2>2 DEF Covered, Allowed, CoveredOn, PrioOn
<1>5. CASE s2 = SwitchRunning(s1, c, how = "equal")
    <2>1. s2 = SwitchRunning(s1, c, FALSE)
        BY <1>2, <1>5
    <2>2. s2.deliver = s1.deliver
        BY <1>1, <2>1, SwitchRunningStep
    <2>3. \A u \in Task : Covered(s1, u) => Covered(s2, u)
        BY <1>1, <2>1, SwitchRunningCovers DEF Covered
    <2> QED
        BY <1>4, <2>2, <2>3 DEF Covers, NoEqual, s2
<1>6. CASE \E target \in Cpu \ {c} : s2 = DeliverTask(s1, c, target, how)
    <2>1. Covers(s1, s2, Task)
        BY <1>1, <1>2, <1>4, <1>6, DeliverTaskCovers
    <2> QED
        BY <1>4, <2>1 DEF Covers, s2
<1> QED
    BY <1>3, <1>5, <1>6

-----------------------------------------------------------------------------
(* The steps keep the raised tasks covered. *)
CeilInv ==
    /\ NoEqual(sch)
    /\ \A t \in Up : /\ sch.prio[t] >= Ceiling[lres[t]] /\ sch.state[t] # "blocked"
                     /\ Covered(sch, t)

\* The fields that the invariant speaks of.
SameFields(s, s2) ==
    /\ s2.assigned = s.assigned /\ s2.state = s.state /\ s2.prio = s.prio
    /\ s2.aff = s.aff /\ s2.deliver = s.deliver

\* What a call made for t does to the other tasks.
Spares(s, s2, t) ==
    /\ Covers(s, s2, Task \ {t})
    /\ \A u \in Task \ {t} : /\ s2.prio[u] = s.prio[u]
                             /\ s.state[u] # "blocked" => s2.state[u] # "blocked"

LEMMA CeilKept ==
    ASSUME CeilInv, NEW after, NEW t, SameFields(after, sch'), Spares(sch, after, t),
           \A u \in Task \ {t} : lpc'[u] = lpc[u] /\ lres'[u] = lres[u],
           t \in Task /\ lpc'[t] \in RaisedLabel =>
              Covered(after, t) /\ after.prio[t] >= Ceiling[lres'[t]] /\ after.state[t] # "blocked"
    PROVE  CeilInv'
<1>1. \A u \in Task : Covered(after, u) => Covered(sch', u)
    BY DEF SameFields, Covered, Allowed, CoveredOn, PrioOn
<1>2. NoEqual(sch')
    BY DEF SameFields, Spares, Covers, NoEqual
<1>3. ASSUME NEW u \in Task, lpc'[u] \in RaisedLabel
      PROVE  sch'.prio[u] >= Ceiling[lres'[u]] /\ sch'.state[u] # "blocked" /\ Covered(sch', u)
    <2>1. CASE u = t
        BY <1>1, <1>3, <2>1 DEF SameFields
    <2>2. CASE u # t
        <3>1. /\ u \in Up /\ lres'[u] = lres[u]
              /\ sch.prio[u] >= Ceiling[lres[u]] /\ sch.state[u] # "blocked" /\ Covered(sch, u)
            BY <1>3, <2>2 DEF CeilInv, Up
        <3>2. after.prio[u] = sch.prio[u] /\ after.state[u] # "blocked" /\ Covered(after, u)
            BY <2>2, <3>1 DEF Spares, Covers
        <3>3. sch'.prio[u] = sch.prio[u] /\ sch'.state[u] # "blocked"
            BY <3>2 DEF SameFields
        <3> QED
            BY <1>1, <3>1, <3>2, <3>3
    <2> QED
        BY <2>1, <2>2
<1> QED
    BY <1>2, <1>3 DEF CeilInv, Up

LEMMA NothingDisturbed ==
    ASSUME NEW s, NoEqual(s), NEW t
    PROVE  Spares(s, s, t)
BY DEF Spares, Covers

LEMMA SameSchedFields ==
    ASSUME NEW s, NEW s2, SameSched(s, s2)
    PROVE  SameFields(s, s2)
BY DEF SameSched, SameFields

LEMMA CallsFields ==
    ASSUME LInv, NEW c \in Cpu, NEW t \in Task, Executes(c, t), NEW after \in SchedState,
           Calls(c, after)
    PROVE  SameFields(after, sch')
<1>1. sch' = TaskCall(sch, c, after) /\ sch.assigned[c] \in Task /\ sch \in SchedState
    BY CallFacts, StateFields DEF Calls, Executes
<1>2. SameSched(after, sch')
    BY <1>1, TaskCallFields
<1> QED
    BY <1>2, SameSchedFields

LEMMA InterruptsFields ==
    ASSUME NEW c \in Cpu, NEW after \in SchedState, Interrupts(c, after)
    PROVE  SameFields(after, sch')
<1>1. sch' = IrqCall(after, c)
    BY DEF Interrupts
<1>2. SameSched(after, sch')
    BY <1>1, IrqCallFields
<1> QED
    BY <1>2, SameSchedFields

LEMMA EndSwitchSame ==
    ASSUME NEW c \in Cpu, NEW s \in SchedState, EndSwitch(c, s)
    PROVE  SameFields(s, sch')
<1>1. CASE level[c] = "svc"
    BY <1>1, EndSyscallFields, SameSchedFields DEF EndSwitch
<1>2. CASE level[c] # "svc"
    BY <1>2, EndInterruptFields, SameSchedFields DEF EndSwitch
<1> QED
    BY <1>1, <1>2

\* The task of a CPU is pinned to it.
LEMMA PinnedHere ==
    ASSUME Pinned, NEW s, StateOK(s), NEW c \in Cpu, NEW t \in Task, c \in Affinity[t]
    PROVE  s \in SchedState /\ Placed(s) /\ s.aff[t] = {c} /\ Allowed(s, t)
<1>1. s \in SchedState /\ Placed(s) /\ s.aff = Affinity
    BY DEF StateOK
<1>2. Affinity[t] = {c}
    BY DEF Pinned
<1>3. Allowed(s, t)
    BY <1>1, SchedAssumption DEF Allowed, StateOK
<1> QED
    BY <1>1, <1>2, <1>3

LEMMA SetPrioritySpares ==
    ASSUME Pinned, NEW s, StateOK(s), NoEqual(s), NEW c \in Cpu, NEW t \in Task, NEW p \in Nat,
           c \in Affinity[t], s.lock[t] = 0
    PROVE  LET after == SetPriority(s, c, t, p) IN
           /\ after \in SchedState /\ Spares(s, after, t) /\ after.prio[t] = p
           /\ s.state[t] = "running" => Covered(after, t) /\ after.state[t] # "blocked"
<1> DEFINE after == SetPriority(s, c, t, p)
<1>1. s \in SchedState /\ Placed(s) /\ s.aff[t] = {c} /\ Allowed(s, t)
    BY PinnedHere
<1>2. /\ Covers(s, after, Task \ {t})
      /\ s.state[t] = "running" => Covered(after, t)
    BY <1>1, SetPriorityCovers
<1>3. SetsPriority(s, after, c, t, p)
    BY <1>1, SetPriorityStep
<1> HIDE DEF after
<1>4. /\ after \in SchedState /\ after.prio = [s.prio EXCEPT ![t] = p]
      /\ \A u \in Task : after.state[u] = "blocked" <=> s.state[u] = "blocked"
    BY <1>3 DEF SetsPriority, Reschedules
<1>5. after.prio[t] = p /\ \A u \in Task \ {t} : after.prio[u] = s.prio[u]
    BY <1>1, <1>4 DEF SchedState
<1> QED
    BY <1>2, <1>4, <1>5 DEF Spares, after

LEMMA UnlockSpares ==
    ASSUME NEW s, StateOK(s), NoEqual(s), NEW c \in Cpu, NEW t \in Task, NEW u
    PROVE  LET after == SchedUnlock(s, c, t) IN
           /\ after \in SchedState /\ Spares(s, after, u)
           /\ after.prio = s.prio /\ Covers(s, after, Task)
           /\ \A v \in Task : after.state[v] = "blocked" <=> s.state[v] = "blocked"
<1> DEFINE after == SchedUnlock(s, c, t)
           s1 == [s EXCEPT !.lock[t] = 0]
<1>1. s \in SchedState /\ Placed(s)
    BY StateFields
<1>2. Covers(s, after, Task)
    BY <1>1, SchedUnlockCovers
<1>3. Reschedules(s1, after, c) /\ SameTasks(s1, after)
    BY <1>1, SchedUnlockStep
<1>4. s1.prio = s.prio /\ s1.state = s.state
    BY <1>1, LockChanged
<1> HIDE DEF after, s1
<1>5. /\ after \in SchedState /\ after.prio = s.prio
      /\ \A v \in Task : after.state[v] = "blocked" <=> s.state[v] = "blocked"
    BY <1>3, <1>4 DEF Reschedules, SameTasks
<1> QED
    BY <1>2, <1>5 DEF Spares, Covers, after

\* What the two invariants say of a task that executes.
LEMMA ExecutesFacts ==
    ASSUME LInv, CeilInv, NEW c \in Cpu, NEW t \in Task, Executes(c, t)
    PROVE  /\ LocalTypeOK /\ NoEqual(sch) /\ StateOK(sch) /\ sch \in SchedState /\ Placed(sch)
           /\ sch.assigned[c] = t /\ c \in Affinity[t] /\ sch.state[t] = "running"
           /\ lpc[t] \in RaisedLabel => sch.prio[t] >= Ceiling[lres[t]] /\ Covered(sch, t)
<1>1. LocalTypeOK /\ NoEqual(sch) /\ StateOK(sch) /\ sch \in SchedState /\ Placed(sch)
    BY CallFacts, StateFields DEF CeilInv
<1>2. sch.assigned[c] = t
    BY DEF Executes
<1>3. c \in Affinity[t]
    BY <1>1, <1>2, SchedAssumption DEF StateOK
<1>4. sch.state[t] = "running"
    BY <1>1, <1>2 DEF Placed, Linked
<1>5. lpc[t] \in RaisedLabel => sch.prio[t] >= Ceiling[lres[t]] /\ Covered(sch, t)
    BY DEF CeilInv, Up
<1> QED
    BY <1>1, <1>2, <1>3, <1>4, <1>5

LEMMA CeilLocalStep ==
    ASSUME Pinned, LInv, CeilInv, NEW c \in Cpu, NEW t \in Task, LocalStep(c, t)
    PROVE  CeilInv'
<1>0. Executes(c, t)
    BY DEF LocalStep, LocalLock, LocalReject, Outside, LocalRaise, LocalOwn, LocalEnter, LocalLeave,
           LocalClear, LocalRestore, LocalReset, At
<1>a. /\ LocalTypeOK /\ NoEqual(sch) /\ StateOK(sch) /\ sch \in SchedState /\ Placed(sch)
      /\ sch.assigned[c] = t /\ c \in Affinity[t] /\ sch.state[t] = "running"
      /\ lpc[t] \in RaisedLabel => sch.prio[t] >= Ceiling[lres[t]] /\ Covered(sch, t)
    BY <1>0, ExecutesFacts
<1>b. Spares(sch, sch, t)
    BY <1>a, NothingDisturbed
<1>c. \A label : lpc' = [lpc EXCEPT ![t] = label] =>
          lpc'[t] = label /\ \A u \in Task \ {t} : lpc'[u] = lpc[u]
    BY <1>a DEF LocalTypeOK
\* A statement that does not call the scheduler.
<1>1. ASSUME SameFields(sch, sch'), NEW label, lpc' = [lpc EXCEPT ![t] = label],
             \A u \in Task \ {t} : lres'[u] = lres[u],
             label \in RaisedLabel => lpc[t] \in RaisedLabel /\ lres' = lres
      PROVE  CeilInv'
    <2>1. lpc'[t] = label /\ \A u \in Task \ {t} : lpc'[u] = lpc[u]
        BY <1>1, <1>c
    <2> QED
        BY <1>1, <1>a, <1>b, <2>1, CeilKept
<1>2. ASSUME NEW r, LocalReject(c, t, r)
      PROVE  CeilInv'
    <2>1. sch' = sch /\ lpc' = lpc /\ lres' = lres
        BY <1>2 DEF LocalReject, vars
    <2>2. SameFields(sch, sch')
        BY <2>1 DEF SameFields
    <2> QED
        BY <1>a, <1>b, <2>1, <2>2, CeilKept
<1>3. ASSUME NEW r, LocalLock(c, t, r)
      PROVE  CeilInv'
    <2>1. sch' = sch /\ lpc' = [lpc EXCEPT ![t] = "raise"] /\ lres' = [lres EXCEPT ![t] = r]
        BY <1>3 DEF LocalLock, vars
    <2>2. SameFields(sch, sch') /\ \A u \in Task \ {t} : lres'[u] = lres[u]
        BY <1>a, <2>1 DEF SameFields, LocalTypeOK
    <2>3. "raise" \notin RaisedLabel
        BY DEF RaisedLabel
    <2> QED
        BY <1>1, <2>1, <2>2, <2>3
<1>4. CASE LocalReset(c, t)
    <2>1. sch' = sch /\ lpc' = [lpc EXCEPT ![t] = "none"] /\ lres' = [lres EXCEPT ![t] = Null]
        BY <1>4 DEF LocalReset, vars
    <2>2. SameFields(sch, sch') /\ \A u \in Task \ {t} : lres'[u] = lres[u]
        BY <1>a, <2>1 DEF SameFields, LocalTypeOK
    <2>3. "none" \notin RaisedLabel
        BY DEF RaisedLabel
    <2> QED
        BY <1>1, <2>1, <2>2, <2>3
<1>5. CASE LocalOwn(c, t)
    <2>1. sch' = sch /\ lpc[t] = "own" /\ lpc' = [lpc EXCEPT ![t] = "lock"] /\ lres' = lres
        BY <1>5 DEF LocalOwn, At
    <2>2. SameFields(sch, sch') /\ lpc[t] \in RaisedLabel
        BY <2>1 DEF SameFields, RaisedLabel
    <2> QED
        BY <1>1, <2>1, <2>2
<1>6. CASE LocalClear(c, t)
    <2>1. sch' = sch /\ lpc[t] = "clear" /\ lpc' = [lpc EXCEPT ![t] = "restore"] /\ lres' = lres
        BY <1>6 DEF LocalClear, At
    <2>2. SameFields(sch, sch') /\ lpc[t] \in RaisedLabel
        BY <2>1 DEF SameFields, RaisedLabel
    <2> QED
        BY <1>1, <2>1, <2>2
<1>7. CASE LocalEnter(c, t)
    <2>1. /\ sch' = [sch EXCEPT !.lock[t] = @ + 1]
          /\ lpc[t] = "lock" /\ lpc' = [lpc EXCEPT ![t] = "cs"] /\ lres' = lres
        BY <1>7 DEF LocalEnter, At
    <2>2. SameFields(sch, sch') /\ lpc[t] \in RaisedLabel
        BY <1>a, <2>1 DEF SameFields, RaisedLabel, SchedState
    <2> QED
        BY <1>1, <2>1, <2>2
<1>8. CASE LocalRaise(c, t)
    <2> DEFINE after == SetPriority(sch, c, t, Effective(t))
    <2>1. /\ lpc[t] = "raise" /\ lpc' = [lpc EXCEPT ![t] = "own"] /\ lres' = lres
          /\ Calls(c, after)
        BY <1>8 DEF LocalRaise, At
    <2>a. Effective(t) \in 1 .. PrioMax /\ Effective(t) >= Ceiling[lres[t]]
        BY <2>1, EffectiveType
    <2>b. Effective(t) \in Nat
        BY <2>a DEF PrioMax
    <2>c. pc[t] = "idle"
        BY <2>1, CallFacts
    <2>d. sch.lock[t] = 0
        BY <2>1, <2>c, CallFacts
    <2>2. Effective(t) \in Nat /\ Effective(t) >= Ceiling[lres[t]] /\ sch.lock[t] = 0
        BY <2>a, <2>b, <2>d
    <2>3. /\ after \in SchedState /\ Spares(sch, after, t) /\ after.prio[t] = Effective(t)
          /\ Covered(after, t) /\ after.state[t] # "blocked"
        BY <1>a, <2>2, SetPrioritySpares
    <2> HIDE DEF after
    <2>4. SameFields(after, sch')
        BY <1>0, <2>1, <2>3, CallsFields
    <2> QED
        BY <1>c, <2>1, <2>2, <2>3, <2>4, CeilKept
<1>9. CASE LocalLeave(c, t)
    <2> DEFINE after == SchedUnlock(sch, c, t)
    <2>1. /\ lpc[t] = "cs" /\ lpc' = [lpc EXCEPT ![t] = "clear"] /\ lres' = lres
          /\ Calls(c, after)
        BY <1>9 DEF LocalLeave, At
    <2>2. /\ after \in SchedState /\ Spares(sch, after, t)
          /\ after.prio = sch.prio /\ Covers(sch, after, Task)
          /\ \A v \in Task : after.state[v] = "blocked" <=> sch.state[v] = "blocked"
        BY <1>a, UnlockSpares
    <2> HIDE DEF after
    <2>3. SameFields(after, sch')
        BY <1>0, <2>1, <2>2, CallsFields
    <2>4. Covered(after, t) /\ after.prio[t] >= Ceiling[lres[t]] /\ after.state[t] # "blocked"
        BY <1>a, <2>1, <2>2 DEF Covers, RaisedLabel
    <2> QED
        BY <1>c, <2>1, <2>2, <2>3, <2>4, CeilKept
<1>10. CASE LocalRestore(c, t)
    <2> DEFINE p == IF saved_prio[t] # 0 THEN saved_prio[t] ELSE sch.prio[t]
               after == SetPriority(sch, c, t, p)
    <2>1. /\ lpc[t] = "restore" /\ lpc' = [lpc EXCEPT ![t] = "reset"] /\ lres' = lres
          /\ Calls(c, after)
        BY <1>10 DEF LocalRestore, At
    <2>a. pc[t] = "idle" /\ saved_prio[t] = BasePrio[t] /\ BasePrio[t] \in 1 .. PrioMax
        BY <2>1, CallFacts
    <2>b. p \in Nat
        BY <2>a DEF PrioMax
    <2>c. sch.lock[t] = 0
        BY <2>1, <2>a, CallFacts
    <2>2. p \in Nat /\ sch.lock[t] = 0
        BY <2>b, <2>c
    <2> HIDE DEF p
    <2>3. after \in SchedState /\ Spares(sch, after, t)
        BY <1>a, <2>2, SetPrioritySpares
    <2> HIDE DEF after
    <2>4. SameFields(after, sch')
        BY <1>0, <2>1, <2>3, CallsFields
    <2>d. lpc'[t] = "reset" /\ \A u \in Task \ {t} : lpc'[u] = lpc[u]
        BY <1>c, <2>1
    <2>5. lpc'[t] \notin RaisedLabel /\ \A u \in Task \ {t} : lpc'[u] = lpc[u]
        BY <2>d DEF RaisedLabel
    <2> QED
        BY <2>1, <2>3, <2>4, <2>5, CeilKept
<1> QED
    BY <1>2, <1>3, <1>4, <1>5, <1>6, <1>7, <1>8, <1>9, <1>10 DEF LocalStep

\* A task that is in no local call, or none at all, makes the step.
LEMMA CeilOthers ==
    ASSUME CeilInv, NEW t, t \in Task => lpc[t] = "none", UNCHANGED localVars,
           NEW after, SameFields(after, sch'), Spares(sch, after, t)
    PROVE  CeilInv'
BY CeilKept DEF localVars, RaisedLabel

LEMMA CeilGlobalStep ==
    ASSUME Pinned, LInv, CeilInv, NEW c \in Cpu, NEW t \in Task, GlobalStep(c, t)
    PROVE  CeilInv'
<1>0. Executes(c, t) /\ lpc[t] = "none" /\ UNCHANGED localVars
    BY DEF GlobalStep, Lock, Reject, ProtocolStep, Raise, Check, Reraise, Enter, Wait, Release,
           Unlock, Restore, Finish, Sleep
<1>l. PICK loc, up : loc = Loc /\ up = Up
    OBVIOUS
<1>a. /\ IInv(loc, up)
      /\ NoEqual(sch) /\ StateOK(sch) /\ sch \in SchedState /\ Placed(sch)
      /\ sch.assigned[c] = t /\ c \in Affinity[t] /\ sch.state[t] = "running"
      /\ t \notin loc
    BY <1>0, <1>l, ExecutesFacts DEF LInv, Loc
<1>f. /\ sch.lock[t] = IF pc[t] \in {"cs", "exit"} THEN 1 ELSE 0
      /\ pc[t] # "idle" => spin_prio[t] \in Nat /\ base_prio[t] \in Nat
    BY <1>a, StepFacts
<1>1. ASSUME SameFields(sch, sch')
      PROVE  CeilInv'
    <2>1. Spares(sch, sch, t)
        BY <1>a, NothingDisturbed
    <2> QED
        BY <1>0, <1>1, <2>1, CeilOthers
<1>2. ASSUME NoCall
      PROVE  CeilInv'
    BY <1>1, <1>2 DEF NoCall, SameFields
<1>3. ASSUME NEW p \in Nat, sch.lock[t] = 0, Calls(c, SetPriority(sch, c, t, p))
      PROVE  CeilInv'
    <2> DEFINE after == SetPriority(sch, c, t, p)
    <2>1. after \in SchedState /\ Spares(sch, after, t)
        BY <1>3, <1>a, SetPrioritySpares
    <2> HIDE DEF after
    <2>2. SameFields(after, sch')
        BY <1>0, <1>3, <2>1, CallsFields DEF after
    <2> QED
        BY <1>0, <2>1, <2>2, CeilOthers
<1>4. ASSUME NEW r \in Res, Lock(c, t, r) \/ Reject(c, t, r)
      PROVE  CeilInv'
    BY <1>2, <1>4 DEF Lock, Reject
<1>5. CASE ProtocolStep(c, t)
    <2>1. CASE Raise(c, t)
        <3>1. pc[t] = "raise" /\ Calls(c, SetPriority(sch, c, t, spin_prio[t]))
            BY <2>1 DEF Raise, Raised
        <3>2. sch.lock[t] = 0 /\ spin_prio[t] \in Nat
            BY <1>f, <3>1
        <3> QED
            BY <1>3, <3>1, <3>2
    <2>2. CASE Reraise(c, t)
        <3>1. pc[t] = "reraise" /\ Calls(c, SetPriority(sch, c, t, spin_prio[t]))
            BY <2>2 DEF Reraise, Reraised
        <3>2. sch.lock[t] = 0 /\ spin_prio[t] \in Nat
            BY <1>f, <3>1
        <3> QED
            BY <1>3, <3>1, <3>2
    <2>3. CASE Restore(c, t)
        <3>1. pc[t] = "restore" /\ Calls(c, SetPriority(sch, c, t, base_prio[t]))
            BY <2>3 DEF Restore, Restored
        <3>2. sch.lock[t] = 0 /\ base_prio[t] \in Nat
            BY <1>f, <3>1
        <3> QED
            BY <1>3, <3>1, <3>2
    <2>4. CASE Enter(c, t)
        <3>1. sch' = [sch EXCEPT !.lock[t] = @ + 1]
            BY <2>4 DEF Enter
        <3>2. SameFields(sch, sch')
            BY <1>a, <3>1 DEF SameFields, SchedState
        <3> QED
            BY <1>1, <3>2
    <2>5. CASE Unlock(c, t)
        <3> DEFINE after == SchedUnlock(sch, c, t)
        <3>1. Calls(c, after)
            BY <2>5 DEF Unlock
        <3>2. after \in SchedState /\ Spares(sch, after, t)
            BY <1>a, UnlockSpares
        <3> HIDE DEF after
        <3>3. SameFields(after, sch')
            BY <1>0, <3>1, <3>2, CallsFields
        <3> QED
            BY <1>0, <3>2, <3>3, CeilOthers
    <2>6. CASE Check(c, t) \/ Wait(c, t) \/ Release(c, t) \/ Finish(c, t)
        BY <1>2, <2>6 DEF Check, Wait, Release, Finish
    <2> QED
        BY <1>5, <2>1, <2>2, <2>3, <2>4, <2>5, <2>6 DEF ProtocolStep
<1>6. CASE Sleep(c, t)
    <2> DEFINE after == RemoveSelf(sch, c)
    <2>1. Calls(c, after)
        BY <1>6 DEF Sleep
    <2>2. Covers(sch, after, Task \ {t})
        BY <1>a, RemoveSelfCovers
    <2>3. /\ after \in SchedState /\ after.prio = sch.prio
          /\ \A u \in Task \ {t} : after.state[u] = "blocked" <=> sch.state[u] = "blocked"
        BY <1>a, RemoveSelfStep
    <2> HIDE DEF after
    <2>4. Spares(sch, after, t)
        BY <2>2, <2>3 DEF Spares
    <2>5. SameFields(after, sch')
        BY <1>0, <2>1, <2>3, CallsFields
    <2> QED
        BY <1>0, <2>4, <2>5, CeilOthers
<1> QED
    BY <1>4, <1>5, <1>6 DEF GlobalStep

\* A step that leaves the fields of the invariant alone.
LEMMA CeilStill ==
    ASSUME CeilInv, UNCHANGED localVars, SameFields(sch, sch')
    PROVE  CeilInv'
<1>1. NoEqual(sch) /\ Null \notin Task
    BY SchedAssumption DEF CeilInv
<1>2. Spares(sch, sch, Null)
    BY <1>1, NothingDisturbed
<1> QED
    BY <1>1, <1>2, CeilOthers

LEMMA CeilHook ==
    ASSUME Pinned, LInv, CeilInv, NEW c \in Cpu, UNCHANGED localVars,
           HookTest(c) \/ HookRead(c) \/ HookCancel(c) \/ HookLower(c)
    PROVE  CeilInv'
<1>l. PICK loc, up : loc = Loc /\ up = Up
    OBVIOUS
<1>a. IInv(loc, up) /\ CallInv
    BY <1>l DEF LInv
<1>b. /\ FieldInv(loc, up) /\ LinkInv(sch, loc, up) /\ StateOK(sch) /\ CpuOK(sch, level)
      /\ HookInv /\ PinInv /\ sch \in SchedState
    BY <1>a, StateFields DEF IInv
<1>1. CASE HookTest(c)
    <2>1. sch' = sch \/ EndSwitch(c, sch)
        BY <1>1 DEF HookTest
    <2>2. SameFields(sch, sch')
        BY <1>b, <2>1, EndSwitchSame DEF SameFields
    <2> QED
        BY <2>2, CeilStill
<1>2. CASE HookRead(c) \/ HookCancel(c)
    <2>1. sch' = sch
        BY <1>2 DEF HookRead, HookCancel
    <2>2. SameFields(sch, sch')
        BY <2>1 DEF SameFields
    <2> QED
        BY <2>2, CeilStill
<1>3. CASE HookLower(c)
    <2>1. PICK old : old = sch.running[c]
        OBVIOUS
    <2>2. PICK p : p = base_prio[old]
        OBVIOUS
    <2>3. hook[c] = "lower" /\ EndSwitch(c, IrqCall(SetPriority(sch, c, old, p), c))
        BY <1>3, <2>1, <2>2 DEF HookLower, InHook
    <2>4. old \in Task /\ base_prio[old] = BasePrio[old] /\ pc[old] \in Spinning
        BY <1>b, <2>1, <2>3 DEF HookInv, PinInv
    <2>5. p \in Nat
        BY <2>2, <2>4, CoreAssumption DEF PrioMax
    <2>6. pc[old] # "idle" /\ pc[old] \notin {"cs", "exit"}
        BY <2>4 DEF Spinning
    <2>7. lpc[old] = "none"
        BY <1>a, <2>4, <2>6 DEF CallInv
    <2>8. old \notin loc
        BY <1>l, <2>7 DEF Loc
    <2>9. sch.lock[old] = 0
        BY <1>b, <2>4, <2>6, <2>8 DEF LinkInv
    <2>10. c \in Affinity[old]
        BY <1>b, <2>1, <2>4, SchedAssumption DEF CpuOK
    <2>11. NoEqual(sch)
        BY DEF CeilInv
    <2>12. PICK after : after = SetPriority(sch, c, old, p)
        OBVIOUS
    <2>13. after \in SchedState /\ Spares(sch, after, old)
        BY <1>b, <2>4, <2>5, <2>9, <2>10, <2>11, <2>12, SetPrioritySpares
    <2>14. PICK s : s = IrqCall(after, c)
        OBVIOUS
    <2>15. SameSched(after, s) /\ s \in SchedState
        BY <2>13, <2>14, IrqCallFields DEF SameSched
    <2>16. SameFields(after, s)
        BY <2>15, SameSchedFields
    <2>17. SameFields(s, sch')
        BY <2>3, <2>12, <2>14, <2>15, EndSwitchSame
    <2>18. SameFields(after, sch')
        BY <2>16, <2>17 DEF SameFields
    <2> QED
        BY <2>7, <2>13, <2>18, CeilOthers
<1> QED
    BY <1>1, <1>2, <1>3

LEMMA CeilLeave ==
    ASSUME LInv, CeilInv, NEW c \in Cpu, NEW t \in Task, Leave(c, t), UNCHANGED localVars
    PROVE  CeilInv'
<1>1. sch' = LeaveSection(sch, t) /\ sch \in SchedState
    BY CallFacts, StateFields DEF Leave
<1>2. SameFields(sch, sch')
    BY <1>1 DEF LeaveSection, SameFields, SchedState
<1> QED
    BY <1>2, CeilStill

\* A blocked task is not raised, so waking it disturbs no raised task.
LEMMA CeilInterrupt ==
    ASSUME LInv, CeilInv, NEW c \in Cpu, LInterrupt(c)
    PROVE  CeilInv'
<1>a. UNCHANGED localVars
    BY DEF LInterrupt
<1>b. StateOK(sch) /\ sch \in SchedState /\ Placed(sch) /\ NoEqual(sch)
    BY StateFields DEF LInv, IInv, CeilInv
<1>1. CASE HandleDelivery(c)
    <2>1. PICK after : after = ProcessDelivered(sch, c)
        OBVIOUS
    <2>2. Interrupts(c, after)
        BY <1>1, <2>1 DEF HandleDelivery
    <2>3. Covers(sch, after, Task)
        BY <1>b, <2>1, ProcessDeliveredCovers
    <2>4. Reschedules(sch, after, c) /\ SameTasks(sch, after)
        BY <1>b, <2>1, ProcessDeliveredStep
    <2>5. after \in SchedState /\ Spares(sch, after, Null)
        BY <2>3, <2>4 DEF Reschedules, SameTasks, Spares, Covers
    <2>6. SameFields(after, sch')
        BY <2>2, <2>5, InterruptsFields
    <2>7. Null \notin Task
        BY SchedAssumption
    <2> QED
        BY <1>a, <2>5, <2>6, <2>7, CeilOthers
<1>2. ASSUME NEW t \in Task, Wake(c, t)
      PROVE  CeilInv'
    <2>1. PICK after : after = AddReadyToRun(sch, c, t)
        OBVIOUS
    <2>2. Interrupts(c, after) /\ sch.state[t] = "blocked"
        BY <1>2, <2>1 DEF Wake
    <2>3. Loose(sch, t)
        BY <1>b, <2>2 DEF Placed, Loose, Linked
    <2>4. Covers(sch, after, Task \ {t})
        BY <1>b, <2>1, <2>3, AddReadyToRunCovers
    <2>5. /\ Reschedules(sch, after, c)
          /\ after.prio = sch.prio /\ after.aff = sch.aff
          /\ after.state[t] # "blocked"
          /\ \A u \in Task \ {t} : after.state[u] = "blocked" <=> sch.state[u] = "blocked"
        BY <1>b, <2>1, <2>3, AddReadyToRunStep
    <2>6. after \in SchedState /\ Spares(sch, after, t)
        BY <2>4, <2>5 DEF Reschedules, Spares
    <2>7. SameFields(after, sch')
        BY <2>2, <2>6, InterruptsFields
    <2>8. lpc[t] \notin RaisedLabel
        BY <2>2 DEF CeilInv, Up
    <2>9. lpc' = lpc /\ lres' = lres
        BY <1>a DEF localVars
    <2> QED
        BY <2>6, <2>7, <2>8, <2>9, CeilKept
<1> QED
    BY <1>1, <1>2 DEF LInterrupt

LEMMA CeilNext ==
    ASSUME Pinned, LInv, CeilInv, [LNext]_lvars
    PROVE  CeilInv'
<1>1. ASSUME UNCHANGED lvars
      PROVE  CeilInv'
    <2>1. sch' = sch /\ UNCHANGED localVars
        BY <1>1 DEF lvars, vars
    <2>2. SameFields(sch, sch')
        BY <2>1 DEF SameFields
    <2> QED
        BY <2>1, <2>2, CeilStill
<1>2. ASSUME NEW c \in Cpu, LRun(c)
      PROVE  CeilInv'
    BY <1>2, CeilLocalStep, CeilGlobalStep, CeilLeave, CeilHook DEF LRun
<1>3. ASSUME NEW c \in Cpu, LInterrupt(c)
      PROVE  CeilInv'
    BY <1>3, CeilInterrupt
<1> QED
    BY <1>1, <1>2, <1>3 DEF LNext

LEMMA CeilInit == LInit => CeilInv
<1> SUFFICES ASSUME LInit
             PROVE  CeilInv
    OBVIOUS
<1>1. Up = {}
    BY DEF LInit, Up, RaisedLabel
<1>2. NoEqual(sch)
    BY DEF LInit, Init, NoEqual, SchedInit
<1> QED
    BY <1>1, <1>2 DEF CeilInv

\* A raised task that is not running waits for a task at or above its priority.
LEMMA RaisedProtected ==
    ASSUME Pinned, LInv, CeilInv
    PROVE  CeilingProtects
<1> SUFFICES ASSUME NEW t \in Task, NEW u \in Task, t # u, Affinity[t] = Affinity[u],
                    lpc[t] \in RaisedLabel, sch.prio[u] < Ceiling[lres[t]],
                    NEW c \in Cpu, Executes(c, u)
             PROVE  FALSE
    BY DEF CeilingProtects, RaisedLabel
<1>1. StateOK(sch) /\ sch.assigned[c] = u /\ c \in Affinity[t]
    BY ExecutesFacts
<1>2. sch \in SchedState /\ Placed(sch) /\ sch.aff[t] = {c}
    BY <1>1, PinnedHere
<1>3. /\ sch.prio[t] >= Ceiling[lres[t]] /\ sch.state[t] # "blocked"
      /\ Allowed(sch, t) /\ CoveredOn(sch, c, t)
    BY DEF CeilInv, Up, Covered
<1>4. CASE sch.state[t] = "running"
    <2>1. sch.cpu[t] \in Cpu /\ sch.assigned[sch.cpu[t]] = t
        BY <1>2, <1>4 DEF SchedState, Placed, Linked
    <2>2. sch.cpu[t] = c
        BY <1>2, <1>3, <2>1 DEF Allowed
    <2> QED
        BY <1>1, <2>1, <2>2
<1>5. CASE sch.state[t] = "ready"
    <2>1. sch.prio[t] <= PrioOn(sch, c)
        BY <1>2, <1>3, <1>5 DEF CoveredOn
    <2>2. PrioOn(sch, c) = sch.prio[u]
        BY <1>1, SchedAssumption DEF PrioOn
    <2>3. sch.prio[t] \in Nat /\ sch.prio[u] \in Nat
        BY <1>2 DEF SchedState
    <2>4. lres[t] \in Res /\ Ceiling[lres[t]] \in 1 .. PrioMax
        BY CallFacts, LocalAssumption DEF RaisedLabel
    <2>5. Ceiling[lres[t]] \in Nat
        BY <2>4 DEF PrioMax
    <2> QED
        BY <1>3, <2>1, <2>2, <2>3, <2>5
<1> QED
    BY <1>2, <1>3, <1>4, <1>5 DEF SchedState

(* With pinned tasks the ceiling protects the statements of the local calls that
   sched_lock() does not: from the raise to the restore no task below the
   ceiling executes on the CPU of the raised task, even after a task above the
   ceiling has preempted it. *)
THEOREM CeilingProtectsHolds == ASSUME Pinned PROVE LSpec => []CeilingProtects
<1>1. LInit => LInv /\ CeilInv
    BY LInitInv, CeilInit
<1>2. (LInv /\ CeilInv) /\ [LNext]_lvars => (LInv /\ CeilInv)'
    BY LNextInv, CeilNext
<1>3. LInv /\ CeilInv => CeilingProtects
    BY RaisedProtected
<1> QED
    BY <1>1, <1>2, <1>3, PTL DEF LSpec

-----------------------------------------------------------------------------
(* The owner.  frap_local_lock() does not look at the previous owner, so what
   keeps two users of a resource apart is that the second cannot execute: they
   share a CPU and start below the ceiling. *)
UsersBelow ==
    \A t, u \in Task : \A r \in LocalRes[t] \cap LocalRes[u] :
        ~IsGlobal[r] => Affinity[t] = Affinity[u] /\ BasePrio[t] < Ceiling[r]

OwnerLabel == {"lock", "cs", "clear"}

\* No two tasks are raised for one resource, and the one that is owns it.
Apart == \A t, u \in Up : lres[t] = lres[u] => t = u
OwnInv == Apart /\ \A t \in Task : lpc[t] \in OwnerLabel => owner[lres[t]] = t

LEMMA OwnKept ==
    ASSUME OwnInv, NEW t \in Task,
           \A u \in Task \ {t} : lpc'[u] = lpc[u] /\ lres'[u] = lres[u],
           \A u \in Up \ {t} : /\ owner'[lres[u]] = owner[lres[u]]
                               /\ lpc'[t] \in RaisedLabel => lres[u] # lres'[t],
           lpc'[t] \in OwnerLabel => owner'[lres'[t]] = t
    PROVE  OwnInv'
<1>1. \A u \in Task \ {t} : (u \in Up)' <=> u \in Up
    BY DEF Up
<1>2. ASSUME NEW u \in Task, NEW v \in Task, (u \in Up)', (v \in Up)', lres'[u] = lres'[v], u # v
      PROVE  FALSE
    <2>1. CASE u # t /\ v # t
        BY <1>1, <1>2, <2>1 DEF OwnInv, Apart
    <2>2. CASE u = t
        <3>1. v \in Up \ {t} /\ lpc'[t] \in RaisedLabel /\ lres'[v] = lres[v]
            BY <1>1, <1>2, <2>2 DEF Up
        <3> QED
            BY <1>2, <2>2, <3>1
    <2>3. CASE v = t
        <3>1. u \in Up \ {t} /\ lpc'[t] \in RaisedLabel /\ lres'[u] = lres[u]
            BY <1>1, <1>2, <2>3 DEF Up
        <3> QED
            BY <1>2, <2>3, <3>1
    <2> QED
        BY <2>1, <2>2, <2>3
<1>3. ASSUME NEW u \in Task, lpc'[u] \in OwnerLabel
      PROVE  owner'[lres'[u]] = u
    <2>1. CASE u = t
        BY <1>3, <2>1
    <2>2. CASE u # t
        <3>1. lpc[u] \in OwnerLabel /\ u \in Up \ {t} /\ lres'[u] = lres[u]
            BY <1>3, <2>2 DEF Up, OwnerLabel, RaisedLabel
        <3> QED
            BY <3>1 DEF OwnInv
    <2> QED
        BY <2>1, <2>2
<1>4. Apart'
    BY <1>2 DEF Apart, Up
<1> QED
    BY <1>3, <1>4 DEF OwnInv

LEMMA OwnLocalStep ==
    ASSUME Pinned, UsersBelow, LInv, CeilInv, OwnInv, NEW c \in Cpu, NEW t \in Task,
           LocalStep(c, t)
    PROVE  OwnInv'
<1>a. LocalTypeOK /\ CallInv /\ owner \in [Res -> Task \cup {Null}]
    BY CallFacts
<1>b. ASSUME NEW u \in Up
      PROVE  u \in Task /\ lres[u] \in Res /\ lres[u] \in LocalRes[u] /\ ~IsGlobal[lres[u]]
    <2>1. u \in Task /\ lpc[u] # "none"
        BY <1>b DEF Up, RaisedLabel
    <2> QED
        BY <1>a, <2>1 DEF CallInv
<1>c. \A label : lpc' = [lpc EXCEPT ![t] = label] =>
          lpc'[t] = label /\ \A u \in Task \ {t} : lpc'[u] = lpc[u]
    BY <1>a DEF LocalTypeOK
<1>d. t \in Up => \A u \in Up \ {t} : lres[u] # lres[t]
    BY DEF OwnInv, Apart
\* A statement that leaves the owners alone and raises nobody.
<1>1. ASSUME owner' = owner, NEW label, lpc' = [lpc EXCEPT ![t] = label],
             \A u \in Task \ {t} : lres'[u] = lres[u],
             label \in RaisedLabel => lpc[t] \in RaisedLabel /\ lres' = lres,
             label \in OwnerLabel => lpc[t] \in OwnerLabel
      PROVE  OwnInv'
    <2>1. lpc'[t] = label /\ \A u \in Task \ {t} : lpc'[u] = lpc[u]
        BY <1>1, <1>c
    <2>2. label \in RaisedLabel => \A u \in Up \ {t} : lres[u] # lres'[t]
        BY <1>1, <1>d DEF Up
    <2>3. label \in OwnerLabel => owner'[lres'[t]] = t
        BY <1>1 DEF OwnInv, OwnerLabel, RaisedLabel
    <2> QED
        BY <1>1, <2>1, <2>2, <2>3, OwnKept
<1>2. ASSUME NEW r, LocalReject(c, t, r)
      PROVE  OwnInv'
    <2>1. owner' = owner /\ lpc' = lpc /\ lres' = lres
        BY <1>2 DEF LocalReject, vars
    <2> QED
        BY <2>1 DEF OwnInv, Apart, Up
<1>3. ASSUME NEW r, LocalLock(c, t, r)
      PROVE  OwnInv'
    <2>1. owner' = owner /\ lpc' = [lpc EXCEPT ![t] = "raise"] /\ lres' = [lres EXCEPT ![t] = r]
        BY <1>3 DEF LocalLock, vars
    <2>2. \A u \in Task \ {t} : lres'[u] = lres[u]
        BY <1>a, <2>1 DEF LocalTypeOK
    <2>3. "raise" \notin RaisedLabel /\ "raise" \notin OwnerLabel
        BY DEF RaisedLabel, OwnerLabel
    <2> QED
        BY <1>1, <2>1, <2>2, <2>3
<1>4. CASE LocalReset(c, t)
    <2>1. owner' = owner /\ lpc' = [lpc EXCEPT ![t] = "none"] /\ lres' = [lres EXCEPT ![t] = Null]
        BY <1>4 DEF LocalReset, vars
    <2>2. \A u \in Task \ {t} : lres'[u] = lres[u]
        BY <1>a, <2>1 DEF LocalTypeOK
    <2>3. "none" \notin RaisedLabel /\ "none" \notin OwnerLabel
        BY DEF RaisedLabel, OwnerLabel
    <2> QED
        BY <1>1, <2>1, <2>2, <2>3
<1>5. CASE LocalEnter(c, t)
    <2>1. /\ owner' = owner /\ lpc[t] = "lock" /\ lpc' = [lpc EXCEPT ![t] = "cs"] /\ lres' = lres
        BY <1>5 DEF LocalEnter, At
    <2>2. lpc[t] \in RaisedLabel /\ lpc[t] \in OwnerLabel
        BY <2>1 DEF RaisedLabel, OwnerLabel
    <2> QED
        BY <1>1, <2>1, <2>2
<1>6. CASE LocalLeave(c, t)
    <2>1. /\ owner' = owner /\ lpc[t] = "cs" /\ lpc' = [lpc EXCEPT ![t] = "clear"] /\ lres' = lres
        BY <1>6 DEF LocalLeave, At
    <2>2. lpc[t] \in RaisedLabel /\ lpc[t] \in OwnerLabel
        BY <2>1 DEF RaisedLabel, OwnerLabel
    <2> QED
        BY <1>1, <2>1, <2>2
<1>7. CASE LocalRestore(c, t)
    <2>1. /\ owner' = owner /\ lpc' = [lpc EXCEPT ![t] = "reset"] /\ lres' = lres
        BY <1>7 DEF LocalRestore, At
    <2>2. "reset" \notin RaisedLabel /\ "reset" \notin OwnerLabel
        BY DEF RaisedLabel, OwnerLabel
    <2> QED
        BY <1>1, <2>1, <2>2
\* The raise: a task already raised for the resource would not let t execute.
<1>8. CASE LocalRaise(c, t)
    <2>1. /\ Executes(c, t) /\ lpc[t] = "raise" /\ owner' = owner
          /\ lpc' = [lpc EXCEPT ![t] = "own"] /\ lres' = lres
        BY <1>8 DEF LocalRaise, At
    <2>2. lpc'[t] = "own" /\ \A u \in Task \ {t} : lpc'[u] = lpc[u]
        BY <1>c, <2>1
    <2>3. ASSUME NEW u \in Up \ {t}, lres[u] = lres[t]
          PROVE  FALSE
        <3>1. lres[t] \in LocalRes[t] /\ ~IsGlobal[lres[t]] /\ lres[t] \in LocalRes[u] /\ u \in Task
            BY <1>a, <1>b, <2>1, <2>3 DEF CallInv
        <3>2. Affinity[t] = Affinity[u] /\ BasePrio[t] < Ceiling[lres[t]]
            BY <3>1 DEF UsersBelow
        <3>3. pc[t] = "idle" /\ lpc[t] \notin RaisedLabel
            BY <2>1, CallFacts DEF RaisedLabel
        <3>4. sch.prio[t] = BasePrio[t]
            BY <3>3, CallFacts
        <3>5. CeilingProtects
            BY RaisedProtected
        <3>6. lpc[u] \in {"own", "lock", "cs", "clear", "restore"} /\ u # t
            BY <2>3 DEF Up, RaisedLabel
        <3>7. sch.prio[t] < Ceiling[lres[u]]
            BY <2>3, <3>2, <3>4
        <3> QED
            BY <2>1, <3>1, <3>2, <3>5, <3>6, <3>7 DEF CeilingProtects
    <2>4. lpc'[t] \notin OwnerLabel
        BY <2>2 DEF OwnerLabel
    <2> QED
        BY <2>1, <2>2, <2>3, <2>4, OwnKept
<1>9. ASSUME NEW o, owner' = [owner EXCEPT ![lres[t]] = o], lpc[t] \in RaisedLabel, lres' = lres,
             NEW label \in RaisedLabel, lpc' = [lpc EXCEPT ![t] = label],
             label \in OwnerLabel => o = t
      PROVE  OwnInv'
    <2>1. lpc'[t] = label /\ \A u \in Task \ {t} : lpc'[u] = lpc[u]
        BY <1>9, <1>c
    <2>2. t \in Up /\ lres[t] \in Res
        BY <1>9, <1>b DEF Up
    <2>3. owner'[lres[t]] = o
        BY <1>9, <1>a, <2>2
    <2>4. \A u \in Up \ {t} : owner'[lres[u]] = owner[lres[u]] /\ lres[u] # lres'[t]
        BY <1>9, <1>a, <1>b, <1>d, <2>2
    <2> QED
        BY <1>9, <2>1, <2>3, <2>4, OwnKept
<1>10. CASE LocalOwn(c, t)
    <2>1. /\ owner' = [owner EXCEPT ![lres[t]] = t] /\ lpc[t] = "own"
          /\ lpc' = [lpc EXCEPT ![t] = "lock"] /\ lres' = lres
        BY <1>10 DEF LocalOwn, At
    <2>2. lpc[t] \in RaisedLabel /\ "lock" \in RaisedLabel
        BY <2>1 DEF RaisedLabel
    <2> QED
        BY <1>9, <2>1, <2>2
<1>11. CASE LocalClear(c, t)
    <2>1. /\ owner' = [owner EXCEPT ![lres[t]] = Null] /\ lpc[t] = "clear"
          /\ lpc' = [lpc EXCEPT ![t] = "restore"] /\ lres' = lres
        BY <1>11 DEF LocalClear, At
    <2>2. lpc[t] \in RaisedLabel /\ "restore" \in RaisedLabel /\ "restore" \notin OwnerLabel
        BY <2>1 DEF RaisedLabel, OwnerLabel
    <2> QED
        BY <1>9, <2>1, <2>2
<1> QED
    BY <1>2, <1>3, <1>4, <1>5, <1>6, <1>7, <1>8, <1>10, <1>11 DEF LocalStep

\* The global protocol writes the owner of global resources only.
LEMMA OwnOthers ==
    ASSUME LInv, OwnInv, UNCHANGED localVars,
           \A r \in Res : ~IsGlobal[r] => owner'[r] = owner[r]
    PROVE  OwnInv'
<1>1. lpc' = lpc /\ lres' = lres /\ CallInv
    BY DEF localVars, LInv
<1>2. ASSUME NEW t \in Task, lpc[t] \in OwnerLabel
      PROVE  owner'[lres[t]] = t
    <2>1. lpc[t] # "none"
        BY <1>2 DEF OwnerLabel
    <2>2. lres[t] \in Res /\ ~IsGlobal[lres[t]]
        BY <1>1, <2>1 DEF CallInv
    <2> QED
        BY <1>2, <2>2 DEF OwnInv
<1>3. Apart'
    BY <1>1 DEF OwnInv, Apart, Up
<1> QED
    BY <1>1, <1>2, <1>3 DEF OwnInv

LEMMA OwnGlobalStep ==
    ASSUME LInv, NEW c \in Cpu, NEW t \in Task, GlobalStep(c, t)
    PROVE  \A r \in Res : ~IsGlobal[r] => owner'[r] = owner[r]
<1>l. PICK loc, up : loc = Loc /\ up = Up
    OBVIOUS
<1>1. IInv(loc, up)
    BY <1>l DEF LInv
<1>2. FieldInv(loc, up) /\ owner \in [Res -> Task \cup {Null}]
    BY <1>1 DEF IInv, CoreTypeOK
<1>3. CASE Enter(c, t) \/ Release(c, t)
    <2>1. PICK o : pc[t] # "idle" /\ owner' = [owner EXCEPT ![waiting_res[t]] = o]
        BY <1>3 DEF Enter, TryEnter, Release, ClearOwner
    <2>2. waiting_res[t] \in Res /\ IsGlobal[waiting_res[t]]
        BY <1>2, <2>1 DEF FieldInv
    <2> QED
        BY <1>2, <2>1, <2>2
<1>4. CASE ~(Enter(c, t) \/ Release(c, t))
    <2>1. owner' = owner
        BY <1>4 DEF GlobalStep, ProtocolStep, Lock, LockEntry, Reject, LockRejected, Raise, Raised,
                    Check, CheckCancelled, Reraise, Reraised, Wait, TryWait, Unlock,
                    LeaveNonPreemptive, Restore, Restored, Finish, ForgetResource, Sleep
    <2> QED
        BY <2>1
<1> QED
    BY <1>3, <1>4

LEMMA OwnNext ==
    ASSUME Pinned, UsersBelow, LInv, CeilInv, OwnInv, [LNext]_lvars
    PROVE  OwnInv'
<1>1. ASSUME NEW c \in Cpu, NEW t \in Task, GlobalStep(c, t)
      PROVE  OwnInv'
    <2>1. UNCHANGED localVars
        BY <1>1 DEF GlobalStep
    <2>2. \A r \in Res : ~IsGlobal[r] => owner'[r] = owner[r]
        BY <1>1, OwnGlobalStep
    <2> QED
        BY <2>1, <2>2, OwnOthers
<1>2. ASSUME UNCHANGED localVars, owner' = owner
      PROVE  OwnInv'
    BY <1>2, OwnOthers
<1>3. ASSUME NEW c \in Cpu, NEW t \in Task, Leave(c, t), UNCHANGED localVars
      PROVE  OwnInv'
    BY <1>2, <1>3 DEF Leave
<1>4. ASSUME NEW c \in Cpu, HookTest(c) \/ HookRead(c) \/ HookCancel(c) \/ HookLower(c),
             UNCHANGED localVars
      PROVE  OwnInv'
    BY <1>2, <1>4 DEF HookTest, HookRead, HookCancel, HookLower, CancelSpin
<1>5. ASSUME NEW c \in Cpu, LInterrupt(c)
      PROVE  OwnInv'
    BY <1>2, <1>5 DEF LInterrupt, HandleDelivery, Wake, Interrupts
<1>6. ASSUME UNCHANGED lvars
      PROVE  OwnInv'
    BY <1>2, <1>6 DEF lvars, vars
<1> QED
    BY <1>1, <1>3, <1>4, <1>5, <1>6, OwnLocalStep DEF LNext, LRun

(* If the tasks that use a local resource are pinned to one CPU and start below
   the ceiling they pass, then a task in the critical section is the recorded
   owner and is marked frap_in_cs, which frap_local_unlock() asserts: two calls
   never overlap, although the lock call does not look at the owner.  The run
   frap_local_owner shows that the ceiling is needed. *)
THEOREM LocalOwnerHolds == ASSUME Pinned, UsersBelow PROVE LSpec => []LocalOwner
<1> DEFINE I == LInv /\ CeilInv /\ OwnInv
<1>1. LInit => I
    <2>1. LInit => OwnInv
        BY DEF LInit, OwnInv, Apart, Up, RaisedLabel, OwnerLabel
    <2> QED
        BY <2>1, LInitInv, CeilInit
<1>2. I /\ [LNext]_lvars => I'
    BY LNextInv, CeilNext, OwnNext
<1>3. I => LocalOwner
    <2> SUFFICES ASSUME LInv, OwnInv, NEW t \in Task, lpc[t] = "cs"
                 PROVE  owner[lres[t]] = t /\ in_cs[t]
        BY DEF LocalOwner
    <2>1. owner[lres[t]] = t
        BY DEF OwnInv, OwnerLabel
    <2>2. pc[t] = "idle"
        BY CallFacts
    <2>3. in_cs[t]
        BY <2>2, CallFacts
    <2> QED
        BY <2>1, <2>3
<1> QED
    BY <1>1, <1>2, <1>3, PTL DEF LSpec

=============================================================================
