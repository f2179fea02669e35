------------------------------- MODULE FrapDemo -------------------------------
(***************************************************************************)
(* frapdemo: the generated table is loaded, one worker per task locks and  *)
(* unlocks the resources of its route TARGET_ITERATIONS times, and the     *)
(* main thread watches the workers and reports.  The lock is the abstract  *)
(* FrapSpec, which FrapLock implements; the workers ignore its result.     *)
(* Time is a counter that may advance at any step.                         *)
(***************************************************************************)
EXTENDS FrapTable, Sequences

CONSTANTS
    Worker,             \* the workers, in the order of their indices: tasks
    Route,              \* Route[w]: the resources a worker locks, in order
    TARGET_ITERATIONS,
    Threshold,          \* DEADLOCK_THRESHOLD_MS
    MaxTime             \* bound on the clock

ASSUME DemoAssumption ==
    /\ Worker \in Seq(Task) \ {<< >>}
    /\ Route \in [Task -> Seq(Res)]
    /\ \A w \in Task : /\ Route[w] # << >>
                       /\ \A i \in DOMAIN Route[w] : Route[w][i] \in Req[w]
    /\ TARGET_ITERATIONS \in Nat \ {0} /\ Threshold \in Nat /\ MaxTime \in Nat

Thread == {Worker[i] : i \in DOMAIN Worker}

VARIABLES
    phase, req, holder, queue,  \* the lock, as in FrapSpec
    loaded,     \* g_loaded_spin_prio
    spin_prio,  \* tcb->frap_spin_prio
    wpc, idx,   \* where a worker is, and which resource of its route is next
    ops, progress, done, last_seen,     \* g_stats[].ops, g_progress, ...
    mpc, cur, all_done, scan,   \* the main loop and the worker it looks at
    reported, real_deadlocks,
    start_gun, now

lockVars == <<phase, req, holder, queue>>
workVars == <<spin_prio, wpc, idx, ops, progress, done, last_seen>>
mainVars == <<loaded, mpc, cur, all_done, scan, reported, real_deadlocks, start_gun>>
vars == <<genVars, lockVars, workVars, mainVars, now>>

Lk == INSTANCE FrapSpec

TypeOK ==
    /\ GenTypeOK
    /\ loaded \in [Task -> [Res -> 0 .. 255]]
    /\ spin_prio \in [Task -> 0 .. 255]
    /\ wpc \in [Task -> {"poll", "call", "request", "wait", "cs", "stats", "end", "exit"}]
    /\ \A w \in Thread : /\ idx[w] \in 1 .. Len(Route[w])
                         /\ progress[w] \in 0 .. TARGET_ITERATIONS
                         /\ ops[w] \in Len(Route[w]) * progress[w] .. Len(Route[w]) * (progress[w] + 1)
    /\ mpc \in {"load", "start", "sample", "done", "last", "sleep", "summary", "join"}
    /\ scan \in DOMAIN Worker \cup {0}

Init ==
    /\ GenInit /\ Lk!Init
    /\ loaded = [w \in Task |-> [r \in Res |-> 0]]
    /\ spin_prio = [w \in Task |-> 0]
    /\ wpc = [w \in Task |-> "poll"]
    /\ idx = [w \in Task |-> 1]
    /\ ops = [w \in Task |-> 0]
    /\ progress = [w \in Task |-> 0]
    /\ done = [w \in Task |-> FALSE]
    /\ last_seen = [w \in Task |-> 0]
    /\ mpc = "load" /\ cur = 0 /\ all_done = FALSE /\ scan = 0
    /\ reported = {} /\ real_deadlocks = 0
    /\ start_gun = FALSE /\ now = 1

-----------------------------------------------------------------------------
(* The workers. *)

heartbeat(w) == last_seen' = [last_seen EXCEPT ![w] = now]
Moves(w, from, to) == wpc[w] = from /\ wpc' = [wpc EXCEPT ![w] = to]
Resource(w) == Route[w][idx[w]]

Start(w) ==
    /\ start_gun
    /\ Moves(w, "poll", "call")
    /\ heartbeat(w)
    /\ UNCHANGED <<genVars, lockVars, mainVars, now, spin_prio, idx, ops, progress, done>>

\* The spin priority is set only if the table has one.
SetSpin(w) ==
    /\ Moves(w, "call", "request")
    /\ heartbeat(w)
    /\ spin_prio' = [spin_prio EXCEPT ![w] =
                       IF loaded[w][Resource(w)] > 0 THEN loaded[w][Resource(w)] ELSE @]
    /\ UNCHANGED <<genVars, lockVars, mainVars, now, idx, ops, progress, done>>

\* frap_lock() rejects a spin priority below the base priority; the worker goes
\* on as if it had the resource.
Request(w) ==
    /\ IF spin_prio[w] < P[w]
       THEN Moves(w, "request", "cs") /\ UNCHANGED lockVars
       ELSE Moves(w, "request", "wait") /\ Lk!Request(w, Resource(w))
    /\ UNCHANGED <<genVars, mainVars, now, spin_prio, idx, ops, progress, done, last_seen>>

Queue(w) ==
    /\ Lk!Join(w, Resource(w)) \/ Lk!Withdraw(w, Resource(w))
    /\ UNCHANGED <<genVars, workVars, mainVars, now>>

Grant(w) ==
    /\ Moves(w, "wait", "cs")
    /\ Lk!Grant(w, Resource(w))
    /\ UNCHANGED <<genVars, mainVars, now, spin_prio, idx, ops, progress, done, last_seen>>

\* frap_unlock() clears the owner whoever it is.
Unlock(w) ==
    /\ Moves(w, "cs", "stats")
    /\ holder' = [holder EXCEPT ![Resource(w)] = Null]
    /\ phase' = [phase EXCEPT ![w] = "out"]
    /\ req' = [req EXCEPT ![w] = Null]
    /\ UNCHANGED <<genVars, queue, mainVars, now, spin_prio, idx, ops, progress, done, last_seen>>

\* Variant with a bug: one iteration too many.
MoreIterations_Extra(w) == progress[w] < TARGET_ITERATIONS

MoreIterations(w) == progress[w] + 1 < TARGET_ITERATIONS

\* update_stats(), then the next resource of the route, or the next iteration.
Account(w) ==
    /\ wpc[w] = "stats"
    /\ ops' = [ops EXCEPT ![w] = @ + 1]
    /\ heartbeat(w)
    /\ \/ /\ idx[w] < Len(Route[w])
          /\ idx' = [idx EXCEPT ![w] = @ + 1]
          /\ wpc' = [wpc EXCEPT ![w] = "call"]
          /\ UNCHANGED progress
       \/ /\ idx[w] = Len(Route[w])
          /\ idx' = [idx EXCEPT ![w] = 1]
          /\ wpc' = [wpc EXCEPT ![w] = IF MoreIterations(w) THEN "call" ELSE "end"]
          /\ progress' = [progress EXCEPT ![w] = @ + 1]
    /\ UNCHANGED <<genVars, lockVars, mainVars, now, spin_prio, done>>

Exit(w) ==
    /\ Moves(w, "end", "exit")
    /\ done' = [done EXCEPT ![w] = TRUE]
    /\ UNCHANGED <<genVars, lockVars, mainVars, now, spin_prio, idx, ops, progress, last_seen>>

worker_entry(w) ==
    \/ Start(w) \/ SetSpin(w) \/ Request(w) \/ Queue(w) \/ Grant(w)
    \/ Unlock(w) \/ Account(w) \/ Exit(w)

-----------------------------------------------------------------------------
(* The main thread. *)

\* Variant with a bug: the first resource of a worker is skipped.
load_frap_table_Skips ==
    [w \in Task |-> [r \in Res |-> IF r \in Req[w] /\ r # Route[w][1] THEN Pcfg[<<w, r>>] ELSE 0]]

\* The entries of a task carry the index of its worker as pid_hint.
load_frap_table ==
    [w \in Task |-> [r \in Res |-> IF <<w, r>> \in Key THEN Pcfg[<<w, r>>] ELSE 0]]

Load ==
    /\ todo = {} /\ task_i = Null
    /\ mpc = "load" /\ mpc' = "start"
    /\ loaded' = load_frap_table
    /\ UNCHANGED <<genVars, lockVars, workVars, now, cur, all_done, scan, reported, real_deadlocks, start_gun>>

StartGun ==
    /\ mpc = "start" /\ mpc' = "sample"
    /\ start_gun' = TRUE
    /\ UNCHANGED <<genVars, lockVars, workVars, now, loaded, cur, all_done, scan, reported, real_deadlocks>>

\* "cur = now_ms(); all_done = true"
Sample ==
    /\ mpc = "sample" /\ mpc' = "done"
    /\ cur' = now /\ all_done' = TRUE /\ scan' = 1
    /\ UNCHANGED <<genVars, lockVars, workVars, now, loaded, reported, real_deadlocks, start_gun>>

Advance ==
    IF scan < Len(Worker)
    THEN scan' = scan + 1 /\ mpc' = "done"
    ELSE scan' = 0 /\ mpc' = "sleep"

\* Reads g_worker_done[i].
CheckDone ==
    /\ mpc = "done"
    /\ IF done[Worker[scan]]
       THEN Advance /\ UNCHANGED all_done
       ELSE mpc' = "last" /\ all_done' = FALSE /\ UNCHANGED scan
    /\ UNCHANGED <<genVars, lockVars, workVars, now, loaded, cur, reported, real_deadlocks, start_gun>>

\* Variant with a bug: the unsigned difference without the comparison.
Silence_Wraps(last) == (cur - last) % 65536

Silence(last) == IF cur > last THEN cur - last ELSE 0

\* Reads g_last_seen_ms[i].
CheckLast ==
    LET w == Worker[scan] IN
    /\ mpc = "last"
    /\ reported' = IF last_seen[w] # 0 /\ Silence(last_seen[w]) > Threshold
                   THEN reported \cup {w} ELSE reported
    /\ Advance
    /\ UNCHANGED <<genVars, lockVars, workVars, now, loaded, cur, all_done, real_deadlocks, start_gun>>

Sleep ==
    /\ mpc = "sleep"
    /\ mpc' = IF all_done THEN "summary" ELSE "sample"
    /\ UNCHANGED <<genVars, lockVars, workVars, now, loaded, cur, all_done, scan, reported, real_deadlocks, start_gun>>

Summary ==
    /\ mpc = "summary" /\ mpc' = "join"
    /\ real_deadlocks' = Cardinality({w \in Thread : ~done[w] \/ progress[w] < TARGET_ITERATIONS})
    /\ UNCHANGED <<genVars, lockVars, workVars, now, loaded, cur, all_done, scan, reported, start_gun>>

frapdemo_main ==
    Load \/ StartGun \/ Sample \/ CheckDone \/ CheckLast \/ Sleep \/ Summary

\* Nobody reads the clock before the start.
Tick ==
    /\ start_gun /\ now < MaxTime
    /\ now' = now + 1
    /\ UNCHANGED <<genVars, lockVars, workVars, mainVars>>

Next ==
    \/ GenNext /\ UNCHANGED <<lockVars, workVars, mainVars, now>>
    \/ \E w \in Thread : worker_entry(w)
    \/ frapdemo_main
    \/ Tick
    \/ mpc = "join" /\ UNCHANGED vars

Spec == Init /\ [][Next]_vars

-----------------------------------------------------------------------------
(* Properties. *)

\* Two workers are never in the critical region of one resource (the TLSF heap),
\* although a worker whose frap_lock() was rejected enters all the same: with the
\* generated table no call is rejected.
WorkersExcluded ==
    \A v, w \in Thread : v # w /\ wpc[v] = "cs" /\ wpc[w] = "cs" => Resource(v) # Resource(w)

\* The watchdog calls a worker stuck only if, at that moment, it has not been
\* heard of for longer than the threshold, whatever the worker did since the
\* loop read the clock.
NoFalseAlarm ==
    [][\A w \in reported' \ reported : now - last_seen[w] > Threshold]_vars

\* When the main thread prints its summary, it counts no deadlock, every worker
\* has done every operation of every iteration and every resource is free.
SummaryHonest ==
    mpc = "join" =>
        /\ real_deadlocks = 0
        /\ \A w \in Thread : ops[w] = TARGET_ITERATIONS * Len(Route[w])
        /\ \A r \in Res : holder[r] = Null /\ queue[r] = << >>

=============================================================================
