--------------------------- MODULE FrapDemoProofs ----------------------------
(***************************************************************************)
(* The table generator and the demo, for every task set, every assignment  *)
(* of routes and every number of iterations: every entry of the table is   *)
(* one that frap_lock() accepts, what the search for an urgent task has    *)
(* established survives the searches for the tasks below it, and the       *)
(* workers exclude each other although they ignore what frap_lock()        *)
(* answers.                                                                *)
(*                                                                         *)
(* UrgentProtected is not inductive.  A later search rewrites entries of   *)
(* the same CPU to its own P_i - 1, so it has to be known that the tasks   *)
(* are taken in descending order (Descending), and, for the task under     *)
(* analysis, that every entry at or above it is still a candidate          *)
(* (Candidates).                                                           *)
(*                                                                         *)
(* For the demo the argument runs from the generator to the lock.  The     *)
(* table is complete before it is loaded and loaded before the first       *)
(* worker starts (MainInv), so the spin priority a worker sets is one      *)
(* frap_lock() accepts (Accepted), so a worker in its critical section is  *)
(* the holder the lock knows (Holds).                                      *)
(***************************************************************************)
EXTENDS FrapDemo, FiniteSetTheorems, TLAPS

-----------------------------------------------------------------------------
(* The generator. *)

\* A task is analysed before the less urgent ones of its CPU.
Descending ==
    \A t \in (Task \ todo) \cup ({task_i} \ {Null}) : \A u \in todo :
        CpuOf[u] = CpuOf[t] => P[u] <= P[t]

\* What delays the task under analysis can still be lowered.
Candidates ==
    task_i # Null =>
        \A l \in local_lp(task_i) : \A r \in Req[l] :
            Pcfg[<<l, r>>] >= P[task_i] => r \in Fstar

GenInv == GenTypeOK /\ SpinInRange /\ Descending /\ Candidates /\ UrgentProtected

\* Base priorities are positive and bounded by P_HIGH.
LEMMA Priorities ==
    \A t \in Task : P[t] \in 1 .. 255 /\ P[t] <= P_HIGH
BY TableAssumption

\* An entry is indexed by a task and a resource it requests.
LEMMA Entries ==
    \A t \in Task : \A r \in Req[t] : <<t, r>> \in Key
BY TableAssumption DEF Key

\* The arithmetic of lowering an entry to P_i - 1.
LEMMA OneBelow ==
    \A p, q, h \in Int : /\ p < q /\ q <= h => p <= q - 1 /\ q - 1 <= h
                         /\ p <= q => p - 1 < q
                         /\ ~(p >= q) => p < q
                         /\ ~(p - 1 >= p)
OBVIOUS

\* The initial table satisfies the invariant.
LEMMA GenInitInv == GenInit => GenInv
<1> SUFFICES ASSUME GenInit PROVE GenInv
    OBVIOUS
<1>1. PICK ok_all \in [Key -> BOOLEAN] :
        Pcfg = [k \in Key |-> IF ok_all[k] THEN P[k[1]] ELSE P_HIGH]
    BY DEF GenInit
<1>2. \A k \in Key : k[1] \in Task
    BY DEF Key
<1>3. \A k \in Key : Pcfg[k] \in 1 .. 255 /\ P[k[1]] <= Pcfg[k] /\ Pcfg[k] <= P_HIGH
    BY <1>1, <1>2, Priorities, TableAssumption
<1>4. Pcfg \in [Key -> 0 .. 255]
    BY <1>1, <1>3
<1>5. GenTypeOK
    BY <1>4 DEF GenInit, GenTypeOK
<1>6. SpinInRange
    BY <1>3 DEF SpinInRange
<1>7. Descending /\ Candidates /\ UrgentProtected
    BY DEF GenInit, Descending, Candidates, UrgentProtected
<1> QED
    BY <1>5, <1>6, <1>7 DEF GenInv

\* Starting the analysis of a task computes its candidates.
LEMMA BeginTaskInv ==
    ASSUME GenInv, NEW t \in Task, BeginTask(t)
    PROVE  GenInv'
<1> USE DEF BeginTask
<1>1. GenTypeOK'
    BY DEF GenInv, GenTypeOK, IsNext
<1>2. SpinInRange'
    BY DEF GenInv, SpinInRange
<1>3. Descending'
    BY DEF GenInv, Descending, IsNext
<1>4. Candidates'
    <2> SUFFICES ASSUME NEW l \in local_lp(t), NEW r \in Req[l], Pcfg[<<l, r>>] >= P[t]
                 PROVE  r \in Fstar'
        BY DEF Candidates, local_lp
    <2>1. l \in Task /\ r \in Res
        BY TableAssumption DEF local_lp
    <2> QED
        BY <2>1
<1>5. UrgentProtected'
    BY DEF GenInv, UrgentProtected, local_lp
<1> QED
    BY <1>1, <1>2, <1>3, <1>4, <1>5 DEF GenInv

\* Lowering a candidate keeps every entry in range and below the tasks that
\* were analysed before.
LEMMA LowerBestInv ==
    ASSUME GenInv, NEW best_r \in Res, LowerBest(best_r)
    PROVE  GenInv'
<1> DEFINE lowered(k) == k[1] \in local_lp(task_i) /\ k[2] = best_r
<1>1. task_i \in todo /\ task_i \in Task
    BY DEF GenInv, GenTypeOK, LowerBest
<1>2. P[task_i] \in 1 .. 255 /\ P[task_i] <= P_HIGH /\ P_HIGH \in 1 .. 255
    BY <1>1, Priorities, TableAssumption
<1>3. Pcfg' = [k \in Key |-> IF lowered(k) THEN P[task_i] - 1 ELSE Pcfg[k]]
    BY DEF LowerBest
<1>4. UNCHANGED <<todo, task_i, exhausted>> /\ Fstar' = Fstar \ {best_r}
    BY DEF LowerBest
<1>5. \A k \in Key : Pcfg'[k] = IF lowered(k) THEN P[task_i] - 1 ELSE Pcfg[k]
    BY <1>3
<1>6. \A k \in Key : k[1] \in Task /\ Pcfg[k] \in 0 .. 255
    BY DEF Key, GenInv, GenTypeOK
<1>7. GenTypeOK'
    BY <1>2, <1>3, <1>4, <1>6 DEF GenInv, GenTypeOK
<1>8. SpinInRange'
    <2> SUFFICES ASSUME NEW k \in Key
                 PROVE  P[k[1]] <= Pcfg'[k] /\ Pcfg'[k] <= P_HIGH
        BY DEF SpinInRange
    <2>1. CASE lowered(k)
        <3>1. P[k[1]] < P[task_i] /\ P[k[1]] \in 1 .. 255
            BY <2>1, <1>6, Priorities DEF local_lp
        <3>2. Pcfg'[k] = P[task_i] - 1
            BY <1>5, <2>1
        <3>3. P[k[1]] \in Int /\ P[task_i] \in Int /\ P_HIGH \in Int
            BY <3>1, <1>2
        <3>4. P[k[1]] <= P[task_i] - 1 /\ P[task_i] - 1 <= P_HIGH
            BY <3>1, <3>3, <1>2, OneBelow
        <3> QED
            BY <3>2, <3>4
    <2>2. CASE ~lowered(k)
        BY <1>5, <2>2 DEF GenInv, SpinInRange
    <2> QED
        BY <2>1, <2>2
<1>9. Descending'
    BY <1>4 DEF GenInv, Descending
<1>10. Candidates'
    <2> SUFFICES ASSUME NEW l \in local_lp(task_i), NEW r \in Req[l],
                        Pcfg'[<<l, r>>] >= P[task_i]
                 PROVE  r \in Fstar'
        BY <1>4 DEF Candidates, local_lp
    <2>1. l \in Task /\ <<l, r>> \in Key
        BY Entries DEF local_lp
    <2>2. CASE r = best_r
        <3>1. Pcfg'[<<l, r>>] = P[task_i] - 1
            BY <2>1, <2>2, <1>5
        <3> QED
            BY <3>1, <1>2, OneBelow
    <2>3. CASE r # best_r
        <3>1. Pcfg'[<<l, r>>] = Pcfg[<<l, r>>]
            BY <2>1, <2>3, <1>5
        <3>2. r \in Fstar
            BY <3>1, <1>1 DEF GenInv, Candidates, LowerBest
        <3> QED
            BY <3>2, <2>3, <1>4
    <2> QED
        BY <2>2, <2>3
<1>11. UrgentProtected'
    <2> SUFFICES ASSUME NEW t \in exhausted, NEW l \in local_lp(t), NEW r \in Req[l]
                 PROVE  Pcfg'[<<l, r>>] < P[t]
        BY <1>4 DEF UrgentProtected, local_lp
    <2>1. l \in Task /\ <<l, r>> \in Key
        BY Entries DEF local_lp
    <2>2. t \in Task /\ t \notin todo
        BY DEF GenInv, GenTypeOK
    <2>3. Pcfg[<<l, r>>] < P[t]
        BY DEF GenInv, UrgentProtected
    <2>4. CASE lowered(<<l, r>>)
        <3>1. Pcfg'[<<l, r>>] = P[task_i] - 1
            BY <2>1, <2>4, <1>5
        <3>2. CpuOf[task_i] = CpuOf[t]
            BY <2>4 DEF local_lp
        <3>3. P[task_i] <= P[t]
            BY <3>2, <2>2, <1>1 DEF GenInv, Descending
        <3>4. P[task_i] \in Int /\ P[t] \in Int
            BY <2>2, <1>2, Priorities
        <3> QED
            BY <3>1, <3>3, <3>4, OneBelow
    <2>5. CASE ~lowered(<<l, r>>)
        BY <2>1, <2>3, <2>5, <1>5
    <2> QED
        BY <2>4, <2>5
<1> QED
    BY <1>7, <1>8, <1>9, <1>10, <1>11 DEF GenInv

\* A task whose candidates are used up is protected from then on.
LEMMA EndTaskInv ==
    ASSUME GenInv, EndTask
    PROVE  GenInv'
<1> USE DEF EndTask
<1>1. task_i \in todo /\ task_i \in Task
    BY DEF GenInv, GenTypeOK
<1>2. GenTypeOK'
    BY <1>1 DEF GenInv, GenTypeOK
<1>3. SpinInRange'
    BY DEF GenInv, SpinInRange
<1>4. Descending'
    BY <1>1 DEF GenInv, Descending
<1>5. Candidates'
    BY DEF Candidates
<1>6. UrgentProtected'
    <2> SUFFICES ASSUME NEW t \in exhausted', NEW l \in local_lp(t), NEW r \in Req[l]
                 PROVE  Pcfg[<<l, r>>] < P[t]
        BY DEF UrgentProtected, local_lp
    <2>1. CASE t \in exhausted
        BY <2>1 DEF GenInv, UrgentProtected
    <2>2. CASE t \notin exhausted
        <3>1. t = task_i /\ Fstar = {}
            BY <2>2
        <3>2. ~(Pcfg[<<l, r>>] >= P[t])
            BY <3>1 DEF GenInv, Candidates
        <3>3. <<l, r>> \in Key /\ Pcfg[<<l, r>>] \in 0 .. 255 /\ P[t] \in 1 .. 255
            BY <3>1, <1>1, Entries, Priorities DEF local_lp, GenInv, GenTypeOK
        <3>4. Pcfg[<<l, r>>] \in Int /\ P[t] \in Int
            BY <3>3
        <3> QED
            BY <3>2, <3>4, OneBelow
    <2> QED
        BY <2>1, <2>2
<1> QED
    BY <1>2, <1>3, <1>4, <1>5, <1>6 DEF GenInv

\* Every step of the generator preserves the invariant.
LEMMA GenStepInv == GenInv /\ [GenNext]_genVars => GenInv'
<1> SUFFICES ASSUME GenInv, [GenNext]_genVars PROVE GenInv'
    OBVIOUS
<1>1. CASE \E t \in Task : BeginTask(t)
    BY <1>1, BeginTaskInv
<1>2. CASE \E r \in Res : LowerBest(r)
    BY <1>2, LowerBestInv
<1>3. CASE EndTask
    BY <1>3, EndTaskInv
<1>4. CASE UNCHANGED genVars
    BY <1>4 DEF genVars, GenInv, GenTypeOK, SpinInRange, Descending, Candidates,
                UrgentProtected, local_lp
<1> QED
    BY <1>1, <1>2, <1>3, <1>4 DEF GenNext

\* The invariant holds throughout the generation.
THEOREM GenInvariant == GenSpec => []GenInv
<1>1. GenInit => GenInv
    BY GenInitInv
<1>2. GenInv /\ [GenNext]_genVars => GenInv'
    BY GenStepInv
<1> QED
    BY <1>1, <1>2, PTL DEF GenSpec

\* Every entry frap_table_generator.py ever holds lies between the base priority
\* of its task and the highest base priority, for every configuration and every
\* outcome of the schedulability tests.
THEOREM TableInRange == GenSpec => []SpinInRange
<1>1. GenInv => SpinInRange
    BY DEF GenInv
<1> QED
    BY <1>1, GenInvariant, PTL

\* No later search of frap_table_generator.py lifts a less urgent task back to
\* the priority of a task whose own search used up its candidates.
THEOREM UrgentStaysProtected == GenSpec => []UrgentProtected
<1>1. GenInv => UrgentProtected
    BY DEF GenInv
<1> QED
    BY <1>1, GenInvariant, PTL

-----------------------------------------------------------------------------
(* The demo. *)

\* The table is final once it is loaded, and is loaded before the start.
TableLoaded == mpc # "load" => todo = {} /\ task_i = Null /\ loaded = load_frap_table
GunAfterLoad == start_gun => mpc # "load"
MainInv == GenInv /\ TableLoaded /\ GunAfterLoad

\* The types the argument needs.
WorkType ==
    /\ wpc \in [Task -> {"poll", "call", "request", "wait", "cs", "stats", "end", "exit"}]
    /\ spin_prio \in [Task -> 0 .. 255]
    /\ idx \in [Task -> Nat]
    /\ \A w \in Task : idx[w] \in 1 .. Len(Route[w])
    /\ holder \in [Res -> Task \cup {Null}]

\* Nobody works before the start.
AtStart == ~start_gun => \A w \in Task : wpc[w] = "poll"

\* A worker calls frap_lock() with a spin priority that is accepted.
Accepted == \A w \in Task : wpc[w] = "request" => spin_prio[w] >= P[w]

\* A worker in its critical section holds its resource.
Holds == \A w \in Task : wpc[w] = "cs" => holder[Resource(w)] = w

WorkInv == WorkType /\ AtStart /\ Accepted /\ Holds

DemoInv == MainInv /\ WorkInv

\* A worker is a task.
LEMMA ThreadIsTask == Thread \subseteq Task
BY DemoAssumption DEF Thread

\* The resource a worker is at is one it requests.
LEMMA ResourceRequested ==
    ASSUME WorkType, NEW w \in Task
    PROVE  Resource(w) \in Req[w] /\ Resource(w) \in Res
<1>1. Route[w] \in Seq(Res) /\ idx[w] \in 1 .. Len(Route[w])
    BY DemoAssumption DEF WorkType
<1>2. idx[w] \in DOMAIN Route[w]
    BY <1>1
<1> QED
    BY <1>1, <1>2, DemoAssumption DEF Resource

\* Initially nothing is loaded and everybody polls.
LEMMA DemoInit == Init => DemoInv
<1> SUFFICES ASSUME Init PROVE DemoInv
    OBVIOUS
<1>1. MainInv
    BY GenInitInv DEF Init, MainInv, TableLoaded, GunAfterLoad
<1>2. WorkType
    <2>1. \A w \in Task : Route[w] \in Seq(Res) /\ Route[w] # << >>
        BY DemoAssumption
    <2>2. \A w \in Task : 1 \in 1 .. Len(Route[w])
        BY <2>1
    <2>3. holder = [r \in Res |-> Null]
        BY DEF Init, Lk!Init
    <2> QED
        BY <2>2, <2>3 DEF Init, WorkType
<1>3. AtStart /\ Accepted /\ Holds
    BY DEF Init, AtStart, Accepted, Holds
<1> QED
    BY <1>1, <1>2, <1>3 DEF DemoInv, WorkInv

\* A step of a worker leaves the generator and the main thread alone.
LEMMA MainFrame ==
    ASSUME MainInv, UNCHANGED <<genVars, mainVars>>
    PROVE  MainInv'
<1>1. GenInv'
    BY GenStepInv DEF MainInv
<1> QED
    BY <1>1 DEF MainInv, TableLoaded, GunAfterLoad, load_frap_table, genVars, mainVars

\* A step of the generator, the main thread or the clock leaves the workers and
\* the lock alone.
LEMMA WorkFrame ==
    ASSUME WorkInv, UNCHANGED <<lockVars, workVars>>, start_gun => start_gun'
    PROVE  WorkInv'
BY DEF WorkInv, WorkType, AtStart, Accepted, Holds, Resource, lockVars, workVars

\* The generator does not run any more once its table is loaded.
LEMMA GenStep ==
    ASSUME MainInv, GenNext, UNCHANGED mainVars
    PROVE  MainInv'
<1>1. GenInv'
    BY GenStepInv DEF MainInv
<1>2. mpc = "load"
    BY DEF MainInv, TableLoaded, GenNext, BeginTask, IsNext, LowerBest, EndTask
<1> QED
    BY <1>1, <1>2 DEF MainInv, TableLoaded, GunAfterLoad, mainVars

\* Loading, the start and the rounds of the watchdog.
LEMMA MainStep ==
    ASSUME MainInv, frapdemo_main
    PROVE  /\ MainInv'
           /\ UNCHANGED <<lockVars, workVars>>
           /\ start_gun => start_gun'
<1>1. GenInv' /\ UNCHANGED genVars
    <2>1. UNCHANGED genVars
        BY DEF frapdemo_main, Load, StartGun, Sample, CheckDone, CheckLast, Sleep, Summary
    <2> QED
        BY <2>1, GenStepInv DEF MainInv
<1>2. UNCHANGED <<lockVars, workVars>> /\ (start_gun => start_gun')
    BY DEF frapdemo_main, Load, StartGun, Sample, CheckDone, CheckLast, Sleep, Summary
<1>3. TableLoaded'
    <2>1. CASE Load
        BY <2>1, <1>1 DEF Load, TableLoaded, load_frap_table, genVars
    <2>2. CASE ~Load
        BY <2>2, <1>1 DEF MainInv, TableLoaded, load_frap_table, genVars, frapdemo_main,
            StartGun, Sample, CheckDone, CheckLast, Sleep, Summary
    <2> QED
        BY <2>1, <2>2
<1>4. GunAfterLoad'
    BY DEF MainInv, GunAfterLoad, frapdemo_main, Load, StartGun, Sample, CheckDone,
           CheckLast, Sleep, Summary, Advance
<1> QED
    BY <1>1, <1>2, <1>3, <1>4 DEF MainInv

\* What every entry of the loaded table guarantees once the workers run.
LEMMA LoadedAccepted ==
    ASSUME DemoInv, start_gun, NEW w \in Task
    PROVE  /\ loaded[w][Resource(w)] \in 0 .. 255
           /\ loaded[w][Resource(w)] > 0
           /\ loaded[w][Resource(w)] >= P[w]
<1> DEFINE r == Resource(w)
<1>1. r \in Req[w] /\ r \in Res
    BY ResourceRequested DEF DemoInv, WorkInv
<1>2. <<w, r>> \in Key
    BY <1>1, Entries
<1>3. loaded[w][r] = Pcfg[<<w, r>>]
    BY <1>1, <1>2 DEF DemoInv, MainInv, GunAfterLoad, TableLoaded, load_frap_table
<1>4. Pcfg[<<w, r>>] \in 0 .. 255 /\ P[w] <= Pcfg[<<w, r>>]
    BY <1>2 DEF DemoInv, MainInv, GenInv, GenTypeOK, SpinInRange
<1>5. P[w] \in 1 .. 255
    BY Priorities
<1> HIDE DEF r
<1>6. Pcfg[<<w, r>>] > 0 /\ Pcfg[<<w, r>>] >= P[w]
    BY <1>4, <1>5
<1> QED
    BY <1>3, <1>4, <1>6 DEF r

\* The steps of a worker that touch neither its resource nor the lock.
LEMMA WorkerLocal ==
    ASSUME DemoInv, NEW w \in Task, Start(w) \/ SetSpin(w) \/ Exit(w)
    PROVE  WorkInv'
<1> USE DEF DemoInv, WorkInv
<1>1. UNCHANGED <<lockVars, mainVars, idx>> /\ UNCHANGED <<holder, start_gun>>
    BY DEF Start, SetSpin, Exit, lockVars, mainVars
<1>2. start_gun
    BY DEF AtStart, Start, SetSpin, Exit, Moves
<1>3. /\ wpc' \in [Task -> {"poll", "call", "request", "wait", "cs", "stats", "end", "exit"}]
      /\ \A v \in Task : wpc'[v] = "cs" => wpc[v] = "cs"
    BY DEF Start, SetSpin, Exit, Moves, WorkType
<1>4. /\ spin_prio' \in [Task -> 0 .. 255]
      /\ \A v \in Task : wpc'[v] = "request" => spin_prio'[v] >= P[v]
    <2>1. CASE Start(w) \/ Exit(w)
        BY <2>1 DEF Start, Exit, Moves, WorkType, Accepted
    <2>2. CASE SetSpin(w)
        <3>1. spin_prio' = [spin_prio EXCEPT ![w] = loaded[w][Resource(w)]]
            BY <2>2, <1>2, LoadedAccepted DEF SetSpin
        <3>2. \A v \in Task : v # w /\ wpc'[v] = "request" => wpc[v] = "request"
            BY <2>2 DEF SetSpin, Moves, WorkType
        <3> QED
            BY <3>1, <3>2, <1>2, LoadedAccepted DEF WorkType, Accepted
    <2> QED
        BY <2>1, <2>2
<1>5. WorkType' /\ Accepted'
    BY <1>1, <1>3, <1>4 DEF WorkType, Accepted
<1>6. AtStart' /\ Holds'
    BY <1>1, <1>2, <1>3 DEF AtStart, Holds, Resource
<1> QED
    BY <1>5, <1>6

\* frap_lock(): no request is rejected, and a grant finds the resource free.
LEMMA WorkerLock ==
    ASSUME DemoInv, NEW w \in Task, Request(w) \/ Queue(w) \/ Grant(w)
    PROVE  WorkInv'
<1> USE DEF DemoInv, WorkInv
<1>1. UNCHANGED <<spin_prio, idx, start_gun>>
    BY DEF Request, Queue, Grant, workVars, mainVars
<1>2. CASE Request(w)
    <2>1. ~(spin_prio[w] < P[w])
        <3>1. spin_prio[w] >= P[w] /\ spin_prio[w] \in 0 .. 255 /\ P[w] \in 1 .. 255
            BY <1>2, Priorities DEF Request, Moves, Accepted, WorkType
        <3>2. \A a, b \in Int : a >= b => ~(a < b)
            OBVIOUS
        <3>3. spin_prio[w] \in Int /\ P[w] \in Int
            BY <3>1
        <3> QED
            BY <3>1, <3>2, <3>3, Zenon
    <2>2. Moves(w, "request", "wait") /\ UNCHANGED holder
        BY <1>2, <2>1 DEF Request, Lk!Request
    <2> QED
        BY <1>1, <2>2 DEF Moves, WorkType, AtStart, Accepted, Holds, Resource
<1>3. CASE Queue(w)
    <2>1. UNCHANGED <<wpc, holder>>
        BY <1>3 DEF Queue, Lk!Join, Lk!Withdraw, workVars
    <2> QED
        BY <1>1, <2>1 DEF WorkType, AtStart, Accepted, Holds, Resource
<1>4. CASE Grant(w)
    <2> DEFINE r == Resource(w)
    <2>1. r \in Res
        BY ResourceRequested
    <2>2. holder[r] = Null /\ holder' = [holder EXCEPT ![r] = w] /\ Moves(w, "wait", "cs")
        BY <1>4 DEF Grant, Lk!Grant
    <2>3. WorkType' /\ AtStart' /\ Accepted'
        BY <1>1, <2>1, <2>2 DEF Moves, WorkType, AtStart, Accepted
    <2>4. Holds'
        <3> SUFFICES ASSUME NEW v \in Task, wpc'[v] = "cs"
                     PROVE  holder'[Resource(v)] = v
            BY <1>1 DEF Holds, Resource
        <3>1. Resource(v) \in Res
            BY ResourceRequested
        <3>2. CASE v = w
            BY <3>2, <2>1, <2>2 DEF WorkType
        <3>3. CASE v # w
            <4>1. holder[Resource(v)] = v
                BY <3>3, <2>2 DEF Moves, WorkType, Holds
            <4>2. Resource(v) # r
                BY <4>1, <2>2, TableAssumption
            <4> QED
                BY <4>1, <4>2, <3>1, <2>1, <2>2 DEF WorkType
        <3> QED
            BY <3>2, <3>3
    <2> QED
        BY <2>3, <2>4
<1> QED
    BY <1>2, <1>3, <1>4

\* frap_unlock() clears the owner whoever it is: it is the worker itself.
LEMMA WorkerUnlock ==
    ASSUME DemoInv, NEW w \in Task, Unlock(w)
    PROVE  WorkInv'
<1> USE DEF DemoInv, WorkInv
<1> DEFINE r == Resource(w)
<1>1. UNCHANGED <<spin_prio, idx, start_gun>> /\ Moves(w, "cs", "stats")
      /\ holder' = [holder EXCEPT ![r] = Null]
    BY DEF Unlock, mainVars
<1>2. r \in Res
    BY ResourceRequested
<1>3. WorkType' /\ AtStart' /\ Accepted'
    BY <1>1, <1>2 DEF Moves, WorkType, AtStart, Accepted
<1>4. Holds'
    <2> SUFFICES ASSUME NEW v \in Task, wpc'[v] = "cs"
                 PROVE  holder'[Resource(v)] = v
        BY <1>1 DEF Holds, Resource
    <2>1. v # w /\ wpc[v] = "cs" /\ wpc[w] = "cs"
        BY <1>1 DEF Moves, WorkType
    <2>2. holder[Resource(v)] = v /\ holder[r] = w
        BY <2>1 DEF Holds
    <2>3. Resource(v) # r /\ Resource(v) \in Res
        BY <2>1, <2>2, ResourceRequested
    <2> QED
        BY <2>2, <2>3, <1>1, <1>2 DEF WorkType
<1> QED
    BY <1>3, <1>4

\* The next resource of the route, or the next iteration.
LEMMA WorkerAccount ==
    ASSUME DemoInv, NEW w \in Task, Account(w)
    PROVE  WorkInv'
<1> USE DEF DemoInv, WorkInv
<1>1. UNCHANGED <<spin_prio, holder, start_gun>> /\ wpc[w] = "stats"
    BY DEF Account, lockVars, mainVars
<1>2. PICK l \in {"call", "end"} : wpc' = [wpc EXCEPT ![w] = l]
    BY DEF Account
<1>3. PICK n \in 1 .. Len(Route[w]) : idx' = [idx EXCEPT ![w] = n]
    <2>1. Len(Route[w]) \in Nat /\ idx[w] \in 1 .. Len(Route[w])
        BY DemoAssumption DEF WorkType
    <2>2. CASE idx[w] < Len(Route[w]) /\ idx' = [idx EXCEPT ![w] = idx[w] + 1]
        <3>1. idx[w] + 1 \in 1 .. Len(Route[w])
            BY <2>1, <2>2
        <3> QED
            BY <2>2, <3>1
    <2>3. CASE idx[w] = Len(Route[w]) /\ idx' = [idx EXCEPT ![w] = 1]
        <3>1. 1 \in 1 .. Len(Route[w])
            BY <2>1, <2>3
        <3> QED
            BY <2>3, <3>1
    <2> QED
        BY <2>2, <2>3 DEF Account
<1>4. n \in Nat
    BY DemoAssumption
<1>5. WorkType'
    BY <1>1, <1>2, <1>3, <1>4 DEF WorkType
<1>6. AtStart' /\ Accepted'
    BY <1>1, <1>2 DEF WorkType, AtStart, Accepted
<1>7. Holds'
    <2> SUFFICES ASSUME NEW v \in Task, wpc'[v] = "cs"
                 PROVE  holder'[Route[v][idx'[v]]] = v
        BY DEF Holds, Resource
    <2>1. v # w /\ wpc[v] = "cs"
        BY <1>2 DEF WorkType
    <2>2. idx'[v] = idx[v]
        BY <2>1, <1>3 DEF WorkType
    <2> QED
        BY <2>1, <2>2, <1>1 DEF Holds, Resource
<1> QED
    BY <1>5, <1>6, <1>7

\* Every step of the demo preserves the invariant.
LEMMA DemoStep == DemoInv /\ [Next]_vars => DemoInv'
<1> SUFFICES ASSUME DemoInv, [Next]_vars PROVE DemoInv'
    OBVIOUS
<1>1. CASE GenNext /\ UNCHANGED <<lockVars, workVars, mainVars, now>>
    <2>1. MainInv'
        BY <1>1, GenStep DEF DemoInv
    <2>2. WorkInv'
        BY <1>1, WorkFrame DEF DemoInv, mainVars
    <2> QED
        BY <2>1, <2>2 DEF DemoInv
<1>2. CASE \E w \in Thread : worker_entry(w)
    <2>1. PICK w \in Task : worker_entry(w)
        BY <1>2, ThreadIsTask
    <2>2. UNCHANGED <<genVars, mainVars>>
        BY <2>1 DEF worker_entry, Start, SetSpin, Request, Queue, Grant, Unlock, Account, Exit
    <2>3. MainInv'
        BY <2>2, MainFrame DEF DemoInv
    <2>4. WorkInv'
        BY <2>1, WorkerLocal, WorkerLock, WorkerUnlock, WorkerAccount DEF worker_entry
    <2> QED
        BY <2>3, <2>4 DEF DemoInv
<1>3. CASE frapdemo_main
    BY <1>3, MainStep, WorkFrame DEF DemoInv
<1>4. CASE Tick \/ UNCHANGED vars
    <2>1. UNCHANGED <<genVars, lockVars, workVars, mainVars>>
        BY <1>4 DEF Tick, vars
    <2> QED
        BY <2>1, MainFrame, WorkFrame DEF DemoInv, mainVars
<1> QED
    BY <1>1, <1>2, <1>3, <1>4 DEF Next

\* The demo's workers never meet in the critical region of a resource: with the
\* table of frap_table_generator.py, loaded by load_frap_table(), frap_lock()
\* rejects no call, so that ignoring its result is harmless, and frap_unlock()
\* clears no owner but the caller.
THEOREM WorkersExclude == Spec => []WorkersExcluded
<1>1. Init => DemoInv
    BY DemoInit
<1>2. DemoInv /\ [Next]_vars => DemoInv'
    BY DemoStep
<1>3. DemoInv => WorkersExcluded
    BY ThreadIsTask DEF DemoInv, WorkInv, Holds, WorkersExcluded
<1> QED
    BY <1>1, <1>2, <1>3, PTL DEF Spec

-----------------------------------------------------------------------------
(* The watchdog and the summary. *)

\* Where a worker is says how much it has done.
ProgInv ==
    \A w \in Task :
        /\ progress[w] \in 0 .. TARGET_ITERATIONS
        /\ ops[w] = Len(Route[w]) * progress[w] + (idx[w] - 1)
        /\ wpc[w] \notin {"end", "exit"} => progress[w] < TARGET_ITERATIONS
        /\ wpc[w] \in {"end", "exit"} => progress[w] = TARGET_ITERATIONS /\ idx[w] = 1
        /\ done[w] = (wpc[w] = "exit")
ProgType ==
    /\ progress \in [Task -> Nat] /\ ops \in [Task -> Nat] /\ done \in [Task -> BOOLEAN]
    /\ phase \in [Task -> {"out", "waiting", "holding"}]
    /\ queue \in [Res -> Seq(Task)]

\* The lock knows nobody but workers that wait or are in their critical section,
\* each at the resource of its route it is at, and nobody is queued twice.
QueueInv ==
    \A r \in Res :
        /\ holder[r] # Null => wpc[holder[r]] = "cs" /\ Resource(holder[r]) = r
        /\ \A i \in 1 .. Len(queue[r]) : /\ wpc[queue[r][i]] = "wait"
                                         /\ Resource(queue[r][i]) = r
        /\ \A i, j \in 1 .. Len(queue[r]) : i # j => queue[r][i] # queue[r][j]
WaitInv ==
    \A w \in Task : /\ phase[w] = "waiting" => wpc[w] = "wait"
                    /\ w \notin Thread => wpc[w] = "poll"

CountInv == ProgType /\ ProgInv /\ QueueInv /\ WaitInv

\* What the round of the main thread has established.
WatchInv ==
    /\ mpc \in {"load", "start", "sample", "done", "last", "sleep", "summary", "join"}
    /\ scan \in IF mpc \in {"done", "last"} THEN 1 .. Len(Worker) ELSE {0}
    /\ mpc = "done" /\ all_done => \A i \in 1 .. Len(Worker) : i < scan => done[Worker[i]]
    /\ mpc = "last" => ~all_done
    /\ mpc = "sleep" /\ all_done => \A w \in Thread : done[w]
    /\ mpc \in {"summary", "join"} => \A w \in Thread : done[w]
    /\ mpc = "join" => real_deadlocks = 0
    /\ mpc = "load" => loaded = [w \in Task |-> [r \in Res |-> 0]]

\* The main thread's clock reading and the heartbeats are in the past.
ClockInv ==
    /\ now \in Nat /\ cur \in Nat /\ cur <= now
    /\ last_seen \in [Task -> Nat]

FullInv == DemoInv /\ CountInv /\ WatchInv /\ ClockInv

\* The workers are the elements of a sequence that is not empty.
LEMMA Workers ==
    /\ Worker \in Seq(Task) /\ Len(Worker) \in Nat /\ 1 \in 1 .. Len(Worker)
    /\ \A i \in 1 .. Len(Worker) : Worker[i] \in Thread /\ Worker[i] \in Task
    /\ \A w \in Thread : \E i \in 1 .. Len(Worker) : w = Worker[i]
<1>1. Worker \in Seq(Task) /\ Worker # << >>
    BY DemoAssumption
<1>2. Len(Worker) \in Nat /\ Len(Worker) # 0 /\ DOMAIN Worker = 1 .. Len(Worker)
    BY <1>1
<1> QED
    BY <1>1, <1>2 DEF Thread

LEMMA Routes ==
    ASSUME NEW w \in Task
    PROVE  Route[w] \in Seq(Res) /\ Len(Route[w]) \in Nat /\ 1 \in 1 .. Len(Route[w])
<1>1. Route[w] \in Seq(Res) /\ Route[w] # << >>
    BY DemoAssumption
<1> QED
    BY <1>1

\* Nobody has done anything yet.
LEMMA FullInit == Init => FullInv
<1> SUFFICES ASSUME Init PROVE FullInv
    OBVIOUS
<1>1. /\ wpc = [w \in Task |-> "poll"] /\ idx = [w \in Task |-> 1]
      /\ ops = [w \in Task |-> 0] /\ progress = [w \in Task |-> 0]
      /\ done = [w \in Task |-> FALSE] /\ last_seen = [w \in Task |-> 0]
      /\ mpc = "load" /\ cur = 0 /\ scan = 0 /\ now = 1
      /\ loaded = [w \in Task |-> [r \in Res |-> 0]]
      /\ phase = [w \in Task |-> "out"] /\ holder = [r \in Res |-> Null]
      /\ queue = [r \in Res |-> << >>]
    BY DEF Init, Lk!Init
<1>2. ProgType /\ ClockInv /\ WatchInv /\ WaitInv /\ QueueInv
    BY <1>1 DEF ProgType, ClockInv, WatchInv, WaitInv, QueueInv
<1>3. ProgInv
    <2> SUFFICES ASSUME NEW w \in Task
                 PROVE  /\ 0 \in 0 .. TARGET_ITERATIONS
                        /\ 0 = Len(Route[w]) * 0 + (1 - 1)
                        /\ 0 < TARGET_ITERATIONS
        BY <1>1 DEF ProgInv
    <2> QED
        BY Routes, DemoAssumption
<1> QED
    BY <1>2, <1>3, DemoInit DEF FullInv, CountInv

-----------------------------------------------------------------------------
\* A step of the generator, the main thread or the clock.
LEMMA CountFrame ==
    ASSUME CountInv, UNCHANGED <<lockVars, workVars>>
    PROVE  CountInv'
<1>1. UNCHANGED <<phase, holder, queue, wpc, idx, ops, progress, done>>
    BY DEF lockVars, workVars
<1> QED
    BY <1>1 DEF CountInv, ProgType, ProgInv, QueueInv, WaitInv, Resource

\* A step of a worker: a worker that is done stays done.
LEMMA WatchFrame ==
    ASSUME WatchInv, UNCHANGED mainVars, \A w \in Thread : done[w] => done'[w]
    PROVE  WatchInv'
<1>1. UNCHANGED <<mpc, scan, all_done, real_deadlocks, loaded>>
    BY DEF mainVars
<1> QED
    BY <1>1, Workers DEF WatchInv

\* A step of a worker outside frap_lock(), frap_unlock() and the accounting.
LEMMA OutsideCount ==
    ASSUME DemoInv, CountInv, NEW w \in Thread, Start(w) \/ SetSpin(w) \/ Exit(w)
    PROVE  CountInv' /\ \A v \in Thread : done[v] => done'[v]
<1>1. /\ UNCHANGED <<phase, holder, queue, idx, ops, progress>>
      /\ wpc[w] \in {"poll", "call", "end"}
      /\ wpc' = [wpc EXCEPT ![w] = CASE wpc[w] = "poll" -> "call"
                                     [] wpc[w] = "call" -> "request" [] OTHER -> "exit"]
      /\ done' = [done EXCEPT ![w] = @ \/ wpc[w] = "end"]
    <2> USE ThreadIsTask DEF CountInv, ProgType
    <2>1. CASE Start(w)
        BY <2>1 DEF Start, Moves, lockVars
    <2>2. CASE SetSpin(w)
        BY <2>2 DEF SetSpin, Moves, lockVars
    <2>3. CASE Exit(w)
        BY <2>3 DEF Exit, Moves, lockVars
    <2> QED
        BY <2>1, <2>2, <2>3
<1>2. w \in Task /\ wpc \in [Task -> {"poll", "call", "request", "wait", "cs", "stats", "end", "exit"}]
    BY ThreadIsTask DEF DemoInv, WorkInv, WorkType
<1>3. ProgType' /\ \A v \in Thread : done[v] => done'[v]
    BY <1>1, <1>2, ThreadIsTask DEF CountInv, ProgType
<1>4. ProgInv'
    BY <1>1, <1>2 DEF CountInv, ProgType, ProgInv
<1>5. QueueInv'
    <2>1. \A v \in Task : wpc[v] \in {"wait", "cs"} => wpc'[v] = wpc[v]
        BY <1>1, <1>2
    <2>2. \A r \in Res : queue[r] \in Seq(Task) /\ holder[r] \in Task \cup {Null}
        BY DEF CountInv, ProgType, DemoInv, WorkInv, WorkType
    <2> QED
        BY <1>1, <2>1, <2>2 DEF CountInv, QueueInv, Resource
<1>6. WaitInv'
    BY <1>1, <1>2 DEF CountInv, WaitInv
<1> QED
    BY <1>3, <1>4, <1>5, <1>6 DEF CountInv

\* frap_lock() entered: the call is accepted and the worker waits.
LEMMA RequestCount ==
    ASSUME DemoInv, CountInv, NEW w \in Thread, Request(w)
    PROVE  CountInv' /\ UNCHANGED done
<1>1. w \in Task /\ wpc \in [Task -> {"poll", "call", "request", "wait", "cs", "stats", "end", "exit"}]
    BY ThreadIsTask DEF DemoInv, WorkInv, WorkType
<1>2. ~(spin_prio[w] < P[w])
    <2>1. spin_prio[w] >= P[w] /\ spin_prio[w] \in 0 .. 255 /\ P[w] \in 1 .. 255
        BY <1>1, Priorities DEF Request, Moves, Accepted, WorkType, DemoInv, WorkInv
    <2>2. \A a, b \in Int : a >= b => ~(a < b)
        OBVIOUS
    <2>3. spin_prio[w] \in Int /\ P[w] \in Int
        BY <2>1
    <2> QED
        BY <2>1, <2>2, <2>3, Zenon
<1>3. /\ wpc[w] = "request" /\ wpc' = [wpc EXCEPT ![w] = "wait"]
      /\ phase' = [phase EXCEPT ![w] = "waiting"]
      /\ UNCHANGED <<holder, queue, idx, ops, progress, done>>
    BY <1>2 DEF Request, Moves, Lk!Request
<1>4. ProgType' /\ ProgInv' /\ WaitInv'
    BY <1>1, <1>3 DEF CountInv, ProgType, ProgInv, WaitInv
<1>5. QueueInv'
    <2>1. \A v \in Task : wpc[v] \in {"wait", "cs"} => wpc'[v] = wpc[v]
        BY <1>1, <1>3
    <2>2. \A r \in Res : queue[r] \in Seq(Task) /\ holder[r] \in Task \cup {Null}
        BY DEF CountInv, ProgType, DemoInv, WorkInv, WorkType
    <2> QED
        BY <1>3, <2>1, <2>2 DEF CountInv, QueueInv, Resource
<1> QED
    BY <1>3, <1>4, <1>5 DEF CountInv

\* A waiter joins the queue it is not in.
LEMMA JoinCount ==
    ASSUME DemoInv, CountInv, NEW w \in Thread, Queue(w), Lk!Join(w, Resource(w))
    PROVE  CountInv' /\ UNCHANGED done
<1> DEFINE r == Resource(w)
<1>1. w \in Task /\ r \in Res /\ queue \in [Res -> Seq(Task)]
    BY ThreadIsTask, ResourceRequested DEF DemoInv, WorkInv, CountInv, ProgType
<1>2. /\ queue' = [queue EXCEPT ![r] = Append(queue[r], w)] /\ wpc[w] = "wait"
      /\ \A i \in 1 .. Len(queue[r]) : queue[r][i] # w
      /\ UNCHANGED <<phase, holder, wpc, idx, ops, progress, done>>
    BY <1>1 DEF Lk!Join, Lk!Queued, Queue, workVars, CountInv, WaitInv
<1>3. ProgType' /\ ProgInv' /\ WaitInv'
    BY <1>1, <1>2 DEF CountInv, ProgType, ProgInv, WaitInv
<1>4. QueueInv'
    <2> HIDE DEF r
    <2> SUFFICES ASSUME NEW x \in Res
                 PROVE  /\ holder[x] # Null => wpc[holder[x]] = "cs" /\ Resource(holder[x]) = x
                        /\ \A i \in 1 .. Len(queue'[x]) : /\ wpc[queue'[x][i]] = "wait"
                                                          /\ Resource(queue'[x][i]) = x
                        /\ \A i, j \in 1 .. Len(queue'[x]) : i # j => queue'[x][i] # queue'[x][j]
        BY <1>2 DEF QueueInv, Resource
    <2>1. CASE x # r
        BY <1>1, <1>2, <2>1 DEF CountInv, QueueInv
    <2>2. CASE x = r
        <3>1. /\ holder[r] # Null => wpc[holder[r]] = "cs" /\ Resource(holder[r]) = r
              /\ \A i \in 1 .. Len(queue[r]) : wpc[queue[r][i]] = "wait" /\ Resource(queue[r][i]) = r
              /\ \A i, j \in 1 .. Len(queue[r]) : i # j => queue[r][i] # queue[r][j]
            BY <1>1 DEF CountInv, QueueInv
        <3>2. queue'[r] = Append(queue[r], w) /\ queue[r] \in Seq(Task) /\ Resource(w) = r
            BY <1>1, <1>2 DEF r
        <3>3. /\ Len(queue'[r]) = Len(queue[r]) + 1 /\ Len(queue[r]) \in Nat
              /\ \A i \in 1 .. Len(queue[r]) : queue'[r][i] = queue[r][i]
              /\ queue'[r][Len(queue[r]) + 1] = w
            BY <3>2, <1>1
        <3>4. \A i \in 1 .. Len(queue'[r]) : i \in 1 .. Len(queue[r]) \/ i = Len(queue[r]) + 1
            BY <3>3
        <3>5. \A i \in 1 .. Len(queue'[r]) : wpc[queue'[r][i]] = "wait" /\ Resource(queue'[r][i]) = r
            BY <3>1, <3>2, <3>3, <3>4, <1>2
        <3>6. \A i, j \in 1 .. Len(queue'[r]) : i # j => queue'[r][i] # queue'[r][j]
            BY <3>1, <3>3, <3>4, <1>2
        <3> QED
            BY <3>1, <3>5, <3>6, <2>2
    <2> QED
        BY <2>1, <2>2
<1> QED
    BY <1>2, <1>3, <1>4 DEF CountInv

\* A waiter withdraws, or the head of the queue is granted the resource: what is
\* left of the queue is some of what was there.
LEMMA ShortenedQueue ==
    ASSUME NEW q \in Seq(Task), NEW k \in 1 .. Len(q),
           \A i, j \in 1 .. Len(q) : i # j => q[i] # q[j]
    PROVE  LET s == Lk!Without(q, k) IN
           /\ s \in Seq(Task)
           /\ \A i \in 1 .. Len(s) : \E j \in 1 .. Len(q) : s[i] = q[j] /\ s[i] # q[k]
           /\ \A i, j \in 1 .. Len(s) : i # j => s[i] # s[j]
<1> DEFINE s == Lk!Without(q, k)
           at(i) == IF i < k THEN i ELSE i + 1
<1>1. Len(q) \in Nat /\ Len(q) - 1 \in Nat /\ k \in Nat
    BY DEF Lk!Without
<1>2. \A i \in 1 .. Len(q) - 1 : at(i) \in 1 .. Len(q) /\ at(i) # k
    BY <1>1
<1>3. \A i, j \in 1 .. Len(q) - 1 : i # j => at(i) # at(j)
    BY <1>1
<1>4. s = [i \in 1 .. Len(q) - 1 |-> q[at(i)]]
    BY DEF Lk!Without
<1> HIDE DEF at
<1>5. s \in Seq(Task) /\ Len(s) = Len(q) - 1
    BY <1>1, <1>2, <1>4
<1> HIDE DEF s
<1>6. \A i \in 1 .. Len(s) : s[i] = q[at(i)]
    BY <1>4, <1>5
<1>7. \A i \in 1 .. Len(s) : s[i] # q[k]
    BY <1>2, <1>5, <1>6
<1>8. \A i, j \in 1 .. Len(s) : i # j => s[i] # s[j]
    BY <1>2, <1>3, <1>5, <1>6
<1> QED
    BY <1>2, <1>5, <1>6, <1>7, <1>8 DEF s

LEMMA WithdrawCount ==
    ASSUME DemoInv, CountInv, NEW w \in Thread, Queue(w), Lk!Withdraw(w, Resource(w))
    PROVE  CountInv' /\ UNCHANGED done
<1> DEFINE r == Resource(w)
<1>1. w \in Task /\ r \in Res /\ queue \in [Res -> Seq(Task)]
    BY ThreadIsTask, ResourceRequested DEF DemoInv, WorkInv, CountInv, ProgType
<1>2. UNCHANGED <<phase, holder, wpc, idx, ops, progress, done>>
    BY DEF Lk!Withdraw, Queue, workVars
<1>3. PICK k \in 1 .. Len(queue[r]) : queue' = [queue EXCEPT ![r] = Lk!Without(queue[r], k)]
    BY <1>1 DEF Lk!Withdraw
<1>4. \A x \in Res :
        /\ holder[x] # Null => wpc[holder[x]] = "cs" /\ Resource(holder[x]) = x
        /\ \A i \in 1 .. Len(queue[x]) : wpc[queue[x][i]] = "wait" /\ Resource(queue[x][i]) = x
        /\ \A i, j \in 1 .. Len(queue[x]) : i # j => queue[x][i] # queue[x][j]
    BY DEF CountInv, QueueInv
<1> HIDE DEF r
<1>5. /\ queue'[r] = Lk!Without(queue[r], k)
      /\ queue'[r] \in Seq(Task)
      /\ \A i \in 1 .. Len(queue'[r]) : \E j \in 1 .. Len(queue[r]) : queue'[r][i] = queue[r][j]
      /\ \A i, j \in 1 .. Len(queue'[r]) : i # j => queue'[r][i] # queue'[r][j]
    <2>1. queue[r] \in Seq(Task) /\ \A i, j \in 1 .. Len(queue[r]) : i # j => queue[r][i] # queue[r][j]
        BY <1>1, <1>4
    <2>2. queue'[r] = Lk!Without(queue[r], k)
        BY <1>1, <1>3
    <2> DEFINE s == Lk!Without(queue[r], k)
    <2>3. /\ s \in Seq(Task)
          /\ \A i \in 1 .. Len(s) : \E j \in 1 .. Len(queue[r]) : s[i] = queue[r][j] /\ s[i] # queue[r][k]
          /\ \A i, j \in 1 .. Len(s) : i # j => s[i] # s[j]
        BY <2>1, ShortenedQueue
    <2> HIDE DEF s
    <2>4. queue'[r] = s
        BY <2>2 DEF s
    <2> QED
        BY <2>2, <2>3, <2>4
<1>6. ProgType' /\ ProgInv' /\ WaitInv'
    BY <1>1, <1>2, <1>3, <1>5 DEF CountInv, ProgType, ProgInv, WaitInv
<1>7. QueueInv'
    <2> SUFFICES ASSUME NEW x \in Res
                 PROVE  /\ holder[x] # Null => wpc[holder[x]] = "cs" /\ Resource(holder[x]) = x
                        /\ \A i \in 1 .. Len(queue'[x]) : /\ wpc[queue'[x][i]] = "wait"
                                                          /\ Resource(queue'[x][i]) = x
                        /\ \A i, j \in 1 .. Len(queue'[x]) : i # j => queue'[x][i] # queue'[x][j]
        BY <1>2 DEF QueueInv, Resource
    <2>1. CASE x # r
        <3>1. queue'[x] = queue[x]
            BY <1>1, <1>3, <2>1
        <3> QED
            BY <3>1, <1>4
    <2>2. CASE x = r
        <3>1. \A i \in 1 .. Len(queue'[r]) : wpc[queue'[r][i]] = "wait" /\ Resource(queue'[r][i]) = r
            BY <1>1, <1>4, <1>5
        <3> QED
            BY <1>4, <1>5, <2>2, <3>1
    <2> QED
        BY <2>1, <2>2
<1> QED
    BY <1>2, <1>6, <1>7 DEF CountInv

\* The resource is granted to the head of its queue, or past an empty one.
LEMMA GrantCount ==
    ASSUME DemoInv, CountInv, NEW w \in Thread, Grant(w)
    PROVE  CountInv' /\ UNCHANGED done
<1> DEFINE r == Resource(w)
<1>1. /\ w \in Task /\ r \in Res /\ queue \in [Res -> Seq(Task)] /\ Resource(w) = r
      /\ wpc \in [Task -> {"poll", "call", "request", "wait", "cs", "stats", "end", "exit"}]
      /\ holder \in [Res -> Task \cup {Null}]
    BY ThreadIsTask, ResourceRequested DEF DemoInv, WorkInv, WorkType, CountInv, ProgType
<1>2. /\ wpc[w] = "wait" /\ wpc' = [wpc EXCEPT ![w] = "cs"]
      /\ holder[r] = Null /\ holder' = [holder EXCEPT ![r] = w]
      /\ phase' = [phase EXCEPT ![w] = "holding"]
      /\ UNCHANGED <<idx, ops, progress, done>>
    BY DEF Grant, Moves, Lk!Grant
<1>3. \/ queue[r] = << >> /\ queue' = queue
      \/ queue[r] # << >> /\ Head(queue[r]) = w /\ queue' = [queue EXCEPT ![r] = Tail(queue[r])]
    BY <1>1 DEF Grant, Lk!Grant
<1>4. \A x \in Res :
        /\ holder[x] # Null => wpc[holder[x]] = "cs" /\ Resource(holder[x]) = x
        /\ \A i \in 1 .. Len(queue[x]) : wpc[queue[x][i]] = "wait" /\ Resource(queue[x][i]) = x
        /\ \A i, j \in 1 .. Len(queue[x]) : i # j => queue[x][i] # queue[x][j]
    BY DEF CountInv, QueueInv
<1> HIDE DEF r
<1>5. /\ queue'[r] \in Seq(Task)
      /\ \A i \in 1 .. Len(queue'[r]) : \E j \in 1 .. Len(queue[r]) :
            queue'[r][i] = queue[r][j] /\ queue'[r][i] # w
      /\ \A i, j \in 1 .. Len(queue'[r]) : i # j => queue'[r][i] # queue'[r][j]
    <2>1. CASE queue[r] = << >> /\ queue' = queue
        BY <2>1, <1>1
    <2>2. CASE queue[r] # << >> /\ Head(queue[r]) = w /\ queue' = [queue EXCEPT ![r] = Tail(queue[r])]
        <3>1. /\ queue[r] \in Seq(Task) /\ queue'[r] = Tail(queue[r]) /\ queue[r] # << >>
              /\ \A i, j \in 1 .. Len(queue[r]) : i # j => queue[r][i] # queue[r][j]
            BY <1>1, <1>4, <2>2
        <3>2. /\ Tail(queue[r]) \in Seq(Task) /\ Len(Tail(queue[r])) = Len(queue[r]) - 1
              /\ Len(queue[r]) \in Nat /\ Len(queue[r]) # 0
              /\ \A i \in 1 .. Len(queue[r]) - 1 : Tail(queue[r])[i] = queue[r][i + 1]
              /\ queue[r][1] = w
            BY <2>2, <3>1
        <3>3. \A i \in 1 .. Len(queue'[r]) :
                 /\ queue'[r][i] = queue[r][i + 1] /\ i + 1 \in 1 .. Len(queue[r])
                 /\ i + 1 # 1 /\ 1 \in 1 .. Len(queue[r])
            BY <3>1, <3>2
        <3>4. \A i \in 1 .. Len(queue'[r]) : queue'[r][i] # w
            BY <3>1, <3>2, <3>3
        <3>5. \A i, j \in 1 .. Len(queue'[r]) : i # j => i + 1 # j + 1
            BY <3>2
        <3> QED
            BY <3>1, <3>2, <3>3, <3>4, <3>5
    <2> QED
        BY <1>3, <2>1, <2>2
<1>6. queue' \in [Res -> Seq(Task)] /\ \A x \in Res : x # r => queue'[x] = queue[x]
    BY <1>1, <1>3, <1>5
<1>7. ProgType' /\ ProgInv' /\ WaitInv'
    BY <1>1, <1>2, <1>6 DEF CountInv, ProgType, ProgInv, WaitInv
<1>8. QueueInv'
    <2> SUFFICES ASSUME NEW x \in Res
                 PROVE  /\ holder'[x] # Null => wpc'[holder'[x]] = "cs" /\ Resource(holder'[x]) = x
                        /\ \A i \in 1 .. Len(queue'[x]) : /\ wpc'[queue'[x][i]] = "wait"
                                                          /\ Resource(queue'[x][i]) = x
                        /\ \A i, j \in 1 .. Len(queue'[x]) : i # j => queue'[x][i] # queue'[x][j]
        BY <1>2 DEF QueueInv, Resource
    <2>1. CASE x # r
        <3>1. queue'[x] = queue[x] /\ holder'[x] = holder[x] /\ queue[x] \in Seq(Task)
            BY <1>1, <1>2, <1>6, <2>1
        <3>2. \A i \in 1 .. Len(queue[x]) : queue[x][i] # w /\ queue[x][i] \in Task
            BY <1>1, <1>4, <2>1, <3>1
        <3>3. \A i \in 1 .. Len(queue[x]) : wpc'[queue[x][i]] = "wait"
            BY <1>1, <1>2, <1>4, <3>2
        <3>4. holder[x] # Null => wpc'[holder[x]] = "cs"
            BY <1>1, <1>2, <1>4
        <3> QED
            BY <3>1, <3>3, <3>4, <1>4
    <2>2. CASE x = r
        <3>1. holder'[r] = w /\ wpc'[w] = "cs"
            BY <1>1, <1>2
        <3>2. \A i \in 1 .. Len(queue'[r]) :
                 wpc'[queue'[r][i]] = "wait" /\ Resource(queue'[r][i]) = r
            <4> SUFFICES ASSUME NEW i \in 1 .. Len(queue'[r])
                         PROVE  wpc'[queue'[r][i]] = "wait" /\ Resource(queue'[r][i]) = r
                OBVIOUS
            <4>1. PICK j \in 1 .. Len(queue[r]) : queue'[r][i] = queue[r][j] /\ queue'[r][i] # w
                BY <1>5
            <4>2. wpc[queue[r][j]] = "wait" /\ Resource(queue[r][j]) = r /\ queue[r][j] \in Task
                BY <1>1, <1>4
            <4> QED
                BY <1>1, <1>2, <4>1, <4>2
        <3>3. wpc'[holder'[r]] = "cs" /\ Resource(holder'[r]) = r
            BY <1>1, <3>1
        <3>4. \A i, j \in 1 .. Len(queue'[r]) : i # j => queue'[r][i] # queue'[r][j]
            BY <1>5
        <3> QED
            BY <2>2, <3>2, <3>3, <3>4
    <2> QED
        BY <2>1, <2>2
<1> QED
    BY <1>2, <1>7, <1>8 DEF CountInv

\* frap_unlock() frees what the worker holds.
LEMMA UnlockCount ==
    ASSUME DemoInv, CountInv, NEW w \in Thread, Unlock(w)
    PROVE  CountInv' /\ UNCHANGED done
<1> DEFINE r == Resource(w)
<1>1. /\ w \in Task /\ r \in Res /\ queue \in [Res -> Seq(Task)]
      /\ wpc \in [Task -> {"poll", "call", "request", "wait", "cs", "stats", "end", "exit"}]
      /\ holder \in [Res -> Task \cup {Null}]
    BY ThreadIsTask, ResourceRequested DEF DemoInv, WorkInv, WorkType, CountInv, ProgType
<1>2. /\ wpc[w] = "cs" /\ wpc' = [wpc EXCEPT ![w] = "stats"]
      /\ holder' = [holder EXCEPT ![r] = Null]
      /\ phase' = [phase EXCEPT ![w] = "out"]
      /\ UNCHANGED <<queue, idx, ops, progress, done>>
    BY DEF Unlock, Moves
<1>3. ProgType' /\ ProgInv' /\ WaitInv'
    BY <1>1, <1>2 DEF CountInv, ProgType, ProgInv, WaitInv
<1>4. ASSUME NEW x \in Res, holder'[x] # Null
      PROVE  holder'[x] = holder[x] /\ holder[x] # w /\ holder[x] \in Task
    BY <1>1, <1>2, <1>4 DEF CountInv, QueueInv
<1> HIDE DEF r
<1>5. \A x \in Res : queue[x] \in Seq(Task)
    BY <1>1
<1>6. \A v \in Task : v # w => wpc'[v] = wpc[v]
    BY <1>1, <1>2
<1>7. QueueInv'
    BY <1>1, <1>2, <1>4, <1>5, <1>6 DEF CountInv, QueueInv, Resource
<1> QED
    BY <1>2, <1>3, <1>7 DEF CountInv

\* The operations done, counted along the route.
LEMMA RouteSum ==
    ASSUME NEW l \in Nat, NEW n \in Nat, NEW i \in Nat
    PROVE  /\ (l * n + (i - 1)) + 1 = l * n + ((i + 1) - 1)
           /\ (l * n + (l - 1)) + 1 = l * (n + 1) + (1 - 1)
           /\ l * n \in Nat
OBVIOUS

LEMMA AccountCount ==
    ASSUME DemoInv, CountInv, NEW w \in Thread, Account(w)
    PROVE  CountInv' /\ UNCHANGED done
<1> DEFINE l == Len(Route[w])
<1>1. /\ w \in Task /\ l \in Nat /\ idx[w] \in 1 .. l /\ idx \in [Task -> Nat]
      /\ wpc \in [Task -> {"poll", "call", "request", "wait", "cs", "stats", "end", "exit"}]
      /\ progress \in [Task -> Nat] /\ ops \in [Task -> Nat] /\ TARGET_ITERATIONS \in Nat
    BY ThreadIsTask, Routes, DemoAssumption DEF DemoInv, WorkInv, WorkType, CountInv, ProgType
<1>2. wpc[w] = "stats" /\ UNCHANGED <<phase, holder, queue, done>>
      /\ ops' = [ops EXCEPT ![w] = ops[w] + 1]
    BY <1>1 DEF Account, lockVars
<1>3. /\ progress[w] \in 0 .. TARGET_ITERATIONS /\ ops[w] = l * progress[w] + (idx[w] - 1)
      /\ progress[w] < TARGET_ITERATIONS /\ progress[w] \in Nat /\ idx[w] \in Nat /\ done[w] = FALSE
    BY <1>1, <1>2 DEF CountInv, ProgInv
<1>4. \E i, n \in Nat, to \in {"call", "end"} :
        /\ idx' = [idx EXCEPT ![w] = i] /\ progress' = [progress EXCEPT ![w] = n]
        /\ wpc' = [wpc EXCEPT ![w] = to]
        /\ n \in 0 .. TARGET_ITERATIONS
        /\ ops[w] + 1 = l * n + (i - 1)
        /\ to = "call" => n < TARGET_ITERATIONS
        /\ to = "end" => n = TARGET_ITERATIONS /\ i = 1
    <2> HIDE DEF l
    <2>1. CASE /\ idx[w] < l /\ idx' = [idx EXCEPT ![w] = idx[w] + 1]
               /\ wpc' = [wpc EXCEPT ![w] = "call"] /\ progress' = progress
        <3>1. ops[w] + 1 = l * progress[w] + ((idx[w] + 1) - 1)
            BY <1>1, <1>3, RouteSum
        <3>2. progress' = [progress EXCEPT ![w] = progress[w]] /\ idx[w] + 1 \in Nat
            BY <1>1, <1>3, <2>1
        <3> QED
            BY <1>3, <2>1, <3>1, <3>2
    <2>2. CASE /\ idx[w] = l /\ idx' = [idx EXCEPT ![w] = 1]
               /\ wpc' = [wpc EXCEPT ![w] = IF MoreIterations(w) THEN "call" ELSE "end"]
               /\ progress' = [progress EXCEPT ![w] = progress[w] + 1]
        <3>1. ops[w] + 1 = l * (progress[w] + 1) + (1 - 1)
            BY <1>1, <1>3, <2>2, RouteSum
        <3>2. progress[w] + 1 \in 0 .. TARGET_ITERATIONS /\ progress[w] + 1 \in Nat
            BY <1>1, <1>3
        <3>3. CASE MoreIterations(w)
            BY <2>2, <3>1, <3>2, <3>3 DEF MoreIterations
        <3>4. CASE ~MoreIterations(w)
            <4>1. progress[w] + 1 = TARGET_ITERATIONS
                BY <1>1, <1>3, <3>4 DEF MoreIterations
            <4> QED
                BY <2>2, <3>1, <3>2, <3>4, <4>1
        <3> QED
            BY <3>3, <3>4
    <2> QED
        BY <1>1, <2>1, <2>2 DEF Account, l
<1>5. PICK i, n \in Nat, to \in {"call", "end"} :
        /\ idx' = [idx EXCEPT ![w] = i] /\ progress' = [progress EXCEPT ![w] = n]
        /\ wpc' = [wpc EXCEPT ![w] = to]
        /\ n \in 0 .. TARGET_ITERATIONS
        /\ ops[w] + 1 = l * n + (i - 1)
        /\ to = "call" => n < TARGET_ITERATIONS
        /\ to = "end" => n = TARGET_ITERATIONS /\ i = 1
    BY <1>4
<1>6. ProgType' /\ WaitInv'
    BY <1>1, <1>2, <1>5 DEF CountInv, ProgType, WaitInv
<1>7. ProgInv'
    <2> SUFFICES ASSUME NEW v \in Task
                 PROVE  /\ progress'[v] \in 0 .. TARGET_ITERATIONS
                        /\ ops'[v] = Len(Route[v]) * progress'[v] + (idx'[v] - 1)
                        /\ wpc'[v] \notin {"end", "exit"} => progress'[v] < TARGET_ITERATIONS
                        /\ wpc'[v] \in {"end", "exit"} => progress'[v] = TARGET_ITERATIONS /\ idx'[v] = 1
                        /\ done'[v] = (wpc'[v] = "exit")
        BY DEF ProgInv
    <2>1. CASE v = w
        <3>1. /\ progress'[w] = n /\ ops'[w] = ops[w] + 1 /\ idx'[w] = i /\ wpc'[w] = to
              /\ done'[w] = FALSE /\ to # "exit"
            BY <1>1, <1>2, <1>3, <1>5
        <3>2. done'[w] = (to = "exit")
            BY <3>1
        <3> QED
            BY <1>5, <2>1, <3>1, <3>2
    <2>2. CASE v # w
        <3>1. progress'[v] = progress[v] /\ ops'[v] = ops[v] /\ idx'[v] = idx[v]
              /\ wpc'[v] = wpc[v] /\ done'[v] = done[v]
            BY <1>1, <1>2, <1>5, <2>2
        <3> QED
            BY <3>1 DEF CountInv, ProgInv
    <2> QED
        BY <2>1, <2>2
<1>8. QueueInv'
    <2>1. \A v \in Task : wpc[v] \in {"wait", "cs"} => wpc'[v] = wpc[v] /\ idx'[v] = idx[v]
        BY <1>1, <1>2, <1>5
    <2>2. \A r \in Res : queue[r] \in Seq(Task) /\ holder[r] \in Task \cup {Null}
        BY DEF CountInv, ProgType, DemoInv, WorkInv, WorkType
    <2> QED
        BY <1>2, <2>1, <2>2 DEF CountInv, QueueInv, Resource
<1> QED
    BY <1>2, <1>6, <1>7, <1>8 DEF CountInv

\* A step of a worker.
LEMMA WorkerCount ==
    ASSUME DemoInv, CountInv, WatchInv, ClockInv, NEW w \in Thread, worker_entry(w)
    PROVE  CountInv' /\ WatchInv' /\ ClockInv'
<1>1. CountInv' /\ \A v \in Thread : done[v] => done'[v]
    <2>1. CASE Start(w) \/ SetSpin(w) \/ Exit(w)
        BY <2>1, OutsideCount
    <2>2. CASE Request(w)
        BY <2>2, RequestCount
    <2>3. CASE Queue(w)
        BY <2>3, JoinCount, WithdrawCount DEF Queue
    <2>4. CASE Grant(w)
        BY <2>4, GrantCount
    <2>5. CASE Unlock(w)
        BY <2>5, UnlockCount
    <2>6. CASE Account(w)
        BY <2>6, AccountCount
    <2> QED
        BY <2>1, <2>2, <2>3, <2>4, <2>5, <2>6 DEF worker_entry
<1>2. /\ UNCHANGED mainVars /\ UNCHANGED now
      /\ last_seen' = last_seen \/ last_seen' = [last_seen EXCEPT ![w] = now]
    BY DEF worker_entry, Start, SetSpin, Request, Queue, Grant, Unlock, Account, Exit, heartbeat,
           workVars
<1>3. WatchInv'
    BY <1>1, <1>2, WatchFrame
<1>4. ClockInv'
    BY <1>2, ThreadIsTask DEF ClockInv, mainVars
<1> QED
    BY <1>1, <1>3, <1>4

\* The end of a round of the watchdog: everybody before the worker it looked at,
\* and that worker, were done.
LEMMA AdvanceWatch ==
    ASSUME WatchInv, mpc \in {"done", "last"}, Advance, UNCHANGED <<done, real_deadlocks>>,
           all_done' => all_done /\ mpc = "done" /\ done[Worker[scan]]
    PROVE  WatchInv'
<1>1. scan \in 1 .. Len(Worker) /\ Len(Worker) \in Nat
    BY Workers DEF WatchInv
<1>2. all_done' => \A i \in 1 .. Len(Worker) : i < scan + 1 => done[Worker[i]]
    <2>1. \A i \in 1 .. Len(Worker) : i < scan + 1 => i < scan \/ i = scan
        BY <1>1
    <2> QED
        BY <2>1 DEF WatchInv
<1>3. CASE scan < Len(Worker)
    <2>1. scan' = scan + 1 /\ mpc' = "done" /\ scan + 1 \in 1 .. Len(Worker)
        BY <1>1, <1>3 DEF Advance
    <2> QED
        BY <1>2, <2>1 DEF WatchInv
<1>4. CASE ~(scan < Len(Worker))
    <2>1. scan' = 0 /\ mpc' = "sleep"
        BY <1>4 DEF Advance
    <2>2. \A i \in 1 .. Len(Worker) : i < scan + 1
        BY <1>1, <1>4
    <2>3. all_done' => \A w \in Thread : done[w]
        BY <1>2, <2>2, Workers
    <2> QED
        BY <2>1, <2>3 DEF WatchInv
<1> QED
    BY <1>3, <1>4

\* A step of the main thread.
LEMMA MainWatch ==
    ASSUME DemoInv, CountInv, WatchInv, ClockInv, frapdemo_main
    PROVE  WatchInv' /\ ClockInv'
<1>1. UNCHANGED <<wpc, progress, done, last_seen, now>> /\ cur' \in {cur, now}
    BY DEF frapdemo_main, Load, StartGun, Sample, CheckDone, CheckLast, Sleep, Summary, workVars
<1>2. ClockInv'
    BY <1>1 DEF ClockInv
<1> SUFFICES WatchInv'
    BY <1>2
<1>3. CASE Load \/ StartGun \/ Sample
    <2>1. CASE Load
        BY <1>1, <2>1 DEF Load, WatchInv
    <2>2. CASE StartGun
        BY <1>1, <2>2 DEF StartGun, WatchInv
    <2>3. CASE Sample
        <3>1. mpc' = "done" /\ scan' = 1
            BY <2>3 DEF Sample
        <3> QED
            BY <3>1, Workers DEF WatchInv
    <2> QED
        BY <1>3, <2>1, <2>2, <2>3
<1>4. CASE CheckDone
    <2>1. CASE done[Worker[scan]]
        BY <1>1, <1>4, <2>1, AdvanceWatch DEF CheckDone
    <2>2. CASE ~done[Worker[scan]]
        <3>1. mpc = "done" /\ mpc' = "last" /\ all_done' = FALSE /\ scan' = scan
            BY <1>4, <2>2 DEF CheckDone
        <3> QED
            BY <3>1 DEF WatchInv
    <2> QED
        BY <2>1, <2>2
<1>5. CASE CheckLast
    <2>1. mpc = "last" /\ Advance /\ UNCHANGED <<all_done, real_deadlocks>>
        BY <1>5 DEF CheckLast
    <2>2. ~all_done
        BY <2>1 DEF WatchInv
    <2> QED
        BY <1>1, <2>1, <2>2, AdvanceWatch
<1>6. CASE Sleep
    BY <1>1, <1>6 DEF Sleep, WatchInv
<1>7. CASE Summary
    <2>1. /\ mpc = "summary" /\ mpc' = "join" /\ scan' = scan
          /\ real_deadlocks' = Cardinality({w \in Thread : ~done[w] \/ progress[w] < TARGET_ITERATIONS})
        BY <1>7 DEF Summary
    <2>2. \A w \in Thread : done[w] /\ progress[w] = TARGET_ITERATIONS
        BY <2>1, ThreadIsTask DEF WatchInv, CountInv, ProgInv
    <2>3. {w \in Thread : ~done[w] \/ progress[w] < TARGET_ITERATIONS} = {}
        BY <2>2, DemoAssumption
    <2>4. real_deadlocks' = 0
        BY <2>1, <2>3, FS_EmptySet
    <2> QED
        BY <1>1, <2>1, <2>4 DEF WatchInv
<1> QED
    BY <1>3, <1>4, <1>5, <1>6, <1>7 DEF frapdemo_main

\* Every step of the demo preserves the full invariant.
LEMMA FullStep == FullInv /\ [Next]_vars => FullInv'
<1> SUFFICES ASSUME FullInv, [Next]_vars PROVE FullInv'
    OBVIOUS
<1>0. DemoInv /\ CountInv /\ WatchInv /\ ClockInv /\ DemoInv'
    BY DemoStep DEF FullInv
<1>1. CASE GenNext /\ UNCHANGED <<lockVars, workVars, mainVars, now>>
    <2>1. CountInv'
        BY <1>0, <1>1, CountFrame
    <2>2. WatchInv' /\ ClockInv'
        BY <1>0, <1>1, WatchFrame DEF ClockInv, workVars, mainVars
    <2> QED
        BY <1>0, <2>1, <2>2 DEF FullInv
<1>2. CASE \E w \in Thread : worker_entry(w)
    BY <1>0, <1>2, WorkerCount DEF FullInv
<1>3. CASE frapdemo_main
    <2>1. UNCHANGED <<lockVars, workVars>>
        BY <1>0, <1>3, MainStep DEF DemoInv
    <2> QED
        BY <1>0, <1>3, <2>1, CountFrame, MainWatch DEF FullInv
<1>4. CASE Tick \/ UNCHANGED vars
    <2>1. UNCHANGED <<lockVars, workVars, mainVars>> /\ (now' = now \/ now' = now + 1)
        BY <1>4 DEF Tick, vars
    <2>2. WatchInv'
        BY <1>0, <2>1, WatchFrame DEF workVars
    <2>3. ClockInv'
        BY <1>0, <2>1 DEF ClockInv, workVars, mainVars
    <2> QED
        BY <1>0, <2>1, <2>2, <2>3, CountFrame DEF FullInv
<1> QED
    BY <1>1, <1>2, <1>3, <1>4 DEF Next

\* The full invariant of the demo: the table, the lock, the counts of the
\* workers, the watchdog's round and the clock.
THEOREM FullInvHolds == Spec => []FullInv
<1>1. Init => FullInv
    BY FullInit
<1>2. FullInv /\ [Next]_vars => FullInv'
    BY FullStep
<1> QED
    BY <1>1, <1>2, PTL DEF Spec

\* The operations done lie between those of the iterations finished and those of
\* the iteration under way.
LEMMA RouteBounds ==
    ASSUME NEW l \in Nat, NEW n \in Nat, NEW i \in 1 .. l
    PROVE  l * n + (i - 1) \in l * n .. l * (n + 1)
<1>1. l * n \in Nat /\ l * (n + 1) = l * n + l /\ i - 1 \in 0 .. l
    OBVIOUS
<1>2. \A m \in Nat : \A k \in 0 .. l : m + k \in m .. m + l
    OBVIOUS
<1> QED
    BY <1>1, <1>2

\* The types of the demo's variables: in particular a worker's operation count
\* agrees with its iteration count at every point of worker_entry().
THEOREM DemoTypeCorrect == Spec => []TypeOK
<1>1. FullInv => TypeOK
    <2> SUFFICES ASSUME FullInv PROVE TypeOK
        OBVIOUS
    <2>1. GenTypeOK /\ WatchInv /\ ProgInv /\ WorkType
        BY DEF FullInv, DemoInv, MainInv, WorkInv, CountInv, GenInv
    <2>2. \A w \in Thread : /\ idx[w] \in 1 .. Len(Route[w])
                            /\ progress[w] \in 0 .. TARGET_ITERATIONS
                            /\ ops[w] \in Len(Route[w]) * progress[w] .. Len(Route[w]) * (progress[w] + 1)
        <3> SUFFICES ASSUME NEW w \in Task
                     PROVE  /\ idx[w] \in 1 .. Len(Route[w])
                            /\ progress[w] \in 0 .. TARGET_ITERATIONS
                            /\ ops[w] \in Len(Route[w]) * progress[w] .. Len(Route[w]) * (progress[w] + 1)
            BY ThreadIsTask
        <3>1. /\ idx[w] \in 1 .. Len(Route[w]) /\ progress[w] \in 0 .. TARGET_ITERATIONS
              /\ ops[w] = Len(Route[w]) * progress[w] + (idx[w] - 1)
            BY <2>1 DEF WorkType, ProgInv
        <3>2. progress[w] \in Nat /\ Len(Route[w]) \in Nat
            BY <3>1, Routes, DemoAssumption
        <3> QED
            BY <3>1, <3>2, RouteBounds
    <2>3. scan \in DOMAIN Worker \cup {0}
        BY <2>1, Workers DEF WatchInv
    <2>4. loaded \in [Task -> [Res -> 0 .. 255]]
        <3>1. CASE mpc = "load"
            BY <2>1, <3>1 DEF WatchInv
        <3>2. CASE mpc # "load"
            <4>1. loaded = load_frap_table
                BY <3>2 DEF FullInv, DemoInv, MainInv, TableLoaded
            <4>2. \A w \in Task, r \in Res :
                    (IF <<w, r>> \in Key THEN Pcfg[<<w, r>>] ELSE 0) \in 0 .. 255
                BY <2>1 DEF GenTypeOK
            <4> QED
                BY <4>1, <4>2 DEF load_frap_table
        <3> QED
            BY <3>1, <3>2
    <2> QED
        BY <2>1, <2>2, <2>3, <2>4 DEF TypeOK, WorkType, WatchInv
<1> QED
    BY <1>1, FullInvHolds, PTL

\* The summary that frapdemo_main() prints is right: once it has seen every
\* worker done, no deadlock is counted, every operation was made and the lock is
\* idle.
THEOREM SummaryHonestHolds == Spec => []SummaryHonest
<1>1. FullInv => SummaryHonest
    <2> SUFFICES ASSUME FullInv, mpc = "join"
                 PROVE  /\ real_deadlocks = 0
                        /\ \A w \in Thread : ops[w] = TARGET_ITERATIONS * Len(Route[w])
                        /\ \A r \in Res : holder[r] = Null /\ queue[r] = << >>
        BY DEF SummaryHonest
    <2>1. real_deadlocks = 0 /\ \A w \in Thread : done[w]
        BY DEF FullInv, WatchInv
    <2>2. \A w \in Thread : wpc[w] = "exit"
        BY <2>1, ThreadIsTask DEF FullInv, CountInv, ProgInv
    <2>3. ASSUME NEW w \in Thread
          PROVE  ops[w] = TARGET_ITERATIONS * Len(Route[w])
        <3>1. /\ w \in Task /\ ops[w] = Len(Route[w]) * progress[w] + (idx[w] - 1)
              /\ progress[w] = TARGET_ITERATIONS /\ idx[w] = 1
            BY <2>2, ThreadIsTask DEF FullInv, CountInv, ProgInv
        <3>2. \A l, n \in Nat : l * n + (1 - 1) = n * l
            OBVIOUS
        <3> QED
            BY <3>1, <3>2, Routes, DemoAssumption
    <2>4. \A w \in Task : wpc[w] \notin {"wait", "cs"}
        BY <2>2 DEF FullInv, CountInv, WaitInv
    <2>5. ASSUME NEW r \in Res
          PROVE  holder[r] = Null /\ queue[r] = << >>
        <3>1. holder[r] \in Task \cup {Null} /\ queue[r] \in Seq(Task)
            BY DEF FullInv, CountInv, ProgType, DemoInv, WorkInv, WorkType
        <3>2. holder[r] = Null
            BY <2>4, <3>1 DEF FullInv, CountInv, QueueInv
        <3>3. \A i \in 1 .. Len(queue[r]) : FALSE
            BY <2>4, <3>1 DEF FullInv, CountInv, QueueInv
        <3> QED
            BY <3>1, <3>2, <3>3
    <2> QED
        BY <2>1, <2>3, <2>5
<1> QED
    BY <1>1, FullInvHolds, PTL

\* The watchdog raises no false alarm: when it reports a worker, the worker has
\* been silent for longer than the threshold at that very moment, although cur
\* was read earlier and the worker may have reported in between.
THEOREM NoFalseAlarmHolds == Spec => NoFalseAlarm
<1>1. FullInv /\ [Next]_vars =>
        [\A w \in reported' \ reported : now - last_seen[w] > Threshold]_vars
    <2> SUFFICES ASSUME FullInv, Next, NEW w \in reported' \ reported
                 PROVE  now - last_seen[w] > Threshold
        OBVIOUS
    <2>1. CheckLast
        BY DEF Next, worker_entry, Start, SetSpin, Request, Queue, Grant, Unlock, Account, Exit,
               frapdemo_main, Load, StartGun, Sample, CheckDone, Sleep, Summary, Tick, mainVars, vars
    <2>2. w = Worker[scan] /\ Silence(last_seen[w]) > Threshold /\ mpc = "last"
        BY <2>1 DEF CheckLast
    <2>3. w \in Task
        BY <2>2, Workers DEF FullInv, WatchInv
    <2>4. last_seen[w] \in Nat /\ now \in Nat /\ cur \in Nat /\ cur <= now /\ Threshold \in Nat
        BY <2>3, DemoAssumption DEF FullInv, ClockInv
    <2> QED
        BY <2>2, <2>4 DEF Silence
<1> QED
    BY <1>1, FullInvHolds, PTL DEF Spec, NoFalseAlarm

=============================================================================
