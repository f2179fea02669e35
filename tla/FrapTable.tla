------------------------------ MODULE FrapTable ------------------------------
(***************************************************************************)
(* The spin priority table generator, frap_table_generator.py: an initial  *)
(* guess for every (task, resource) it requests, then, for the tasks of    *)
(* each CPU from the most to the least urgent, a search that lowers the    *)
(* spin priorities of less urgent tasks of the same CPU until the blocking *)
(* bound of the task fits its slack or no candidate is left.               *)
(*                                                                         *)
(* The schedulability arithmetic (phi, Psi, the slack) only selects        *)
(* branches: the model takes either outcome at each test.                  *)
(***************************************************************************)
EXTENDS Integers, FiniteSets

CONSTANTS
    Task, Res,  \* the tasks and resources of the configuration
    Null,
    P,          \* P[t]: the base priority of t
    CpuOf,      \* CpuOf[t]: the CPU of t
    Req,        \* Req[t]: the resources t requests
    P_HIGH      \* the highest base priority, max of all P

ASSUME TableAssumption ==
    /\ Null \notin Task
    /\ P \in [Task -> 1 .. 255]
    /\ Req \in [Task -> SUBSET Res]
    /\ P_HIGH \in 1 .. 255
    /\ \A t \in Task : P[t] <= P_HIGH

VARIABLES
    Pcfg,       \* Pcfg[t, r]: the spin priority of t on r
    todo,       \* the tasks not yet analysed
    task_i,     \* the task being analysed, or Null
    Fstar,      \* the resources its search may still lower
    exhausted   \* the tasks whose search went on until Fstar was empty

genVars == <<Pcfg, todo, task_i, Fstar, exhausted>>

Key == {k \in Task \X Res : k[2] \in Req[k[1]]}

GenTypeOK ==
    /\ Pcfg \in [Key -> 0 .. 255]
    /\ todo \subseteq Task /\ task_i \in todo \cup {Null}
    /\ Fstar \subseteq Res
    /\ exhausted \subseteq Task \ todo

\* The initial table: the base priority where the local demand dominates that of
\* every other CPU, the highest priority elsewhere.
GenInit ==
    /\ \E ok_all \in [Key -> BOOLEAN] :
          Pcfg = [k \in Key |-> IF ok_all[k] THEN P[k[1]] ELSE P_HIGH]
    /\ todo = Task
    /\ task_i = Null
    /\ Fstar = {}
    /\ exhausted = {}

\* Variant with a bug: every other task of the CPU counts as less urgent.
local_lp_Others(t) == {u \in Task \ {t} : CpuOf[u] = CpuOf[t]}

local_lp(t) == {u \in Task : CpuOf[u] = CpuOf[t] /\ P[u] < P[t]}

\* One CPU after the other.
CpuBegun(c) == (\E u \in todo : CpuOf[u] = c) /\ (\E u \in Task \ todo : CpuOf[u] = c)

\* Variant with a bug: ascending order.
IsNext_Ascending(t) ==
    /\ t \in todo
    /\ \A u \in todo : CpuOf[u] = CpuOf[t] => P[u] >= P[t]
    /\ \A u \in todo : CpuBegun(CpuOf[u]) => CpuOf[u] = CpuOf[t]

\* "sorted(tasks_by_cpu[cpu], key=P, reverse=True)"
IsNext(t) ==
    /\ t \in todo
    /\ \A u \in todo : CpuOf[u] = CpuOf[t] => P[u] <= P[t]
    /\ \A u \in todo : CpuBegun(CpuOf[u]) => CpuOf[u] = CpuOf[t]

\* Fstar: what less urgent tasks of the CPU request and spin for at P_i or above.
BeginTask(t) ==
    /\ task_i = Null
    /\ IsNext(t)
    /\ task_i' = t
    /\ Fstar' = {r \in Res : \E l \in local_lp(t) : r \in Req[l] /\ Pcfg[<<l, r>>] >= P[t]}
    /\ UNCHANGED <<Pcfg, todo, exhausted>>

\* "Psi_val > Si": best_r is lowered for every less urgent task that requests it.
LowerBest(best_r) ==
    /\ task_i # Null
    /\ best_r \in Fstar
    /\ Pcfg' = [k \in Key |-> IF k[1] \in local_lp(task_i) /\ k[2] = best_r
                              THEN P[task_i] - 1 ELSE Pcfg[k]]
    /\ Fstar' = Fstar \ {best_r}
    /\ UNCHANGED <<todo, task_i, exhausted>>

\* "Psi_val <= Si or not Fstar".
EndTask ==
    /\ task_i # Null
    /\ todo' = todo \ {task_i}
    /\ exhausted' = IF Fstar = {} THEN exhausted \cup {task_i} ELSE exhausted
    /\ task_i' = Null
    /\ Fstar' = {}
    /\ UNCHANGED Pcfg

GenNext ==
    \/ \E t \in Task : BeginTask(t)
    \/ \E r \in Res : LowerBest(r)
    \/ EndTask

GenSpec == GenInit /\ [][GenNext]_genVars

-----------------------------------------------------------------------------
\* Every entry lies between the base priority of its task, below which
\* frap_lock() rejects the call, and the highest base priority, above which a
\* spinning task would delay everybody.
SpinInRange ==
    \A k \in Key : P[k[1]] <= Pcfg[k] /\ Pcfg[k] <= P_HIGH

\* A task whose search used up its candidates is never delayed by a less urgent
\* task of its CPU that spins, also after the searches for the tasks below it
\* have rewritten the same entries.
UrgentProtected ==
    \A t \in exhausted : \A l \in local_lp(t) : \A r \in Req[l] : Pcfg[<<l, r>>] < P[t]

=============================================================================
