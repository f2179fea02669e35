----------------------------- MODULE MCFrapSmp ------------------------------
(* Small instances of FrapSmp on two CPUs.                                 *)
EXTENDS FrapSmp

CONSTANTS a, b, m, x, r1

MCGlobal == [r \in Res |-> TRUE]

(* The distinct instance: a (spin 2) and b (base 3, spin 4) on CPU 0, x on *)
(* CPU 1, and m, which takes no lock and outranks everybody, on CPU 0: the *)
(* demo's watchdog.  b preempts a's spin; m preempts any spin.             *)
PinnedAff == [t \in Task |-> IF t = x THEN {1} ELSE {0}]
DistinctBase == [t \in Task |-> CASE t = m -> 9 [] t = b -> 3 [] OTHER -> 1]
DistinctSpin == [t \in Task |-> [r \in Res |-> CASE t = m -> 0 [] t = b -> 4 [] OTHER -> 2]]
MCLocks == [t \in Task |-> IF t = m THEN 0 ELSE 1]
MCWakes == [t \in Task |-> IF t = m THEN 2 ELSE 1]

(* The equal instance: a and b are the demo's god_0 and god_2, with base   *)
(* and spin priority equal and the same on CPU 0; x stands for god_1 on    *)
(* CPU 1.                                                                  *)
EqualBase == [t \in Task |-> IF t = m THEN 9 ELSE 2]
EqualSpin == [t \in Task |-> [r \in Res |-> IF t = m THEN 0 ELSE 2]]

(* The migrating instance: no task is pinned.                              *)
FreeLocks == [t \in Task |-> 1]
FreeWakes == [t \in Task |-> 1]
FreeAff == [t \in Task |-> Cpu]

=============================================================================
