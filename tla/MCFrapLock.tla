----------------------------- MODULE MCFrapLock -----------------------------
(***************************************************************************)
(* A small instance of FrapLock: a, h and k on CPU 0, x on CPU 1, two      *)
(* global resources.  No two tasks of a CPU share a priority level.  h     *)
(* preempts the spin of a on r1 and not on r2, k takes no lock and         *)
(* preempts every spin.  h has no entry for r2 in the spin priority table  *)
(* (zero), so its frap_lock() there answers EINVAL.                        *)
(***************************************************************************)
EXTENDS FrapLock

CONSTANTS a, h, k, x, r1, r2

MCCpu == {0, 1}
MCCpuOf == [t \in Task |-> IF t = x THEN 1 ELSE 0]
MCBase == [t \in Task |-> CASE t = k -> 9 [] t = h -> 3 [] OTHER -> 1]
MCSpin == [t \in Task |-> [r \in Res |->
    CASE t = k -> 0
      [] t = h -> IF r = r1 THEN 5 ELSE 0
      [] t = a -> IF r = r1 THEN 2 ELSE 4
      [] OTHER -> 2]]
MCGlobal == [r \in Res |-> TRUE]

(* The premise of OneSpinnerPerCpu.                                        *)
ASSUME DistinctLevels

=============================================================================
