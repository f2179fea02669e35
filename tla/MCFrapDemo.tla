----------------------------- MODULE MCFrapDemo ------------------------------
(* A small configuration of the demo: lo, mid and god share CPU 0, far is  *)
(* on CPU 1.  All have entries in the table; god and far have a worker.    *)
EXTENDS FrapDemo

CONSTANTS lo, mid, god, far, r1, r2

MCP == [t \in Task |-> CASE t = lo -> 1 [] t = mid -> 3 [] t = god -> 5 [] t = far -> 4]
MCCpu == [t \in Task |-> IF t = far THEN 1 ELSE 0]
MCReq == [t \in Task |-> IF t = god THEN {r1, r2} ELSE {r1}]
MCRoute == [t \in Task |-> IF t = god THEN <<r1, r2>> ELSE <<r1>>]
MCWorker == <<far, god>>

=============================================================================
