---------------------------- MODULE MCFrapLocal -----------------------------
(* Small instances of FrapLocal: a and b on CPU 0 share the local resource *)
(* q, x on CPU 1 shares the global resource g with a, and m on CPU 0 takes *)
(* no lock and outranks everybody.                                         *)
EXTENDS FrapLocal

CONSTANTS a, b, m, x, g, q

MCGlobal == [r \in Res |-> r = g]
MCAffinity == [t \in Task |-> IF t = x THEN {1} ELSE {0}]
MCBase == [t \in Task |-> CASE t = m -> 9 [] t = b -> 3 [] OTHER -> 1]
MCSpin == [t \in Task |-> [r \in Res |-> 2]]
MCLocks == [t \in Task |-> IF t \in {a, x} THEN 1 ELSE 0]
MCWakes == [t \in Task |-> IF t = m THEN 2 ELSE 1]
MCLocalRes == [t \in Task |-> CASE t = a -> {q} [] t = b -> {q, g} [] OTHER -> {}]
MCCalls == [t \in Task |-> IF t \in {a, b} THEN 1 ELSE 0]

(* The ceiling above every user of the resource, and at the highest one.   *)
Above == [r \in Res |-> 4]
Highest == [r \in Res |-> 3]

=============================================================================
