------------------------------- MODULE MCNxSem -------------------------------
(* Small instances of NxSem: three tasks of different priorities share the *)
(* mutex m, the pool p and the event e.                                    *)
EXTENDS NxSem

CONSTANTS a, b, c, m, p, e

MCValue == [s \in Counting |-> IF s = p THEN 1 ELSE 0]
MCPrio == [t \in Task |-> CASE t = a -> 1 [] t = b -> 2 [] t = c -> 3]
MCCalls == [t \in Task |-> IF t = a THEN 2 ELSE 1]

=============================================================================
