----------------------------- MODULE MCNxSched ------------------------------
(* Small instances of NxSchedSpec: two CPUs and three tasks, pinned or     *)
(* not, of which some are re-pinned later.                                 *)
EXTENDS NxSchedSpec

CONSTANTS t1, t2, t3

Pins == {{0}, {1}, {0, 1}}
Single == {{0}, {1}}

(* Tasks that are both, or neither, re-pinned are interchangeable.         *)
Interchangeable == Permutations(Task \ Movable) \cup Permutations(Movable)

=============================================================================
