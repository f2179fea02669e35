------------------------------- MODULE NxTask -------------------------------
(***************************************************************************)
(* What the protocol and the scheduler both speak of: struct tcb_s         *)
(* pointers.                                                               *)
(***************************************************************************)

CONSTANTS
    Task,       \* the tasks, without the per-CPU idle tasks
    Null        \* the NULL pointer; as the task of a CPU, its idle task

=============================================================================
