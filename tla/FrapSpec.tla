------------------------------ MODULE FrapSpec ------------------------------
(***************************************************************************)
(* What FRAP promises the tasks that share a resource, with no CPU,        *)
(* priority or preemption in sight: a resource has at most one holder, it  *)
(* is granted to a task that finds nobody waiting or to the waiter at the  *)
(* head of its queue, a waiter joins at the tail, and a waiter may be made *)
(* to withdraw (cancel-on-preempt), which costs it its place.              *)
(***************************************************************************)
EXTENDS Naturals, Sequences

CONSTANTS Task, Res, Null

VARIABLES
    phase,      \* phase[t]: out, waiting for req[t], or holding req[t]
    req,        \* req[t]: the resource t asked for, Null when out
    holder,     \* holder[r]: the task that holds r, or Null
    queue       \* queue[r]: the waiters of r in the order they joined

vars == <<phase, req, holder, queue>>

Init ==
    /\ phase = [t \in Task |-> "out"]
    /\ req = [t \in Task |-> Null]
    /\ holder = [r \in Res |-> Null]
    /\ queue = [r \in Res |-> <<>>]

Queued(t, r) == \E i \in 1 .. Len(queue[r]) : queue[r][i] = t

\* s without its k-th element.
Without(s, k) == [i \in 1 .. Len(s) - 1 |-> IF i < k THEN s[i] ELSE s[i + 1]]

Request(t, r) ==
    /\ phase[t] = "out"
    /\ phase' = [phase EXCEPT ![t] = "waiting"]
    /\ req' = [req EXCEPT ![t] = r]
    /\ UNCHANGED <<holder, queue>>

\* A task joins only a resource it could not have been granted at once.
Join(t, r) ==
    /\ phase[t] = "waiting" /\ req[t] = r
    /\ ~Queued(t, r)
    /\ holder[r] # Null \/ queue[r] # <<>>
    /\ queue' = [queue EXCEPT ![r] = Append(@, t)]
    /\ UNCHANGED <<phase, req, holder>>

Withdraw(t, r) ==
    /\ phase[t] = "waiting" /\ req[t] = r
    /\ \E k \in 1 .. Len(queue[r]) :
          queue[r][k] = t /\ queue' = [queue EXCEPT ![r] = Without(@, k)]
    /\ UNCHANGED <<phase, req, holder>>

\* Granted to a task that finds no waiter, or to the head of the queue.
Grant(t, r) ==
    /\ phase[t] = "waiting" /\ req[t] = r
    /\ holder[r] = Null
    /\ \/ queue[r] = <<>> /\ UNCHANGED queue
       \/ /\ queue[r] # <<>>
          /\ Head(queue[r]) = t
          /\ queue' = [queue EXCEPT ![r] = Tail(@)]
    /\ holder' = [holder EXCEPT ![r] = t]
    /\ phase' = [phase EXCEPT ![t] = "holding"]
    /\ UNCHANGED req

Release(t, r) ==
    /\ phase[t] = "holding" /\ req[t] = r
    /\ holder[r] = t
    /\ holder' = [holder EXCEPT ![r] = Null]
    /\ phase' = [phase EXCEPT ![t] = "out"]
    /\ req' = [req EXCEPT ![t] = Null]
    /\ UNCHANGED queue

Next ==
    \E t \in Task, r \in Res :
        \/ Request(t, r)
        \/ Join(t, r)
        \/ Withdraw(t, r)
        \/ Grant(t, r)
        \/ Release(t, r)

Spec == Init /\ [][Next]_vars

=============================================================================
