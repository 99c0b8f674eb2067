---------------------------- MODULE ParallelFor ----------------------------
(***************************************************************************)
(* What core/src/cpu/pool.rs promises its callers (its module comment and  *)
(* the comment of Pool::run): a run hands out a set of tasks, each task is *)
(* taken by exactly one thread of the pool, and the run returns only when  *)
(* every task it handed out has finished.                                  *)
(***************************************************************************)
EXTENDS Naturals

CONSTANTS
    Threads,    \* the pool's threads, the caller's among them
    Sizes       \* how many tasks a run may have

VARIABLES
    phase,      \* "idle", "running" or "closed"
    todo,       \* the tasks of the run that no thread has taken
    busy        \* the tasks each thread has taken and not finished

vars == <<phase, todo, busy>>

TypeOK ==
    /\ phase \in {"idle", "running", "closed"}
    /\ \A i \in todo : i \in Nat
    /\ DOMAIN busy = Threads

Init ==
    /\ phase = "idle"
    /\ todo = {}
    /\ busy = [t \in Threads |-> {}]

Start(n) ==
    /\ phase = "idle"
    /\ phase' = "running"
    /\ todo' = 0 .. (n - 1)
    /\ UNCHANGED busy

\* A thread takes some of the tasks nobody has taken.
Take(t) ==
    /\ phase = "running"
    /\ busy[t] = {}
    /\ \E S \in SUBSET todo :
          /\ S # {}
          /\ todo' = todo \ S
          /\ busy' = [busy EXCEPT ![t] = S]
    /\ UNCHANGED phase

Finish(t) ==
    /\ phase = "running"
    /\ busy[t] # {}
    /\ busy' = [busy EXCEPT ![t] = {}]
    /\ UNCHANGED <<phase, todo>>

Return ==
    /\ phase = "running"
    /\ todo = {}
    /\ \A t \in Threads : busy[t] = {}
    /\ phase' = "idle"
    /\ UNCHANGED <<todo, busy>>

Close ==
    /\ phase = "idle"
    /\ phase' = "closed"
    /\ UNCHANGED <<todo, busy>>

Next ==
    \/ \E n \in Sizes : Start(n)
    \/ \E t \in Threads : Take(t) \/ Finish(t)
    \/ Return
    \/ Close

Spec == Init /\ [][Next]_vars
=============================================================================
