---- MODULE MCRegistry ----
(***************************************************************************)
(* Bounded instances of Registry for TLC.                                  *)
(***************************************************************************)
EXTENDS Registry, TLC

Symmetry == Permutations(Callers)

\* The threads a behaviour can spawn: a worker or an actor per call.
MCThread == Callers \cup 1..(MaxCalls)

\* The operating system schedules every thread, an Admin call ends within its
\* timeout, and a thread that waits for an event runs once it is set.
Fairness == \A t \in MCThread : WF_vars(Step(t))

FairSpec == Spec /\ Fairness
====
