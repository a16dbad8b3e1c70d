----------------------------- MODULE Processes -----------------------------
(* The executor processes that run() of src/main.cpp is run by, on one     *)
(* socket path and one database file, and where each of them is.           *)
EXTENDS Integers, FiniteSets

CONSTANTS
    Executors,    \* the processes, each started once
    MaxRunning    \* how many the supervisor lets run at the same time

ASSUME ProcessesAssumption == IsFiniteSet(Executors) /\ MaxRunning \in Nat \ {0}

VARIABLES
    step,         \* where each process is in run()
    overlapped    \* history: the processes that did not run alone

Running == {p \in Executors : step[p] \notin {"not_started", "exited", "crashed"}}
Goto(p, s) == step' = [step EXCEPT ![p] = s] /\ UNCHANGED overlapped

\* The supervisor starts a process, at step s.
StartAt(p, s) ==
    /\ step[p] = "not_started" /\ Cardinality(Running) < MaxRunning
    /\ step' = [step EXCEPT ![p] = s]
    /\ overlapped' = IF Running = {} THEN overlapped ELSE overlapped \cup Running \cup {p}

=============================================================================
