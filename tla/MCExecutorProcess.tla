------------------------- MODULE MCExecutorProcess -------------------------
(* ExecutorProcess for TLC: the processes are interchangeable.             *)
EXTENDS ExecutorProcess, TLC

Symmetry == Permutations(Executors)

=============================================================================
