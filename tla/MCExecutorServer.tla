-------------------------- MODULE MCExecutorServer --------------------------
(* ExecutorServer for TLC.                                                 *)
EXTENDS ExecutorServer

=============================================================================
