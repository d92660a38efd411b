------------------------- MODULE MCStartupRecovery -------------------------
(* StartupRecovery with interchangeable serve processes and two tasks.       *)
EXTENDS StartupRecovery, TLC

CONSTANTS t1, t2

ProcessSymmetry == Permutations(Processes)
TwoTasks == <<t1, t2>>
=============================================================================
