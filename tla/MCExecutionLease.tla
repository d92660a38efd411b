-------------------------- MODULE MCExecutionLease --------------------------
(***************************************************************************)
(* ExecutionLease with three lease identities, two clients and two runs:   *)
(* enough for an execution lease to expire, be recovered, expire again     *)
(* under recovery and be followed by other work.  The mutants are the      *)
(* plausible slips the properties are meant to catch.                      *)
(***************************************************************************)
EXTENDS ExecutionLease, TLC

LeaseSymmetry ==
  Permutations(LeaseIds) \cup Permutations(Clients) \cup Permutations(Runs)
=============================================================================
