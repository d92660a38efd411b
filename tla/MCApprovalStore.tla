-------------------------- MODULE MCApprovalStore --------------------------
(* ApprovalStore with two approvals and two confirmations, all four under    *)
(* the same idempotency key.                                                 *)
EXTENDS ApprovalStore, TLC

SameKey == [r \in Approvals \cup Confirmations |-> CHOOSE k \in Keys : TRUE]
WorkerSymmetry == Permutations(Workers)
=============================================================================
