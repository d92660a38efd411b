-------------------------- MODULE MCTaskLifecycle --------------------------
(* TaskLifecycle with interchangeable commanders; RaceTriggers keeps the     *)
(* commands whose orders the plan approval and the terminal states are about.*)
EXTENDS TaskLifecycle, TLC

CommanderSymmetry == Permutations(Commanders)

RaceTriggers ==
    {"SUBMIT_TASK", "CONTINUE_INVESTIGATION", "PERSIST_PLAN", "APPROVE_PLAN",
     "REJECT_PLAN", "CONTINUE_EXECUTION", "REVISE_PLAN", "CANCEL_TASK",
     "FAIL_UNRECOVERABLY"}
=============================================================================
