----------------------------- MODULE AtomicApply -----------------------------
(***************************************************************************)
(* What an apply transaction promises about the repository, with all of    *)
(* its machinery hidden: it is applied only when the whole change set is   *)
(* in the target, rolled back only when none of it is, and once it has     *)
(* ended - in either way or by handing the case to the user - it does not  *)
(* touch the target again.                                                 *)
(***************************************************************************)
VARIABLES
  target,    \* how much of the change set is in the target
  outcome    \* what the transaction says about itself

Init == target = "before" /\ outcome = "open"

Work ==
  /\ outcome = "open"
  /\ target' \in {"before", "between", "after"}
  /\ UNCHANGED outcome

Commit == /\ outcome = "open" /\ target = "after"
          /\ outcome' = "applied" /\ UNCHANGED target

Abort  == /\ outcome = "open" /\ target = "before"
          /\ outcome' = "rolled back" /\ UNCHANGED target

Escalate == outcome = "open" /\ outcome' = "manual" /\ UNCHANGED target

Next == Work \/ Commit \/ Abort \/ Escalate

Spec == Init /\ [][Next]_<<target, outcome>>
=============================================================================
