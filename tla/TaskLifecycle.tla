--------------------------- MODULE TaskLifecycle ---------------------------
(***************************************************************************)
(* The lifecycle of one task: the decision table of                        *)
(* domain/state_machine.py, and the optimistic commit of its decisions by  *)
(* transition_task of persistence/sqlite_store.py.                         *)
(*                                                                         *)
(* StateMachine.transition is pure: a commander reads the task's state and *)
(* plan version, asks it for a decision and only later commits the         *)
(* decision, with the state it read (and, if it passes one, the revision)  *)
(* as the expected value of the row.  Several commanders do this at once.  *)
(* No module of the repository joins the two halves yet: the commander is  *)
(* external, and so is the table in which it keeps idempotency records.    *)
(* transition_task commits on its own, so that a record is kept, if at     *)
(* all, in a later step than the transition it answers for.                *)
(*                                                                         *)
(* One idempotency key is followed (the "tracked" request): the client may *)
(* deliver it any number of times, to any commander.  All other commands   *)
(* carry keys that are used once.                                          *)
(***************************************************************************)
EXTENDS Integers, FiniteSets

CONSTANTS
    Commanders,         \* the threads that handle commands for the task
    NoCommand,          \* what a commander with nothing to commit holds
    CheckRevision,      \* does the commander pass expected_revision?
    Triggers,           \* the triggers of the commands (a bound)
    TrackedTriggers,    \* the triggers of the tracked request (a bound)
    BlockedInputs,      \* the blocked reasons commands carry (a bound)
    FailureInputs,      \* the failure reasons commands carry (a bound)
    MaxRevision,        \* bound on the revision of the task row
    MaxPlans            \* bound on the plan versions recorded

ASSUME RevisionAssumption == CheckRevision \in BOOLEAN
ASSUME BoundsAssumption == MaxRevision \in Nat /\ MaxPlans \in Nat

VARIABLES
    state,              \* tasks.state
    revision,           \* tasks.revision
    plan,               \* sequence of the latest plan version, 0 if none
    audit,              \* the newest transition row of audit_events
    pending,            \* pending[c]: the decision c has still to commit
    request,            \* the tracked request, once a client has sent it
    answered,           \* commanders that have its answer to keep
    recorded,           \* its IdempotencyRecord is kept
    approved,           \* history: the plan the last APPROVE_PLAN named
    applied             \* history: the revision its last commit led to, or 0

vars == <<state, revision, plan, audit, pending, request, answered, recorded,
          approved, applied>>

-----------------------------------------------------------------------------
(* domain/enums.py and the tables of domain/state_machine.py *)

TerminalStates == {"COMPLETED", "NOT_APPLIED", "FAILED", "CANCELLED"}

ActiveStates ==
    {"INVESTIGATING", "EXECUTING", "VERIFYING", "APPLYING", "ROLLING_BACK"}

TaskState ==
    ActiveStates \cup TerminalStates \cup
    {"DRAFT", "AWAITING_CLARIFICATION", "AWAITING_PLAN_APPROVAL",
     "READY_TO_EXECUTE", "AWAITING_ACTION_APPROVAL",
     "AWAITING_BUDGET_APPROVAL", "AWAITING_USER_CONFIRMATION",
     "READY_TO_APPLY", "RECOVERY_REQUIRED", "AWAITING_PROVIDER_UNLOCK",
     "BLOCKED"}

\* Rows <<state, trigger, target>>.
Transitions ==
    { <<"DRAFT", "SUBMIT_TASK", "INVESTIGATING">>,
      <<"INVESTIGATING", "REQUEST_CLARIFICATION", "AWAITING_CLARIFICATION">>,
      <<"INVESTIGATING", "PERSIST_PLAN", "AWAITING_PLAN_APPROVAL">>,
      <<"AWAITING_CLARIFICATION", "SUBMIT_CLARIFICATION", "INVESTIGATING">>,
      <<"INVESTIGATING", "CONTINUE_INVESTIGATION", "INVESTIGATING">>,
      <<"AWAITING_PLAN_APPROVAL", "APPROVE_PLAN", "READY_TO_EXECUTE">>,
      <<"AWAITING_PLAN_APPROVAL", "REJECT_PLAN", "CANCELLED">>,
      <<"READY_TO_EXECUTE", "CONTINUE_EXECUTION", "EXECUTING">>,
      <<"READY_TO_EXECUTE", "PROVIDER_LOCKED", "AWAITING_PROVIDER_UNLOCK">>,
      <<"EXECUTING", "REQUEST_ACTION_APPROVAL", "AWAITING_ACTION_APPROVAL">>,
      <<"AWAITING_ACTION_APPROVAL", "APPROVE_ACTION", "READY_TO_EXECUTE">>,
      <<"AWAITING_ACTION_APPROVAL", "REJECT_ACTION", "READY_TO_EXECUTE">>,
      <<"EXECUTING", "REQUEST_BUDGET_REAPPROVAL", "AWAITING_BUDGET_APPROVAL">>,
      <<"VERIFYING", "REQUEST_BUDGET_REAPPROVAL", "AWAITING_BUDGET_APPROVAL">>,
      <<"AWAITING_BUDGET_APPROVAL", "APPROVE_BUDGET", "READY_TO_EXECUTE">>,
      <<"AWAITING_BUDGET_APPROVAL", "REJECT_BUDGET", "BLOCKED">>,
      <<"EXECUTING", "REVISE_PLAN", "AWAITING_PLAN_APPROVAL">>,
      <<"EXECUTING", "START_VERIFICATION", "VERIFYING">>,
      <<"VERIFYING", "REQUEST_USER_CONFIRMATION", "AWAITING_USER_CONFIRMATION">>,
      <<"VERIFYING", "VERIFICATION_PASSED", "READY_TO_APPLY">>,
      <<"VERIFYING", "VERIFICATION_FEEDBACK", "EXECUTING">>,
      <<"AWAITING_USER_CONFIRMATION", "CONFIRM_USER_ACCEPTANCE",
        "READY_TO_APPLY">>,
      <<"AWAITING_USER_CONFIRMATION", "REJECT_USER_ACCEPTANCE", "BLOCKED">>,
      <<"READY_TO_APPLY", "CONFIRM_APPLY", "APPLYING">>,
      <<"READY_TO_APPLY", "REJECT_APPLY", "NOT_APPLIED">>,
      <<"APPLYING", "APPLY_SUCCEEDED", "COMPLETED">>,
      <<"APPLYING", "APPLY_FAILED", "ROLLING_BACK">>,
      <<"ROLLING_BACK", "ROLLBACK_SUCCEEDED", "FAILED">>,
      <<"ROLLING_BACK", "ROLLBACK_RECOVERY_REQUIRED", "RECOVERY_REQUIRED">>,
      <<"RECOVERY_REQUIRED", "REQUEST_RECOVERY", "ROLLING_BACK">>,
      <<"AWAITING_PROVIDER_UNLOCK", "CONTINUE_PROVIDER_UNLOCK", "EXECUTING">>,
      <<"BLOCKED", "CONTINUE_BLOCKED_EXECUTION", "EXECUTING">>,
      <<"BLOCKED", "SUBMIT_BLOCKED_CLARIFICATION", "INVESTIGATING">>,
      <<"BLOCKED", "CONTINUE_APPLY_CONFLICT", "INVESTIGATING">> }

TransitionTrigger ==
    {row[2] : row \in Transitions} \cup
    {"CANCEL_TASK", "ENTER_BLOCKED", "FAIL_UNRECOVERABLY"}

CancellableStates == (TaskState \ TerminalStates) \ {"RECOVERY_REQUIRED"}

BlockedReason ==
    {"BLOCKED_MISSING_DEPENDENCY", "BLOCKED_UNSUPPORTED_CAPABILITY",
     "DOCKER_UNAVAILABLE", "PROVIDER_UNAVAILABLE", "CONTEXT_EXPORT_DENIED",
     "APPLY_CONFLICT", "BLOCKED_POLICY_ERROR", "PROVIDER_CONFIGURATION_ERROR",
     "PERSISTENCE_FAILED", "BUDGET_EXTENSION_REJECTED",
     "USER_ACCEPTANCE_REJECTED"}

\* The states in which a blocked reason may be raised.
BlockedReasonSources == [r \in BlockedReason |->
    CASE r \in {"BLOCKED_MISSING_DEPENDENCY", "DOCKER_UNAVAILABLE"} ->
             {"INVESTIGATING", "EXECUTING", "VERIFYING"}
      [] r = "APPLY_CONFLICT" -> {"APPLYING"}
      [] r = "PERSISTENCE_FAILED" -> ActiveStates
      [] r \in {"BUDGET_EXTENSION_REJECTED", "USER_ACCEPTANCE_REJECTED"} -> {}
      [] OTHER -> {"INVESTIGATING", "EXECUTING"}]

UnrecoverableFailureReason ==
    {"INVALID_ACTION", "HARD_LIMIT_REACHED", "PROVIDER_RESPONSE_INVALID",
     "OUTPUT_LIMIT", "CREATE_FAILED", "START_FAILED", "RESOURCE_LIMIT"}

FailureReasonSources == [r \in UnrecoverableFailureReason |->
    CASE r \in {"INVALID_ACTION", "PROVIDER_RESPONSE_INVALID"} ->
             {"INVESTIGATING", "EXECUTING"}
      [] r = "HARD_LIMIT_REACHED" ->
             {"INVESTIGATING", "EXECUTING", "VERIFYING"}
      [] OTHER -> {"EXECUTING", "VERIFYING"}]

ASSUME InputsAssumption ==
    /\ Triggers \subseteq TransitionTrigger
    /\ BlockedInputs \subseteq BlockedReason
    /\ FailureInputs \subseteq UnrecoverableFailureReason

\* What the caller must vouch for, per trigger of the table.
RequiredPreconditions == [t \in TransitionTrigger |->
    CASE t \in {"SUBMIT_CLARIFICATION", "SUBMIT_BLOCKED_CLARIFICATION"} ->
             {"clarification_persisted"}
      [] t = "CONTINUE_INVESTIGATION" ->
             {"clarification_persisted", "frozen_checks_passed"}
      [] t \in {"CONTINUE_EXECUTION", "CONTINUE_BLOCKED_EXECUTION",
                "CONTINUE_APPLY_CONFLICT"} -> {"frozen_checks_passed"}
      [] t = "CONTINUE_PROVIDER_UNLOCK" ->
             {"provider_unlocked", "frozen_checks_passed"}
      [] t \in {"VERIFICATION_PASSED", "CONFIRM_USER_ACCEPTANCE"} ->
             {"acceptance_ready", "changeset_ready"}
      [] t = "CONFIRM_APPLY" ->
             {"frozen_checks_passed", "changeset_ready",
              "apply_confirmation_valid"}
      [] t = "APPLY_SUCCEEDED" -> {"writeback_verified"}
      [] t = "ROLLBACK_SUCCEEDED" -> {"rollback_verified"}
      [] t = "REQUEST_RECOVERY" -> {"recovery_evidence_valid"}
      [] t = "CANCEL_TASK" -> {"safe_cleanup_completed"}
      [] t \in {"ENTER_BLOCKED", "FAIL_UNRECOVERABLY"} ->
             {"active_execution_confirmed", "safe_cleanup_completed"}
      [] OTHER -> {}]

-----------------------------------------------------------------------------
(* StateMachine.transition *)

NoReason == "none"

\* What StateMachine.transition returns
Decision == [permitted : BOOLEAN, shouldApply : BOOLEAN, target : TaskState,
             why : {"PERMITTED", "UNCERTAIN_EFFECT_RECOVERY",
                    "RECOVERY_ALREADY_REQUIRED", "EXPECTED_STATE_CONFLICT",
                    "EXPECTED_VERSION_CONFLICT", "TERMINAL_STATE",
                    "ILLEGAL_TRANSITION", "INVALID_REASON",
                    "PRECONDITION_FAILED"}]

ASSUME NoCommandAssumption == NoCommand \notin Decision

\* What a client asks for.  "vouched" is the set of TransitionPreconditions
\* that are true; expectedPlan is 0 when no plan identity is expected.
Command(t, s, p, r, v, u) ==
    [trigger |-> t, expected |-> s, expectedPlan |-> p, reason |-> r,
     vouched |-> v, uncertain |-> u]

Denied(current, why) ==
    [permitted |-> FALSE, shouldApply |-> FALSE, target |-> current,
     why |-> why]

Permitted(target, why) ==
    [permitted |-> TRUE, shouldApply |-> TRUE, target |-> target, why |-> why]

RecoveryNoop ==
    [permitted |-> TRUE, shouldApply |-> FALSE, target |-> "RECOVERY_REQUIRED",
     why |-> "RECOVERY_ALREADY_REQUIRED"]

\* Mutant: a plan is expected and there is one.
VersionsMatch_AnyPlan(cmd, currentPlan) ==
    cmd.expectedPlan # 0 => currentPlan # 0

\* _versions_match: an expected plan must be the current one.  An expected
\* contract is compared in the same way; no command here names one.
VersionsMatch(cmd, currentPlan) ==
    cmd.expectedPlan # 0 => currentPlan # 0 /\ cmd.expectedPlan = currentPlan

Vouched(cmd) == RequiredPreconditions[cmd.trigger] \subseteq cmd.vouched

\* _cancel, _block and _fail: is the trigger legal in this state?
SpecialTarget(cmd, current) ==
    CASE cmd.trigger = "CANCEL_TASK" ->
             IF current \in CancellableStates THEN "CANCELLED" ELSE "illegal"
      [] cmd.trigger = "ENTER_BLOCKED" ->
             IF cmd.reason \in BlockedReason
                /\ current \in BlockedReasonSources[cmd.reason]
             THEN "BLOCKED" ELSE "reason"
      [] cmd.trigger = "FAIL_UNRECOVERABLY" ->
             IF cmd.reason \in UnrecoverableFailureReason
                /\ current \in FailureReasonSources[cmd.reason]
             THEN "FAILED" ELSE "reason"

\* Mutant: an apply conflict resumes at the confirmed result.
TableTarget_ConflictToApply(cmd, current) ==
    IF cmd.trigger = "CONTINUE_APPLY_CONFLICT" /\ current = "BLOCKED"
    THEN "READY_TO_APPLY"
    ELSE IF \E row \in Transitions : row[1] = current /\ row[2] = cmd.trigger
    THEN (CHOOSE row \in Transitions :
              row[1] = current /\ row[2] = cmd.trigger)[3]
    ELSE "illegal"

\* _target_for
TableTarget(cmd, current) ==
    IF \E row \in Transitions : row[1] = current /\ row[2] = cmd.trigger
    THEN (CHOOSE row \in Transitions :
              row[1] = current /\ row[2] = cmd.trigger)[3]
    ELSE "illegal"

TargetFor(cmd, current) ==
    IF cmd.trigger \in {"CANCEL_TASK", "ENTER_BLOCKED", "FAIL_UNRECOVERABLY"}
    THEN SpecialTarget(cmd, current)
    ELSE TableTarget(cmd, current)

\* Mutant: the reason of ENTER_BLOCKED and FAIL_UNRECOVERABLY is not judged.
Decide_AnyReason(cmd, current, currentPlan) ==
    LET target == TargetFor(cmd, current) IN
    IF target = "illegal" \/ ~Vouched(cmd) \/ current \in TerminalStates
    THEN Denied(current, "ILLEGAL_TRANSITION")
    ELSE Permitted(target, "PERMITTED")

\* Mutant: the uncertain effect is looked at before the terminal state.
Decide_UncertainFirst(cmd, current, currentPlan) ==
    IF cmd.expected # current
    THEN Denied(current, "EXPECTED_STATE_CONFLICT")
    ELSE IF cmd.uncertain /\ current # "RECOVERY_REQUIRED"
    THEN Permitted("RECOVERY_REQUIRED", "UNCERTAIN_EFFECT_RECOVERY")
    ELSE LET target == TargetFor(cmd, current) IN
         IF target \notin TaskState \/ ~Vouched(cmd)
            \/ ~VersionsMatch(cmd, currentPlan)
         THEN Denied(current, "ILLEGAL_TRANSITION")
         ELSE Permitted(target, "PERMITTED")

\* The decision on a command that is not a replay, in the code's order.
Decide(cmd, current, currentPlan) ==
    IF cmd.expected # current
    THEN Denied(current, "EXPECTED_STATE_CONFLICT")
    ELSE IF ~VersionsMatch(cmd, currentPlan)
    THEN Denied(current, "EXPECTED_VERSION_CONFLICT")
    ELSE IF current \in TerminalStates
    THEN Denied(current, "TERMINAL_STATE")
    ELSE IF cmd.uncertain
    THEN IF current = "RECOVERY_REQUIRED" THEN RecoveryNoop
         ELSE Permitted("RECOVERY_REQUIRED", "UNCERTAIN_EFFECT_RECOVERY")
    ELSE LET target == TargetFor(cmd, current) IN
         CASE target = "illegal" -> Denied(current, "ILLEGAL_TRANSITION")
           [] target = "reason" -> Denied(current, "INVALID_REASON")
           [] OTHER -> IF Vouched(cmd) THEN Permitted(target, "PERMITTED")
                       ELSE Denied(current, "PRECONDITION_FAILED")

-----------------------------------------------------------------------------
(* The inputs *)

\* Everything vouched for, or everything but one required precondition.
AllPreconditions == UNION {RequiredPreconditions[t] : t \in TransitionTrigger}
VouchedInputs(t) ==
    {AllPreconditions} \cup
    {AllPreconditions \ {p} : p \in RequiredPreconditions[t]}

ReasonInputs(t) ==
    CASE t = "ENTER_BLOCKED" -> BlockedInputs
      [] t = "FAIL_UNRECOVERABLY" -> FailureInputs
      [] OTHER -> {NoReason}

\* A client names the state it believes the task is in; a user who approves
\* a plan names the plan shown.
CommandsWith(t, s) ==
    [trigger : {t}, expected : {s},
     expectedPlan : IF t = "APPROVE_PLAN" THEN 1..MaxPlans ELSE {0},
     reason : ReasonInputs(t), vouched : VouchedInputs(t), uncertain : {FALSE}]

CommandsFor(s) ==
    (UNION {CommandsWith(t, s) : t \in Triggers})
    \cup {Command("APPLY_FAILED", s, 0, NoReason, AllPreconditions, TRUE)}

-----------------------------------------------------------------------------
Init ==
    /\ state = "DRAFT"                      \* create_task
    /\ revision = 1
    /\ plan = 0
    /\ audit = [source |-> "DRAFT", target |-> "DRAFT", revision |-> 1]
    /\ pending = [c \in Commanders |-> NoCommand]
    /\ request = NoCommand
    /\ answered = {}
    /\ recorded = FALSE
    /\ approved = 0
    /\ applied = 0

\* A commander handles one command at a time.
Free(c) == pending[c] = NoCommand /\ c \notin answered

\* The commander keeps the decision to commit it in a later step.
Keep(c, cmd, decision, tracked) ==
    pending' = [pending EXCEPT ![c] =
        [trigger |-> cmd.trigger, reason |-> cmd.reason, source |-> state,
         target |-> decision.target, revision |-> revision,
         plan |-> cmd.expectedPlan,
         tracked |-> tracked]]

\* A command with a fresh key: the state is read and the decision made.  A
\* denial changes nothing, so only permitted commands are of interest.
ReceiveCommand(c) ==
    /\ Free(c)
    /\ \E cmd \in CommandsFor(state) :
          LET decision == Decide(cmd, state, plan) IN
          /\ decision.shouldApply
          /\ Keep(c, cmd, decision, FALSE)
    /\ UNCHANGED <<state, revision, plan, audit, request, answered, recorded,
                   approved, applied>>

\* The client chooses the request whose key is followed.
SendRequest ==
    /\ request = NoCommand
    /\ \E cmd \in CommandsFor(state) :
          /\ cmd.trigger \in TrackedTriggers
          /\ cmd.vouched = AllPreconditions
          /\ request' = cmd
    /\ UNCHANGED <<state, revision, plan, audit, pending, answered, recorded,
                   approved, applied>>

\* The tracked request arrives, for the first time or again.  Once there is a
\* record of the key, _idempotency_replay repeats the recorded answer and
\* nothing is to be applied; another request under the key is denied.
DeliverRequest(c) ==
    /\ Free(c)
    /\ request # NoCommand
    /\ ~recorded
    /\ LET decision == Decide(request, state, plan) IN
          IF decision.shouldApply
          THEN /\ Keep(c, request, decision, TRUE)
               /\ UNCHANGED answered
          ELSE /\ answered' = answered \cup {c}
               /\ UNCHANGED pending
    /\ UNCHANGED <<state, revision, plan, audit, request, recorded, approved,
                   applied>>

\* The commander keeps the IdempotencyRecord of what it has done or denied.
KeepRecord(c) ==
    /\ c \in answered
    /\ recorded' = TRUE
    /\ answered' = answered \ {c}
    /\ UNCHANGED <<state, revision, plan, audit, pending, request, approved,
                   applied>>

-----------------------------------------------------------------------------
(* transition_task *)

\* Mutant: the UPDATE finds the task by its identity alone.
ExpectedRow_AnyRow(p) == TRUE

\* The WHERE clause of the UPDATE.
ExpectedRow(p) ==
    /\ state = p.source
    /\ CheckRevision => revision = p.revision

\* Mutant: the event carries the revision read before the UPDATE.
WriteTransition_OldRevision(p) ==
    /\ state' = p.target
    /\ revision' = revision + 1
    /\ audit' = [source |-> p.source, target |-> p.target,
                 revision |-> revision]

\* The row, the audit event and the domain event, in one SQLite transaction.
WriteTransition(p) ==
    /\ state' = p.target
    /\ revision' = revision + 1
    /\ audit' = [source |-> p.source, target |-> p.target,
                 revision |-> revision + 1]

CommitTransition(c) ==
    LET p == pending[c] IN
    /\ p # NoCommand
    /\ revision < MaxRevision
    /\ ExpectedRow(p)
    /\ WriteTransition(p)
    /\ pending' = [pending EXCEPT ![c] = NoCommand]
    /\ answered' = IF p.tracked THEN answered \cup {c} ELSE answered
    /\ applied' = IF p.tracked THEN revision + 1 ELSE applied
    /\ approved' = IF p.trigger = "APPROVE_PLAN" THEN p.plan ELSE approved
    /\ UNCHANGED <<plan, request, recorded>>

\* PersistenceConflict or a failed SQLite transaction: the decision is gone
\* and nothing was written.  Or the end of the commander's process: what it
\* had to commit or to keep is gone.
AbandonTransition(c) ==
    /\ ~Free(c)
    /\ pending' = [pending EXCEPT ![c] = NoCommand]
    /\ answered' = answered \ {c}
    /\ UNCHANGED <<state, revision, plan, audit, request, recorded, approved,
                   applied>>

\* record_plan_version: the investigating or executing agent stores a plan
\* before it asks for PERSIST_PLAN or REVISE_PLAN.
RecordPlan ==
    /\ state \in {"INVESTIGATING", "EXECUTING"}
    /\ plan < MaxPlans
    /\ plan' = plan + 1
    /\ UNCHANGED <<state, revision, audit, pending, request, answered, recorded,
                   approved, applied>>

Next ==
    \/ SendRequest
    \/ RecordPlan
    \/ \E c \in Commanders :
          \/ ReceiveCommand(c)
          \/ DeliverRequest(c)
          \/ KeepRecord(c)
          \/ CommitTransition(c)
          \/ AbandonTransition(c)

Spec == Init /\ [][Next]_vars

-----------------------------------------------------------------------------
(* Properties *)

PendingType ==
    [trigger : TransitionTrigger,
     reason : BlockedReason \cup UnrecoverableFailureReason \cup {NoReason},
     source : TaskState, target : TaskState, revision : Nat, plan : Nat,
     tracked : BOOLEAN]

\* Every variable keeps its type.
TypeOK ==
    /\ state \in TaskState
    /\ revision \in Nat
    /\ plan \in Nat
    /\ audit \in [source : TaskState, target : TaskState, revision : Nat]
    /\ pending \in [Commanders -> PendingType \cup {NoCommand}]
    /\ answered \subseteq Commanders
    /\ recorded \in BOOLEAN
    /\ approved \in Nat
    /\ applied \in Nat

\* The audit log explains the task, whatever was decided earlier and is
\* committed late: its newest row ends in the state and the revision of the
\* task row, every later row starts where it ended (transition_task writes
\* both in one transaction), and a terminal task never moves again
\* (TERMINAL_STATES).
AuditFollowsTask ==
    [][/\ audit' # audit =>
             /\ audit'.source = audit.target
             /\ audit'.target = state'
             /\ audit'.revision = audit.revision + 1
       /\ (state \in TerminalStates) => state' = state]_vars

\* An approval decided for one plan version never approves another: a task
\* leaves the plan approval with the approval of its newest plan.
ApprovedPlanIsCurrent ==
    audit.source = "AWAITING_PLAN_APPROVAL" /\ state = "READY_TO_EXECUTE"
        => approved = plan

\* The states every permitted command can lead to, whatever is vouched for.
StepsFrom == [s \in TaskState |-> TaskState \cap
    {Decide(Command(t, s, 0, r, AllPreconditions, u), s, 0).target :
        t \in TransitionTrigger,
        r \in {NoReason} \cup BlockedReason \cup UnrecoverableFailureReason,
        u \in BOOLEAN}]

\* The states that a path from "s" reaches without entering "gate".
Gates == {"VERIFYING", "READY_TO_APPLY", "APPLYING"}
ReachedAround == [gate \in Gates |-> [s \in TaskState |->
    LET reached[n \in 0..Cardinality(TaskState)] ==
            IF n = 0 THEN {s}
            ELSE LET before == reached[n - 1]
                 IN before \cup
                    ((UNION {StepsFrom[b] : b \in before}) \ {gate})
    IN reached[Cardinality(TaskState)]]]

\* No path of the table goes around the gates: whatever blocks, revisions,
\* conflicts, rollbacks and recoveries come in between, a task that
\* investigates or executes, so that its result may still change, is
\* verified, offered and confirmed before it is completed.
CompletedThroughGates ==
    state \in {"INVESTIGATING", "EXECUTING"} =>
        \A gate \in Gates : "COMPLETED" \notin ReachedAround[gate][state]

\* A request that is delivered again, at the same time or because the
\* commander died after the commit and before the record, is not applied on
\* top of itself: when it is applied once more, other transitions have brought
\* the task back to the state the request expects.  (CONTINUE_INVESTIGATION
\* alone leaves the task in the state it expects.)
NotAppliedOnTop ==
    [][applied' # applied /\ applied # 0
           /\ request.trigger # "CONTINUE_INVESTIGATION"
       => revision > applied]_vars
=============================================================================
