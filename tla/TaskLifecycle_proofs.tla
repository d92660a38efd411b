------------------------- MODULE TaskLifecycle_proofs -------------------------
(***************************************************************************)
(* The lifecycle of a task under any number of commanders, triggers,       *)
(* plans and revisions, when the commanders pass the revision they read;   *)
(* and the way a task has to take, whatever they pass.                     *)
(***************************************************************************)
EXTENDS TaskLifecycle, FiniteSetTheorems, WellFoundedInduction, TLAPS

(* A decision that is still of the current revision was made in the        *)
(* current state, and an approval in it names the current plan.            *)
Fresh(p) ==
    /\ p.revision <= revision
    /\ p.source \notin TerminalStates
    /\ p.source = "AWAITING_PLAN_APPROVAL" /\ p.target = "READY_TO_EXECUTE" =>
          /\ p.trigger = "APPROVE_PLAN"
          /\ p.revision = revision /\ state = p.source => p.plan = plan

AuditIsRow == audit.target = state /\ audit.revision = revision

IsCommand(cmd) ==
    /\ cmd.trigger \in TransitionTrigger
    /\ cmd.reason \in BlockedReason \cup UnrecoverableFailureReason \cup {NoReason}
    /\ cmd.expectedPlan \in Nat
    /\ cmd.trigger = "APPROVE_PLAN" => cmd.expectedPlan # 0

TaskInv ==
    /\ TypeOK
    /\ AuditIsRow
    /\ request # NoCommand => IsCommand(request)
    /\ \A c \in Commanders : pending[c] # NoCommand => Fresh(pending[c])
    /\ ApprovedPlanIsCurrent

-----------------------------------------------------------------------------
(* The tables *)

LEMMA RowsAreTyped ==
  ASSUME NEW row \in Transitions
  PROVE  /\ row[1] \in TaskState \ TerminalStates /\ row[3] \in TaskState
         /\ row[1] = "AWAITING_PLAN_APPROVAL" /\ row[3] = "READY_TO_EXECUTE" =>
               row[2] = "APPROVE_PLAN"
  BY DEF Transitions, TaskState, ActiveStates, TerminalStates

(* What a trigger leads to; only an approval ends a plan approval well.    *)
LEMMA TargetIsTyped ==
  ASSUME NEW cmd, NEW current \in TaskState
  PROVE  /\ TargetFor(cmd, current) \in TaskState \cup {"illegal", "reason"}
         /\ current = "AWAITING_PLAN_APPROVAL"
            /\ TargetFor(cmd, current) = "READY_TO_EXECUTE" =>
               cmd.trigger = "APPROVE_PLAN"
<1>1. CASE cmd.trigger \in {"CANCEL_TASK", "ENTER_BLOCKED", "FAIL_UNRECOVERABLY"}
  <2>1. SpecialTarget(cmd, current) \in
          {"CANCELLED", "illegal", "BLOCKED", "reason", "FAILED"}
    BY <1>1 DEF SpecialTarget
  <2> QED BY <1>1, <2>1 DEF TargetFor, TaskState, TerminalStates
<1>2. CASE cmd.trigger \notin {"CANCEL_TASK", "ENTER_BLOCKED", "FAIL_UNRECOVERABLY"}
  <2>1. TargetFor(cmd, current) = TableTarget(cmd, current)
    BY <1>2 DEF TargetFor
  <2>2. CASE \E row \in Transitions : row[1] = current /\ row[2] = cmd.trigger
    <3> DEFINE r == CHOOSE row \in Transitions :
                      row[1] = current /\ row[2] = cmd.trigger
    <3>1. r \in Transitions /\ r[1] = current /\ r[2] = cmd.trigger
      BY <2>2
    <3>2. TableTarget(cmd, current) = r[3]
      BY <2>2 DEF TableTarget
    <3> HIDE DEF r
    <3> QED BY <2>1, <3>1, <3>2, RowsAreTyped
  <2>3. CASE ~\E row \in Transitions : row[1] = current /\ row[2] = cmd.trigger
    BY <2>1, <2>3 DEF TableTarget
  <2> QED BY <2>2, <2>3
<1> QED BY <1>1, <1>2

(* The decisions of StateMachine.transition: nothing is applied in a       *)
(* terminal state, and a plan that is named is the current one.            *)
LEMMA DecisionHolds ==
  ASSUME NEW cmd, IsCommand(cmd), NEW current \in TaskState, NEW currentPlan \in Nat
  PROVE  LET d == Decide(cmd, current, currentPlan) IN
         /\ d \in Decision
         /\ d.shouldApply =>
               /\ current \notin TerminalStates
               /\ cmd.expectedPlan # 0 => cmd.expectedPlan = currentPlan
               /\ current = "AWAITING_PLAN_APPROVAL" /\ d.target = "READY_TO_EXECUTE" =>
                     cmd.trigger = "APPROVE_PLAN"
  BY TargetIsTyped DEF Decide, Decision, Denied, Permitted, RecoveryNoop,
     VersionsMatch, TaskState

LEMMA CommandsAreTyped ==
  ASSUME NEW s \in TaskState, NEW cmd \in CommandsFor(s)
  PROVE  IsCommand(cmd)
<1> USE InputsAssumption
<1>1. CASE cmd \in {Command("APPLY_FAILED", s, 0, NoReason, AllPreconditions, TRUE)}
  <2>1. "APPLY_FAILED" \in TransitionTrigger
    <3>1. <<"APPLYING", "APPLY_FAILED", "ROLLING_BACK">> \in Transitions
      BY DEF Transitions
    <3> QED BY <3>1 DEF TransitionTrigger
  <2>2. /\ cmd.trigger = "APPLY_FAILED" /\ cmd.reason = NoReason
        /\ cmd.expectedPlan = 0
    BY <1>1 DEF Command
  <2> QED BY <2>1, <2>2 DEF IsCommand
<1>2. ASSUME NEW t \in Triggers, cmd \in CommandsWith(t, s)
      PROVE  IsCommand(cmd)
  <2>1. cmd.trigger = t /\ cmd.reason \in ReasonInputs(t)
    BY <1>2 DEF CommandsWith
  <2>2. cmd.expectedPlan \in Nat /\ (t = "APPROVE_PLAN" => cmd.expectedPlan # 0)
    BY <1>2, BoundsAssumption DEF CommandsWith
  <2>3. ReasonInputs(t) \subseteq
          BlockedReason \cup UnrecoverableFailureReason \cup {NoReason}
    BY DEF ReasonInputs
  <2> QED BY <2>1, <2>2, <2>3 DEF IsCommand
<1>3. ASSUME cmd \in UNION {CommandsWith(t, s) : t \in Triggers}
      PROVE  \E t \in Triggers : cmd \in CommandsWith(t, s)
  BY <1>3
<1> QED BY <1>1, <1>2, <1>3 DEF CommandsFor

-----------------------------------------------------------------------------
LEMMA TaskInit == ASSUME CheckRevision PROVE Init => TaskInv
<1> SUFFICES ASSUME Init PROVE TaskInv
  OBVIOUS
<1>1. TypeOK
  BY DEF Init, TypeOK, TaskState
<1>2. AuditIsRow /\ ApprovedPlanIsCurrent
  BY DEF Init, AuditIsRow, ApprovedPlanIsCurrent
<1>3. request = NoCommand /\ \A c \in Commanders : pending[c] = NoCommand
  BY DEF Init
<1> QED BY <1>1, <1>2, <1>3 DEF TaskInv

(* A decision that is kept is of the present. *)
LEMMA KeepStep ==
  ASSUME CheckRevision, TaskInv, NEW c \in Commanders, pending[c] = NoCommand,
         NEW cmd, IsCommand(cmd), NEW tracked \in BOOLEAN,
         Decide(cmd, state, plan).shouldApply,
         Keep(c, cmd, Decide(cmd, state, plan), tracked),
         UNCHANGED <<state, revision, plan, audit, request, answered, recorded,
                     approved, applied>>
  PROVE  TaskInv'
<1> DEFINE d == Decide(cmd, state, plan)
           p == [trigger |-> cmd.trigger, reason |-> cmd.reason, source |-> state,
                 target |-> d.target, revision |-> revision,
                 plan |-> cmd.expectedPlan, tracked |-> tracked]
<1>1. TypeOK /\ AuditIsRow /\ ApprovedPlanIsCurrent
  BY DEF TaskInv
<1>2. /\ d \in Decision /\ state \notin TerminalStates
      /\ cmd.expectedPlan # 0 => cmd.expectedPlan = plan
      /\ state = "AWAITING_PLAN_APPROVAL" /\ d.target = "READY_TO_EXECUTE" =>
            cmd.trigger = "APPROVE_PLAN"
  BY <1>1, DecisionHolds DEF TypeOK
<1>3. PICK q : q = p
  OBVIOUS
<1>4. /\ pending' = [pending EXCEPT ![c] = q] /\ q \in PendingType
      /\ q.source = state /\ q.target = d.target /\ q.revision = revision
      /\ q.plan = cmd.expectedPlan /\ q.trigger = cmd.trigger /\ q.tracked = tracked
  BY <1>1, <1>2, <1>3 DEF TypeOK, PendingType, Decision, IsCommand, Keep
<1> HIDE DEF d, p
<1>5. TypeOK'
  BY <1>1, <1>4 DEF TypeOK
<1>6. Fresh(q)'
  BY <1>1, <1>2, <1>4 DEF Fresh, TypeOK, IsCommand
<1>7. ASSUME NEW e \in Commanders, pending'[e] # NoCommand PROVE Fresh(pending[e])'
  <2>1. CASE e = c
    BY <1>1, <1>4, <1>6, <2>1 DEF TypeOK
  <2>2. CASE e # c
    BY <1>1, <1>4, <1>7, <2>2 DEF TypeOK, TaskInv, Fresh
  <2> QED BY <2>1, <2>2
<1> QED
  BY <1>1, <1>5, <1>7 DEF TaskInv, AuditIsRow, ApprovedPlanIsCurrent,
                                IsCommand

(* A decision that is committed is of the current revision, so that all    *)
(* others become out of date.                                              *)
LEMMA CommitStep ==
  ASSUME CheckRevision, TaskInv, NEW c \in Commanders, CommitTransition(c)
  PROVE  TaskInv'
<1>1. TypeOK /\ AuditIsRow
  BY DEF TaskInv
<1>2. PICK p : p = pending[c]
  OBVIOUS
<1>3. /\ p \in PendingType /\ p # NoCommand
      /\ state = p.source /\ revision = p.revision
      /\ state' = p.target /\ revision' = revision + 1
      /\ audit' = [source |-> p.source, target |-> p.target,
                   revision |-> revision + 1]
      /\ pending' = [pending EXCEPT ![c] = NoCommand]
      /\ UNCHANGED <<plan, request>>
  BY <1>1, <1>2 DEF TypeOK, CommitTransition, ExpectedRow, WriteTransition
<1>4. /\ answered' = IF p.tracked THEN answered \cup {c} ELSE answered
      /\ recorded' = recorded
      /\ applied' = IF p.tracked THEN revision + 1 ELSE applied
      /\ approved' = IF p.trigger = "APPROVE_PLAN" THEN p.plan ELSE approved
  BY <1>2 DEF CommitTransition
<1>5. Fresh(p)
  BY <1>2, <1>3 DEF TaskInv
<1>6. ASSUME NEW e \in Commanders, pending'[e] # NoCommand
      PROVE  e # c /\ pending'[e] = pending[e] /\ pending[e] \in PendingType
             /\ Fresh(pending[e])
  <2>1. e # c
    BY <1>1, <1>3, <1>6 DEF TypeOK
  <2>2. pending'[e] = pending[e]
    BY <1>1, <1>3, <2>1 DEF TypeOK
  <2> QED BY <1>1, <1>6, <2>1, <2>2 DEF TypeOK, TaskInv
<1>7. TypeOK'
  BY <1>1, <1>3, <1>4 DEF TypeOK, PendingType
<1>8. AuditIsRow'
  BY <1>3 DEF AuditIsRow
<1>9. \A e \in Commanders : pending'[e] # NoCommand => Fresh(pending[e])'
  BY <1>1, <1>3, <1>6 DEF Fresh, TypeOK, PendingType
<1>10. ApprovedPlanIsCurrent'
  BY <1>3, <1>4, <1>5 DEF Fresh, ApprovedPlanIsCurrent
<1>11. (request # NoCommand => IsCommand(request))'
  BY <1>3 DEF TaskInv, IsCommand
<1> QED BY <1>7, <1>8, <1>9, <1>10, <1>11 DEF TaskInv

LEMMA TaskStep ==
  ASSUME CheckRevision, TaskInv, [Next]_vars
  PROVE  TaskInv'
<1>0. /\ TypeOK /\ AuditIsRow /\ ApprovedPlanIsCurrent
      /\ request # NoCommand => IsCommand(request)
      /\ \A c \in Commanders : pending[c] # NoCommand => Fresh(pending[c])
  BY DEF TaskInv
<1>1. CASE SendRequest
  <2>1. PICK cmd \in CommandsFor(state) : request' = cmd
    BY <1>1 DEF SendRequest
  <2>2. IsCommand(cmd)
    BY <1>0, CommandsAreTyped DEF TypeOK
  <2>3. IsCommand(request)'
    BY <2>1, <2>2 DEF IsCommand
  <2> QED
    BY <1>0, <1>1, <2>3 DEF SendRequest, TaskInv, TypeOK, AuditIsRow,
                            ApprovedPlanIsCurrent, Fresh
<1>2. CASE RecordPlan
  <2>1. TypeOK'
    BY <1>0, <1>2 DEF RecordPlan, TypeOK
  <2> QED
    BY <1>0, <1>2, <2>1 DEF RecordPlan, TaskInv, AuditIsRow,
                            ApprovedPlanIsCurrent, Fresh, IsCommand
<1>3. ASSUME NEW c \in Commanders, ReceiveCommand(c) PROVE TaskInv'
  <2>1. PICK cmd \in CommandsFor(state) :
          /\ Decide(cmd, state, plan).shouldApply
          /\ Keep(c, cmd, Decide(cmd, state, plan), FALSE)
    BY <1>3 DEF ReceiveCommand
  <2>2. IsCommand(cmd)
    BY <1>0, CommandsAreTyped DEF TypeOK
  <2> QED BY <1>3, <2>1, <2>2, KeepStep DEF ReceiveCommand, Free
<1>4. ASSUME NEW c \in Commanders, DeliverRequest(c) PROVE TaskInv'
  <2>1. CASE Decide(request, state, plan).shouldApply
    BY <1>0, <1>4, <2>1, KeepStep DEF DeliverRequest, Free
  <2>2. CASE ~Decide(request, state, plan).shouldApply
    <3>1. /\ answered' = answered \cup {c}
          /\ UNCHANGED <<state, revision, plan, audit, pending, request,
                         recorded, approved, applied>>
      BY <1>4, <2>2 DEF DeliverRequest
    <3> QED
      BY <1>0, <3>1 DEF TaskInv, TypeOK, AuditIsRow, ApprovedPlanIsCurrent,
                        Fresh, IsCommand
  <2> QED BY <2>1, <2>2
<1>5. ASSUME NEW c \in Commanders, CommitTransition(c) PROVE TaskInv'
  BY <1>5, CommitStep
<1>6. ASSUME NEW c \in Commanders, AbandonTransition(c) PROVE TaskInv'
  <2>1. pending' = [pending EXCEPT ![c] = NoCommand]
        /\ answered' = answered \ {c}
        /\ UNCHANGED <<state, revision, plan, audit, request, recorded,
                       approved, applied>>
    BY <1>6 DEF AbandonTransition
  <2>2. TypeOK'
    BY <1>0, <2>1 DEF TypeOK
  <2>3. ASSUME NEW e \in Commanders, pending'[e] # NoCommand
        PROVE  pending'[e] = pending[e]
    BY <1>0, <2>1, <2>3 DEF TypeOK
  <2> QED
    BY <1>0, <2>1, <2>2, <2>3 DEF TaskInv, AuditIsRow, ApprovedPlanIsCurrent,
                                  Fresh, IsCommand
<1>7. ASSUME NEW c \in Commanders, KeepRecord(c) PROVE TaskInv'
  BY <1>0, <1>7 DEF KeepRecord, TaskInv, TypeOK, AuditIsRow,
                    ApprovedPlanIsCurrent, Fresh, IsCommand
<1>8. CASE UNCHANGED vars
  BY <1>0, <1>8 DEF vars, TaskInv, TypeOK, AuditIsRow,
                    ApprovedPlanIsCurrent, Fresh, IsCommand
<1> QED BY <1>1, <1>2, <1>3, <1>4, <1>5, <1>6, <1>7, <1>8 DEF Next

LEMMA TaskInvariant == ASSUME CheckRevision PROVE Spec => []TaskInv
<1>1. Init => TaskInv
  BY TaskInit
<1>2. TaskInv /\ [Next]_vars => TaskInv'
  BY TaskStep
<1> QED BY <1>1, <1>2, PTL DEF Spec

-----------------------------------------------------------------------------
(* Every variable keeps its type: no decision leads out of the states.     *)
THEOREM TypeCorrect == ASSUME CheckRevision PROVE Spec => []TypeOK
<1>1. TaskInv => TypeOK
  BY DEF TaskInv
<1>2. Spec => []TaskInv
  BY TaskInvariant
<1> QED BY <1>1, <1>2, PTL

(* A task leaves the plan approval with the approval of its newest plan.   *)
THEOREM ApprovalIsCurrent ==
  ASSUME CheckRevision PROVE Spec => []ApprovedPlanIsCurrent
<1>1. TaskInv => ApprovedPlanIsCurrent
  BY DEF TaskInv
<1>2. Spec => []TaskInv
  BY TaskInvariant
<1> QED BY <1>1, <1>2, PTL

(* The rows of the audit log form one chain that ends in the task row, and *)
(* a terminal task never moves.                                            *)
THEOREM AuditChains == ASSUME CheckRevision PROVE Spec => AuditFollowsTask
<1> DEFINE Chained ==
             /\ audit' # audit =>
                   /\ audit'.source = audit.target
                   /\ audit'.target = state'
                   /\ audit'.revision = audit.revision + 1
             /\ (state \in TerminalStates) => state' = state
<1>1. ASSUME TaskInv, [Next]_vars PROVE Chained
  <2>1. ASSUME NEW c \in Commanders, CommitTransition(c) PROVE Chained
    <3>1. /\ state = pending[c].source /\ pending[c] # NoCommand
          /\ state' = pending[c].target
          /\ audit' = [source |-> pending[c].source, target |-> pending[c].target,
                       revision |-> revision + 1]
      BY <2>1 DEF CommitTransition, ExpectedRow, WriteTransition
    <3>2. state \notin TerminalStates
      BY <1>1, <3>1 DEF TaskInv, Fresh
    <3> QED BY <1>1, <3>1, <3>2 DEF TaskInv, AuditIsRow
  <2>2. CASE UNCHANGED <<state, audit>>
    BY <2>2
  <2> QED
    BY <1>1, <2>1, <2>2 DEF Next, SendRequest, RecordPlan, ReceiveCommand,
                            DeliverRequest, KeepRecord, AbandonTransition, vars
<1>2. Spec => []TaskInv
  BY TaskInvariant
<1>3. TaskInv /\ [Next]_vars => [Chained]_vars
  BY <1>1
<1> QED BY <1>2, <1>3, PTL DEF Spec, AuditFollowsTask

-----------------------------------------------------------------------------
(* Repeated requests *)

(* What a commander holds of the tracked request leads away from the state *)
(* the request expects, and a task that has just been led away by it is    *)
(* not in that state.                                                      *)
Repeats ==
    /\ applied <= revision
    /\ applied # 0 => request # NoCommand
    /\ applied # 0 /\ applied = revision
          /\ request.trigger # "CONTINUE_INVESTIGATION" => state # request.expected
    /\ \A c \in Commanders : pending[c] # NoCommand /\ pending[c].tracked =>
          /\ request # NoCommand
          /\ pending[c].source = request.expected
          /\ request.trigger # "CONTINUE_INVESTIGATION" =>
                pending[c].target # request.expected

RepeatInv ==
    /\ TypeOK
    /\ request # NoCommand => IsCommand(request)
    /\ Repeats

(* Only CONTINUE_INVESTIGATION leaves a task in its state.                 *)
LEMMA RowsLeadAway ==
  ASSUME NEW row \in Transitions, row[2] # "CONTINUE_INVESTIGATION"
  PROVE  row[3] # row[1]
  BY DEF Transitions

LEMMA TargetLeadsAway ==
  ASSUME NEW cmd, NEW current \in TaskState \ TerminalStates,
         cmd.trigger # "CONTINUE_INVESTIGATION"
  PROVE  TargetFor(cmd, current) # current
<1>1. current \notin {"illegal", "reason", "CANCELLED", "FAILED"}
  BY DEF TaskState, ActiveStates, TerminalStates
<1>2. CASE cmd.trigger \in {"CANCEL_TASK", "ENTER_BLOCKED", "FAIL_UNRECOVERABLY"}
  <2>1. TargetFor(cmd, current) = SpecialTarget(cmd, current)
    BY <1>2 DEF TargetFor
  <2>2. CASE cmd.trigger = "CANCEL_TASK"
    BY <1>1, <2>1, <2>2 DEF SpecialTarget
  <2>3. CASE cmd.trigger = "ENTER_BLOCKED"
    <3>1. cmd.reason \in BlockedReason => "BLOCKED" \notin BlockedReasonSources[cmd.reason]
      BY DEF BlockedReasonSources, ActiveStates
    <3> QED
      BY <1>1, <2>1, <2>3, <3>1 DEF SpecialTarget
  <2>4. CASE cmd.trigger = "FAIL_UNRECOVERABLY"
    BY <1>1, <2>1, <2>4 DEF SpecialTarget
  <2> QED
    BY <1>2, <2>2, <2>3, <2>4
<1>3. CASE cmd.trigger \notin {"CANCEL_TASK", "ENTER_BLOCKED", "FAIL_UNRECOVERABLY"}
  <2>1. TargetFor(cmd, current) = TableTarget(cmd, current)
    BY <1>3 DEF TargetFor
  <2>2. CASE \E row \in Transitions : row[1] = current /\ row[2] = cmd.trigger
    <3> DEFINE r == CHOOSE row \in Transitions :
                      row[1] = current /\ row[2] = cmd.trigger
    <3>1. r \in Transitions /\ r[1] = current /\ r[2] = cmd.trigger
      BY <2>2
    <3>2. TableTarget(cmd, current) = r[3]
      BY <2>2 DEF TableTarget
    <3> HIDE DEF r
    <3> QED
      BY <2>1, <3>1, <3>2, RowsLeadAway
  <2>3. CASE ~\E row \in Transitions : row[1] = current /\ row[2] = cmd.trigger
    BY <1>1, <2>1, <2>3 DEF TableTarget
  <2> QED
    BY <2>2, <2>3
<1> QED
  BY <1>2, <1>3

LEMMA DecisionLeadsAway ==
  ASSUME NEW cmd, NEW current \in TaskState, NEW currentPlan,
         Decide(cmd, current, currentPlan).shouldApply
  PROVE  /\ cmd.expected = current
         /\ cmd.trigger # "CONTINUE_INVESTIGATION" =>
               Decide(cmd, current, currentPlan).target # current
<1>1. cmd.expected = current /\ current \notin TerminalStates
  BY DEF Decide, Denied
<1>2. \/ Decide(cmd, current, currentPlan).target = TargetFor(cmd, current)
      \/ /\ Decide(cmd, current, currentPlan).target = "RECOVERY_REQUIRED"
         /\ current # "RECOVERY_REQUIRED"
  BY DEF Decide, Denied, Permitted, RecoveryNoop
<1> QED
  BY <1>1, <1>2, TargetLeadsAway

LEMMA RepeatInit == Init => RepeatInv
<1> SUFFICES ASSUME Init PROVE RepeatInv
  OBVIOUS
<1>1. TypeOK
  BY DEF Init, TypeOK, TaskState
<1> QED
  BY <1>1 DEF Init, RepeatInv, Repeats

LEMMA RepeatKeep ==
  ASSUME RepeatInv, NEW c \in Commanders,
         NEW cmd, IsCommand(cmd), NEW tracked \in BOOLEAN,
         tracked => request # NoCommand /\ cmd = request,
         Decide(cmd, state, plan).shouldApply,
         Keep(c, cmd, Decide(cmd, state, plan), tracked),
         UNCHANGED <<state, revision, plan, audit, request, answered, recorded,
                     approved, applied>>
  PROVE  RepeatInv'
<1>1. TypeOK /\ Repeats
  BY DEF RepeatInv
<1>2. Decide(cmd, state, plan) \in Decision
  BY <1>1, DecisionHolds DEF TypeOK
<1>3. /\ cmd.expected = state
      /\ cmd.trigger # "CONTINUE_INVESTIGATION" =>
            Decide(cmd, state, plan).target # state
  BY <1>1, DecisionLeadsAway DEF TypeOK
<1>4. PICK q : /\ q \in PendingType /\ pending' = [pending EXCEPT ![c] = q]
               /\ q.source = state /\ q.tracked = tracked
               /\ q.target = Decide(cmd, state, plan).target
  <2>1. PICK d : d = Decide(cmd, state, plan)
    OBVIOUS
  <2>2. PICK p : p = [trigger |-> cmd.trigger, reason |-> cmd.reason,
                      source |-> state, target |-> d.target,
                      revision |-> revision, plan |-> cmd.expectedPlan,
                      tracked |-> tracked]
    OBVIOUS
  <2>3. pending' = [pending EXCEPT ![c] = p]
    BY <2>1, <2>2 DEF Keep
  <2>4. p \in PendingType
    BY <1>1, <1>2, <2>1, <2>2 DEF TypeOK, PendingType, Decision, IsCommand
  <2>5. p.source = state /\ p.tracked = tracked /\ p.target = d.target
    BY <2>2
  <2> QED
    BY <2>1, <2>3, <2>4, <2>5
<1>5. TypeOK'
  BY <1>1, <1>4 DEF TypeOK
<1>6. ASSUME NEW e \in Commanders, pending'[e] # NoCommand, pending'[e].tracked
      PROVE  /\ request # NoCommand /\ pending'[e].source = request.expected
             /\ request.trigger # "CONTINUE_INVESTIGATION" =>
                   pending'[e].target # request.expected
  <2>1. CASE e = c
    BY <1>1, <1>3, <1>4, <1>6, <2>1 DEF TypeOK
  <2>2. CASE e # c
    BY <1>1, <1>4, <1>6, <2>2 DEF TypeOK, Repeats
  <2> QED
    BY <2>1, <2>2
<1>7. Repeats'
  BY <1>1, <1>6 DEF Repeats
<1> QED
  BY <1>5, <1>7 DEF RepeatInv, IsCommand

LEMMA RepeatCommit ==
  ASSUME RepeatInv, NEW c \in Commanders, CommitTransition(c)
  PROVE  RepeatInv'
<1>1. TypeOK /\ Repeats
  BY DEF RepeatInv
<1>2. PICK p : p = pending[c]
  OBVIOUS
<1>3. /\ p \in PendingType /\ p # NoCommand /\ state = p.source
      /\ state' = p.target /\ revision' = revision + 1
      /\ audit' = [source |-> p.source, target |-> p.target,
                   revision |-> revision + 1]
      /\ pending' = [pending EXCEPT ![c] = NoCommand]
      /\ answered' = IF p.tracked THEN answered \cup {c} ELSE answered
      /\ recorded' = recorded
      /\ applied' = IF p.tracked THEN revision + 1 ELSE applied
      /\ approved' = IF p.trigger = "APPROVE_PLAN" THEN p.plan ELSE approved
      /\ UNCHANGED <<plan, request>>
  BY <1>1, <1>2 DEF TypeOK, CommitTransition, ExpectedRow, WriteTransition
<1>4. TypeOK'
  BY <1>1, <1>3 DEF TypeOK, PendingType
<1>5. p.tracked =>
        /\ request # NoCommand
        /\ request.trigger # "CONTINUE_INVESTIGATION" => p.target # request.expected
  BY <1>1, <1>2, <1>3 DEF Repeats
<1>6. ASSUME NEW e \in Commanders, pending'[e] # NoCommand
      PROVE  pending'[e] = pending[e]
  BY <1>1, <1>3, <1>6 DEF TypeOK
<1>7. /\ applied' <= revision'
      /\ applied' # 0 => request' # NoCommand
      /\ applied' # 0 /\ applied' = revision'
            /\ request'.trigger # "CONTINUE_INVESTIGATION" =>
               state' # request'.expected
  BY <1>1, <1>3, <1>5 DEF TypeOK, Repeats
<1>8. Repeats'
  BY <1>1, <1>3, <1>6, <1>7 DEF Repeats
<1> QED
  BY <1>3, <1>4, <1>8 DEF RepeatInv, IsCommand

LEMMA RepeatStep ==
  ASSUME RepeatInv, [Next]_vars
  PROVE  RepeatInv'
<1>0. TypeOK /\ Repeats /\ (request # NoCommand => IsCommand(request))
  BY DEF RepeatInv
<1>1. CASE SendRequest
  <2>1. PICK cmd \in CommandsFor(state) : request' = cmd
    BY <1>1 DEF SendRequest
  <2>2. IsCommand(request)'
    BY <1>0, <2>1, CommandsAreTyped DEF TypeOK, IsCommand
  <2>3. /\ request = NoCommand
        /\ UNCHANGED <<state, revision, plan, audit, pending, answered,
                       recorded, approved, applied>>
    BY <1>1 DEF SendRequest
  <2>4. Repeats'
    BY <1>0, <2>3 DEF Repeats
  <2> QED
    BY <1>0, <2>2, <2>3, <2>4 DEF RepeatInv, TypeOK
<1>2. CASE RecordPlan
  BY <1>0, <1>2 DEF RecordPlan, RepeatInv, TypeOK, Repeats, IsCommand
<1>3. ASSUME NEW c \in Commanders, ReceiveCommand(c) PROVE RepeatInv'
  <2>1. PICK cmd \in CommandsFor(state) :
          /\ Decide(cmd, state, plan).shouldApply
          /\ Keep(c, cmd, Decide(cmd, state, plan), FALSE)
    BY <1>3 DEF ReceiveCommand
  <2>2. IsCommand(cmd)
    BY <1>0, CommandsAreTyped DEF TypeOK
  <2> QED
    BY <1>3, <2>1, <2>2, RepeatKeep DEF ReceiveCommand
<1>4. ASSUME NEW c \in Commanders, DeliverRequest(c) PROVE RepeatInv'
  <2>1. CASE Decide(request, state, plan).shouldApply
    BY <1>0, <1>4, <2>1, RepeatKeep DEF DeliverRequest
  <2>2. CASE ~Decide(request, state, plan).shouldApply
    <3>1. /\ answered' = answered \cup {c}
          /\ UNCHANGED <<state, revision, plan, audit, pending, request,
                         recorded, approved, applied>>
      BY <1>4, <2>2 DEF DeliverRequest
    <3> QED
      BY <1>0, <3>1 DEF RepeatInv, TypeOK, Repeats, IsCommand
  <2> QED
    BY <2>1, <2>2
<1>5. ASSUME NEW c \in Commanders, CommitTransition(c) PROVE RepeatInv'
  BY <1>5, RepeatCommit
<1>6. ASSUME NEW c \in Commanders, AbandonTransition(c) PROVE RepeatInv'
  <2>1. pending' = [pending EXCEPT ![c] = NoCommand]
        /\ answered' = answered \ {c}
        /\ UNCHANGED <<state, revision, plan, audit, request, recorded,
                       approved, applied>>
    BY <1>6 DEF AbandonTransition
  <2>2. TypeOK'
    BY <1>0, <2>1 DEF TypeOK
  <2>3. ASSUME NEW e \in Commanders, pending'[e] # NoCommand
        PROVE  pending'[e] = pending[e]
    BY <1>0, <2>1, <2>3 DEF TypeOK
  <2> QED
    BY <1>0, <2>1, <2>2, <2>3 DEF RepeatInv, Repeats, IsCommand
<1>7. ASSUME NEW c \in Commanders, KeepRecord(c) PROVE RepeatInv'
  BY <1>0, <1>7 DEF KeepRecord, RepeatInv, TypeOK, Repeats, IsCommand
<1>8. CASE UNCHANGED vars
  BY <1>0, <1>8 DEF vars, RepeatInv, TypeOK, Repeats, IsCommand
<1> QED
  BY <1>1, <1>2, <1>3, <1>4, <1>5, <1>6, <1>7, <1>8 DEF Next

(* However often and to how many commanders a request is delivered, with a *)
(* record of its key or without, and whatever the commanders pass: it is   *)
(* not applied again until another transition has been committed.          *)
THEOREM RepeatsAreApart == Spec => NotAppliedOnTop
<1> DEFINE Apart ==
             applied' # applied /\ applied # 0
                 /\ request.trigger # "CONTINUE_INVESTIGATION"
               => revision > applied
<1>1. ASSUME RepeatInv, [Next]_vars PROVE Apart
  <2>1. ASSUME NEW c \in Commanders, CommitTransition(c) PROVE Apart
    <3>1. /\ pending[c] # NoCommand /\ state = pending[c].source
          /\ applied' # applied => pending[c].tracked
      BY <2>1 DEF CommitTransition, ExpectedRow
    <3>2. applied \in Nat /\ revision \in Nat /\ Repeats
      BY <1>1 DEF RepeatInv, TypeOK
    <3> QED
      BY <3>1, <3>2 DEF Repeats
  <2>2. CASE UNCHANGED applied
    BY <2>2
  <2> QED
    BY <1>1, <2>1, <2>2 DEF Next, SendRequest, RecordPlan, ReceiveCommand,
                            DeliverRequest, KeepRecord, AbandonTransition, vars
<1>2. Init => RepeatInv
  BY RepeatInit
<1>3. RepeatInv /\ [Next]_vars => RepeatInv'
  BY RepeatStep
<1>4. RepeatInv /\ [Next]_vars => [Apart]_vars
  BY <1>1
<1> QED BY <1>2, <1>3, <1>4, PTL DEF Spec, NotAppliedOnTop

-----------------------------------------------------------------------------
(* The gates *)

(* The states a task can be in while the gate is still to come.            *)
Before == [gate \in Gates |->
    TaskState \ CASE gate = "APPLYING" -> {"APPLYING", "COMPLETED"}
                  [] gate = "READY_TO_APPLY" ->
                        {"READY_TO_APPLY", "APPLYING", "NOT_APPLIED", "COMPLETED"}
                  [] gate = "VERIFYING" ->
                        {"VERIFYING", "AWAITING_USER_CONFIRMATION", "READY_TO_APPLY",
                         "APPLYING", "NOT_APPLIED", "COMPLETED"}]

LEMMA EverySetHasALeast ==
  ASSUME NEW T \in SUBSET Nat, T # {}
  PROVE  \E x \in T : \A y \in T : x <= y
<1> DEFINE Less == {ss \in Nat \X Nat : ss[1] < ss[2]}
<1>1. IsWellFoundedOn(Less, Nat)
  <2>1. OpToRel(<, Nat) = Less
    BY DEF OpToRel
  <2> QED
    BY <2>1, NatLessThanWellFounded
<1> HIDE DEF Less
<1>2. PICK x \in T : \A y \in T : ~ (<<y, x>> \in Less)
  BY <1>1, WFMin
<1>3. ASSUME NEW y \in T PROVE x <= y
  <2>1. x \in Nat /\ y \in Nat
    OBVIOUS
  <2>2. y < x => <<y, x>> \in Less
    BY <2>1 DEF Less
  <2> QED
    BY <1>2, <2>1, <2>2
<1> QED
  BY <1>3

LEMMA StatesAreFinite == Cardinality(TaskState) \in Nat
<1> DEFINE some == <<"INVESTIGATING", "EXECUTING", "VERIFYING", "APPLYING",
                     "ROLLING_BACK", "COMPLETED", "NOT_APPLIED", "FAILED",
                     "CANCELLED", "DRAFT">>
           others == <<"AWAITING_CLARIFICATION", "AWAITING_PLAN_APPROVAL",
                       "READY_TO_EXECUTE", "AWAITING_ACTION_APPROVAL",
                       "AWAITING_BUDGET_APPROVAL", "AWAITING_USER_CONFIRMATION",
                       "READY_TO_APPLY", "RECOVERY_REQUIRED",
                       "AWAITING_PROVIDER_UNLOCK", "BLOCKED">>
           S == {"INVESTIGATING", "EXECUTING", "VERIFYING", "APPLYING",
                     "ROLLING_BACK", "COMPLETED", "NOT_APPLIED", "FAILED",
                     "CANCELLED", "DRAFT"}
           T == TaskState \ S
<1>1. IsFiniteSet(1..10)
  <2>1. 1 \in Int /\ 10 \in Int
    OBVIOUS
  <2> QED
    BY <2>1, FS_Interval
<1>2. some \in Surjection(1..10, S)
  BY DEF Surjection
<1>3. others \in Surjection(1..10, T)
  BY DEF Surjection, TaskState, ActiveStates, TerminalStates
<1>4. IsFiniteSet(S) /\ IsFiniteSet(T)
  BY <1>1, <1>2, <1>3, FS_Surjection
<1>5. TaskState = S \cup T
  BY DEF TaskState, ActiveStates, TerminalStates
<1> HIDE DEF S, T
<1> QED
  BY <1>4, <1>5, FS_Union, FS_CardinalityType

(* A step of the table from before a gate stays there or enters the gate.  *)
LEMMA GateIsNext ==
  ASSUME NEW gate \in Gates, NEW s \in Before[gate], NEW x \in StepsFrom[s]
  PROVE  x \in Before[gate] \cup {gate}
<1>1. s \in TaskState
  BY DEF Before
<1>2. PICK t \in TransitionTrigger,
           r \in {NoReason} \cup BlockedReason \cup UnrecoverableFailureReason,
           u \in BOOLEAN :
             x = Decide(Command(t, s, 0, r, AllPreconditions, u), s, 0).target
  BY <1>1 DEF StepsFrom
<1> DEFINE cmd == Command(t, s, 0, r, AllPreconditions, u)
<1>3. \/ x = s \/ x = "RECOVERY_REQUIRED"
      \/ x = TargetFor(cmd, s) /\ x \notin {"illegal", "reason"}
  BY <1>2 DEF Decide, Denied, Permitted, RecoveryNoop
<1>4. {"CANCELLED", "BLOCKED", "FAILED", "RECOVERY_REQUIRED"}
          \subseteq Before[gate]
  BY DEF Before, Gates, TaskState, TerminalStates
<1>5. CASE x = TargetFor(cmd, s) /\ x \notin {"illegal", "reason"}
  <2>1. CASE cmd.trigger \in {"CANCEL_TASK", "ENTER_BLOCKED", "FAIL_UNRECOVERABLY"}
    <3>1. x \in {"CANCELLED", "BLOCKED", "FAILED"}
      BY <1>5, <2>1 DEF TargetFor, SpecialTarget
    <3> QED
      BY <1>4, <3>1
  <2>2. CASE cmd.trigger \notin {"CANCEL_TASK", "ENTER_BLOCKED", "FAIL_UNRECOVERABLY"}
    <3>1. x = TableTarget(cmd, s)
      BY <1>5, <2>2 DEF TargetFor
    <3>2. PICK row \in Transitions : row[1] = s /\ x = row[3]
      BY <1>5, <3>1 DEF TableTarget
    <3>3. row[1] \in Before[gate] => row[3] \in Before[gate] \cup {gate}
      BY DEF Before, Gates, Transitions, TaskState, ActiveStates,
             TerminalStates
    <3> QED
      BY <3>2, <3>3
  <2> QED
    BY <2>1, <2>2
<1> QED
  BY <1>3, <1>4, <1>5

(* Hence a path that does not enter the gate stays before it, by induction *)
(* over its length: the shortest one that did not would have a last step.  *)
LEMMA AroundStaysBefore ==
  ASSUME NEW gate \in Gates, NEW s \in Before[gate]
  PROVE  ReachedAround[gate][s] \subseteq Before[gate]
<1> DEFINE N == Cardinality(TaskState)
           More(set) == set \cup ((UNION {StepsFrom[b] : b \in set}) \ {gate})
           UpTo(n, f) == f = [i \in 0..n |-> IF i = 0 THEN {s} ELSE More(f[i - 1])]
           Around == CHOOSE f : UpTo(N, f)
<1>1. N \in Nat
  BY StatesAreFinite
<1>2. s \in TaskState
  BY DEF Before
<1>3. ReachedAround[gate][s] = Around[N]
  BY <1>2 DEF ReachedAround
<1> HIDE DEF N
<1>4. \E f : UpTo(N, f)
  <2> DEFINE Bad == {n \in Nat : ~\E f : UpTo(n, f)}
  <2>1. SUFFICES ASSUME Bad # {} PROVE FALSE
    BY <1>1
  <2>2. PICK n \in Bad : \A m \in Bad : n <= m
    BY <2>1, EverySetHasALeast
  <2>3. CASE n = 0
    <3> DEFINE one == [i \in 0..0 |-> {s}]
    <3>1. UpTo(0, one)
      OBVIOUS
    <3> QED
      BY <2>2, <2>3, <3>1
  <2>4. CASE n # 0
    <3>1. n \in Nat /\ n - 1 \in Nat /\ n - 1 \notin Bad
      <4>1. n \in Nat /\ n # 0
        BY <2>2, <2>4
      <4>2. n - 1 \in Nat /\ ~(n <= n - 1)
        BY <4>1
      <4> HIDE DEF Bad
      <4> QED
        BY <2>2, <4>1, <4>2
    <3>2. PICK f : UpTo(n - 1, f)
      BY <3>1
    <3> DEFINE g == [i \in 0..n |-> IF i < n THEN f[i] ELSE More(f[n - 1])]
    <3>3. \A i \in 0..n : g[i] = IF i = 0 THEN {s} ELSE More(g[i - 1])
      <4> HIDE DEF More
      <4>1. \A i \in 0..(n - 1) : f[i] = IF i = 0 THEN {s} ELSE More(f[i - 1])
        BY <3>1, <3>2
      <4>2. ASSUME NEW i \in 0..n, i < n
            PROVE  g[i] = f[i] /\ (i # 0 => g[i - 1] = f[i - 1])
                   /\ i \in 0..(n - 1)
        <5>1. i \in 0..(n - 1) /\ (i # 0 => i - 1 \in 0..n /\ i - 1 < n)
          BY <3>1, <4>2
        <5> QED
          BY <4>2, <5>1
      <4>3. g[n] = More(f[n - 1]) /\ g[n - 1] = f[n - 1]
        <5>1. n \in 0..n /\ n - 1 \in 0..n /\ n - 1 < n /\ ~(n < n)
          BY <3>1
        <5> QED
          BY <5>1
      <4>4. ASSUME NEW i \in 0..n, ~(i < n) PROVE i = n
        BY <3>1, <4>4
      <4> HIDE DEF g
      <4> QED
        BY <2>4, <4>1, <4>2, <4>3, <4>4
    <3>4. UpTo(n, g)
      <4> HIDE DEF More
      <4> QED
        BY <3>3
    <3> QED
      BY <2>2, <3>4
  <2> QED
    BY <2>3, <2>4
<1>5. UpTo(N, Around)
  BY <1>4
<1> HIDE DEF Around
<1>6. ASSUME NEW set \in SUBSET Before[gate]
      PROVE  More(set) \subseteq Before[gate]
  <2> SUFFICES ASSUME NEW x \in More(set), x \notin set
               PROVE  x \in Before[gate]
    OBVIOUS
  <2>1. PICK b \in set : x \in StepsFrom[b]
    <3>1. PICK after \in {StepsFrom[b] : b \in set} : x \in after
      OBVIOUS
    <3> QED
      BY <3>1
  <2>2. x # gate
    OBVIOUS
  <2> QED
    BY <2>1, <2>2, GateIsNext
<1>7. Around[0] = {s}
      /\ \A i \in 1..N : Around[i] = More(Around[i - 1])
  <2> HIDE DEF More
  <2>1. \A i \in 0..N : Around[i] = IF i = 0 THEN {s} ELSE More(Around[i - 1])
    BY <1>5
  <2>2. 0 \in 0..N /\ \A i \in 1..N : i \in 0..N /\ i # 0
    BY <1>1
  <2> QED
    BY <2>1, <2>2
<1> HIDE DEF More, UpTo
<1>8. \A i \in 0..N : Around[i] \subseteq Before[gate]
  <2> DEFINE Bad == {i \in 0..N : ~(Around[i] \subseteq Before[gate])}
  <2>1. SUFFICES ASSUME Bad # {} PROVE FALSE
    OBVIOUS
  <2>2. PICK n \in Bad : \A m \in Bad : n <= m
    <3>1. Bad \in SUBSET Nat
      BY <1>1
    <3> HIDE DEF Bad
    <3> QED
      BY <2>1, <3>1, EverySetHasALeast
  <2>3. n # 0
    BY <1>7, <2>2
  <2>4. n \in 1..N /\ n - 1 \in 0..N /\ n - 1 \notin Bad
    BY <1>1, <2>2, <2>3
  <2> QED
    BY <1>6, <1>7, <2>2, <2>4
<1> QED
  BY <1>1, <1>3, <1>8

(* A task that investigates or executes is verified, offered and confirmed *)
(* before it is completed: whatever the commanders pass, the table has no  *)
(* other path.                                                             *)
THEOREM GatesAreMet == Spec => []CompletedThroughGates
<1>1. CompletedThroughGates
  <2> SUFFICES ASSUME state \in {"INVESTIGATING", "EXECUTING"},
                      NEW gate \in Gates
               PROVE  "COMPLETED" \notin ReachedAround[gate][state]
    BY DEF CompletedThroughGates
  <2>1. state \in Before[gate] /\ "COMPLETED" \notin Before[gate]
    BY DEF Before, Gates, TaskState, ActiveStates
  <2> QED
    BY <2>1, AroundStaysBefore
<1> QED
  BY <1>1, PTL
=============================================================================
