----------------------------- MODULE AgentLoop -----------------------------
(***************************************************************************)
(* One call of AgentLoop.run (agent/loop.py) with the stopping rules of    *)
(* agent/stopping.py: context, attempt marker, provider call, policy, tool *)
(* and feedback, again and again, until a rule says stop.                  *)
(*                                                                         *)
(* Provider, policy, tool, clock and store are ports: each may raise or    *)
(* return anything, which ends the run as INVALID_OR_OUT_OF_SCOPE.  An     *)
(* action stands for what its signature keeps of it.                       *)
(***************************************************************************)
EXTENDS Integers, Sequences

CONSTANTS
    Investigations,     \* read-only tool actions, by signature
    max_rounds, max_tool_calls, no_progress_limit       \* StopLimits

ASSUME LimitsAssumption ==
    /\ max_rounds \in Nat \ {0}
    /\ max_tool_calls \in Nat \ {0}
    /\ no_progress_limit \in Nat \ {0}

VARIABLES
    pc,                 \* where run is
    acceptanceComplete, \* the argument acceptance_complete
    rounds, toolCalls,
    progress,           \* the ProgressRecord, count 0 for None
    latest,             \* attempts[-1], NoAttempt if there is none
    context,            \* the context built for this round
    action,             \* the action of this round
    reason,             \* the reason of the LoopResult
    persisted,          \* attempt markers in the store
    called,             \* history: provider calls made
    seen                \* history: signatures observed, in order

vars == <<pc, acceptanceComplete, rounds, toolCalls, progress, latest,
          context, action, reason, persisted, called, seen>>

-----------------------------------------------------------------------------
(* Data *)

ToolResultStatus == {"SUCCEEDED", "FAILED", "DENIED", "TRUNCATED"}

\* The failure code of a signature follows from the status.
Signature == Investigations \X ToolResultStatus

StopReason ==
    {"INVALID_OR_OUT_OF_SCOPE", "AWAITING_APPROVAL", "COMPLETED", "BLOCKED",
     "FAILED", "CANCELLED", "BUDGET_EXHAUSTED", "NO_PROGRESS", "CONTINUE"}

ControlReasons ==
    [propose_plan |-> "AWAITING_APPROVAL",
     request_user |-> "AWAITING_APPROVAL",      \* the three request_ actions
     report_blocked |-> "BLOCKED",
     stop_with_failure |-> "FAILED",
     stop_without_safe_action |-> "CANCELLED"]

ControlActions == DOMAIN ControlReasons

OtherTools == {"write_tool"}    \* tools that do not only read

Actions == Investigations \cup ControlActions \cup OtherTools

NoSignature == <<>>
NoAttempt == <<>>
NoAction == "none"
NoContext == [attempt |-> NoAttempt, truncated |-> FALSE]

-----------------------------------------------------------------------------
(* agent/stopping.py *)

\* Mutant: the limits are checked with > instead of >=.
Evaluate_OffByOne(completed, r, t, count) ==
    IF completed THEN "COMPLETED"
    ELSE IF r > max_rounds \/ t > max_tool_calls
    THEN "BUDGET_EXHAUSTED"
    ELSE IF count >= no_progress_limit THEN "NO_PROGRESS" ELSE "CONTINUE"

\* StopController.evaluate, for the snapshots the loop passes
Evaluate(completed, r, t, count) ==
    IF completed THEN "COMPLETED"
    ELSE IF r >= max_rounds \/ t >= max_tool_calls
    THEN "BUDGET_EXHAUSTED"
    ELSE IF count >= no_progress_limit THEN "NO_PROGRESS" ELSE "CONTINUE"

\* Mutant: the count restarts when the action differs, whatever its result.
Advance_ActionOnly(previous, signature) ==
    [signature |-> signature,
     count |-> IF previous.count > 0 /\ previous.signature[1] = signature[1]
               THEN previous.count + 1 ELSE 1]

\* advance_no_progress; the ProgressState is the same in one run.
Advance(previous, signature) ==
    [signature |-> signature,
     count |-> IF previous.count > 0 /\ previous.signature = signature
               THEN previous.count + 1 ELSE 1]

-----------------------------------------------------------------------------
(* AgentLoop.run *)

Init ==
    /\ pc = "top"
    /\ acceptanceComplete \in BOOLEAN
    /\ rounds = 0 /\ toolCalls = 0
    /\ progress = [signature |-> NoSignature, count |-> 0]
    /\ latest = NoAttempt
    /\ context = NoContext
    /\ action = NoAction
    /\ reason = "CONTINUE"
    /\ persisted = 0 /\ called = 0
    /\ seen = <<>>

Stop(why) == pc' = "done" /\ reason' = why

Goto(label) == pc' = label /\ UNCHANGED reason

\* The rest of the loop is in the try blocks: any exception, a result of the
\* wrong type or of another action, ...
Invalid == Stop("INVALID_OR_OUT_OF_SCOPE")

Top ==
    /\ pc = "top"
    /\ LET why == Evaluate(acceptanceComplete, rounds, toolCalls, progress.count)
       IN IF why = "CONTINUE" THEN Goto("context") ELSE Stop(why)
    /\ UNCHANGED <<acceptanceComplete, rounds, toolCalls, progress, latest,
                   context, action, persisted, called, seen>>

\* Mutant: what does not fit is dropped without a mark.
BuildContext_Unmarked ==
    /\ pc = "context"
    /\ \E fits \in BOOLEAN :
          context' = [attempt |-> IF fits THEN latest ELSE NoAttempt,
                      truncated |-> FALSE]
    /\ rounds' = rounds + 1
    /\ Goto("store")
    /\ UNCHANGED <<acceptanceComplete, toolCalls, progress, latest, action,
                   persisted, called, seen>>

\* ContextBuilder.build for the last element of the history, if there is one:
\* it is in the context if it fits into max_context_bytes with the task, and
\* the context is marked as truncated if not.
BuiltContext(history, fits) ==
    IF history = NoAttempt \/ fits
    THEN [attempt |-> history, truncated |-> FALSE]
    ELSE [attempt |-> NoAttempt, truncated |-> TRUE]

\* Without room for the task build raises.
BuildContext ==
    /\ pc = "context"
    /\ \/ \E fits \in BOOLEAN :
             /\ context' = BuiltContext(latest, fits)
             /\ rounds' = rounds + 1
             /\ Goto("store")
       \/ Invalid /\ UNCHANGED <<context, rounds>>
    /\ UNCHANGED <<acceptanceComplete, toolCalls, progress, latest, action,
                   persisted, called, seen>>

\* Mutant: the loop goes on when the store could not write the marker.
RecordAttempt_Optional ==
    /\ pc = "store"
    /\ \E stored \in {0, 1} : persisted' = persisted + stored
    /\ Goto("llm")
    /\ UNCHANGED <<acceptanceComplete, rounds, toolCalls, progress, latest,
                   context, action, called, seen>>

\* record_attempt may fail before or after the marker is stored.
RecordAttempt ==
    /\ pc = "store"
    /\ \/ persisted' = persisted + 1 /\ Goto("llm")
       \/ \E stored \in {0, 1} : persisted' = persisted + stored /\ Invalid
    /\ UNCHANGED <<acceptanceComplete, rounds, toolCalls, progress, latest,
                   context, action, called, seen>>

\* The provider answers with an action, fails, or answers with garbage.
Complete ==
    /\ pc = "llm"
    /\ called' = called + 1
    /\ \/ \E a \in Actions : action' = a /\ Goto("policy")
       \/ UNCHANGED action /\ Invalid
    /\ UNCHANGED <<acceptanceComplete, rounds, toolCalls, progress, latest,
                   context, persisted, seen>>

Policy ==
    /\ pc = "policy"
    /\ Goto("control") \/ Invalid
    /\ UNCHANGED <<acceptanceComplete, rounds, toolCalls, progress, latest,
                   context, action, persisted, called, seen>>

\* A proposal that is not well formed is invalid, and so is a tool that is
\* not an investigation.
Control ==
    /\ pc = "control"
    /\ CASE action = "propose_plan" -> Stop(ControlReasons[action]) \/ Invalid
         [] action \in ControlActions \ {"propose_plan"} ->
                Stop(ControlReasons[action])
         [] action \in OtherTools -> Invalid
         [] OTHER -> Goto("tool")
    /\ UNCHANGED <<acceptanceComplete, rounds, toolCalls, progress, latest,
                   context, action, persisted, called, seen>>

\* Mutant: a denied call goes back to the policy and does not count.
Execute_AsksAgain ==
    /\ pc = "tool"
    /\ \/ /\ toolCalls' = toolCalls + 1
          /\ \E status \in ToolResultStatus :
                latest' = <<action, status>> /\ Goto("observe")
       \/ UNCHANGED <<toolCalls, latest>> /\ Goto("policy")
    /\ UNCHANGED <<acceptanceComplete, rounds, progress, context, action,
                   persisted, called, seen>>

\* The call counts before it is made.
Execute ==
    /\ pc = "tool"
    /\ toolCalls' = toolCalls + 1
    /\ \/ \E status \in ToolResultStatus :
             latest' = <<action, status>> /\ Goto("observe")
       \/ UNCHANGED latest /\ Invalid
    /\ UNCHANGED <<acceptanceComplete, rounds, progress, context, action,
                   persisted, called, seen>>

\* observation_signature refuses parameters outside its schema; then progress
\* is as it was.
Observe ==
    /\ pc = "observe"
    /\ \/ LET next == Advance(progress, latest)
              why == Evaluate(FALSE, rounds, toolCalls, next.count)
          IN /\ progress' = next
             /\ seen' = Append(seen, latest)
             /\ IF why = "CONTINUE" THEN Goto("top") ELSE Stop(why)
       \/ Invalid /\ UNCHANGED <<progress, seen>>
    /\ UNCHANGED <<acceptanceComplete, rounds, toolCalls, latest, context,
                   action, persisted, called>>

Next ==
    \/ Top \/ BuildContext \/ RecordAttempt \/ Complete \/ Policy \/ Control
    \/ Execute \/ Observe

\* run is one thread, and every call of a port returns or raises.
Spec == Init /\ [][Next]_vars /\ WF_vars(Next)

-----------------------------------------------------------------------------
(* Properties *)

\* Every variable keeps its type; the reason is one of the closed set.
TypeOK ==
    /\ pc \in {"top", "context", "store", "llm", "policy", "control", "tool",
               "observe", "done"}
    /\ acceptanceComplete \in BOOLEAN
    /\ rounds \in Nat /\ toolCalls \in Nat
    /\ progress \in [signature : Signature \cup {NoSignature}, count : Nat]
    /\ latest \in Signature \cup {NoAttempt}
    /\ context \in [attempt : Signature \cup {NoAttempt}, truncated : BOOLEAN]
    /\ action \in Actions \cup {NoAction}
    /\ reason \in StopReason
    /\ persisted \in Nat /\ called \in Nat
    /\ seen \in Seq(Signature)

\* No provider call without its attempt marker: whatever is lost, the store
\* knows of at least as many attempts as the provider, and of no more than
\* rounds were begun.
AttemptsPersisted == called <= persisted /\ persisted <= rounds

\* The last n observations are all the same.
Stuck(n) ==
    /\ n <= Len(seen)
    /\ \A i \in (Len(seen) - n + 1)..Len(seen) : seen[i] = seen[Len(seen)]

\* The loop stays within its limits: rounds, tool calls, and observations
\* without progress.
WithinLimits ==
    /\ rounds <= max_rounds
    /\ toolCalls <= max_tool_calls
    /\ ~Stuck(no_progress_limit + 1)

\* What it says it stopped for is so: the limit is used up, or the last
\* no_progress_limit observations are the same.
ReasonHolds ==
    /\ reason = "NO_PROGRESS" => Stuck(no_progress_limit)
    /\ reason = "BUDGET_EXHAUSTED" =>
           rounds = max_rounds \/ toolCalls = max_tool_calls
    /\ reason = "COMPLETED" => acceptanceComplete /\ rounds = 0

\* The loop keeps its limits and says why it stopped: both, at the end and
\* at every moment before it.
LimitsHold == WithinLimits /\ ReasonHolds

\* The provider is called with the outcome of the tool call of the round
\* before, a failure above all, or is told that the context is truncated.
FeedbackReachesProvider ==
    pc = "llm" /\ seen # <<>> =>
        context.attempt = seen[Len(seen)] \/ context.truncated

\* The loop stops, whatever the provider proposes.
LoopStops == <>(pc = "done")
=============================================================================
