----------------------------- MODULE Agent_proofs -----------------------------
(***************************************************************************)
(* The agent loop keeps its limits and tells the provider what happened,   *)
(* for any limits and actions, and whatever provider, policy, tools and    *)
(* store answer; the provider gateway keeps its request budget, for any    *)
(* limit and however many threads; the evidence of a sandboxed execution   *)
(* is true, for any number of them and whatever times out, is lost, is     *)
(* answered late or is handled late.                                       *)
(***************************************************************************)
EXTENDS AgentLoop, ContainerLifecycle, ProviderGateway, SequenceTheorems,
        FiniteSetTheorems, TLAPS

(* Where the loop is: before the tool call of a round, the limits are not  *)
(* used up; the first test of acceptance_complete is the only one.         *)
Position ==
    /\ rounds <= max_rounds /\ toolCalls <= max_tool_calls
    /\ pc = "context" => rounds < max_rounds
    /\ pc \notin {"top", "observe", "done"} => toolCalls < max_tool_calls
    /\ progress.count <= no_progress_limit
    /\ pc # "done" => progress.count < no_progress_limit
    /\ pc # "done" => reason = "CONTINUE"
    /\ acceptanceComplete => pc \in {"top", "done"} /\ rounds = 0
    /\ pc = "observe" => latest \in Signature
    /\ pc \in {"policy", "control"} => action \in Actions
    /\ pc = "tool" => action \in Investigations

(* The ProgressRecord counts how often the last observation was made in a  *)
(* row: the loop knows no more of what it has seen.                        *)
Counted ==
    /\ progress.count <= Len(seen)
    /\ seen # <<>> => progress.count > 0 /\ progress.signature = seen[Len(seen)]
    /\ \A i \in (Len(seen) - progress.count + 1)..Len(seen) :
          seen[i] = progress.signature
    /\ progress.count < Len(seen) =>
          seen[Len(seen) - progress.count] # progress.signature

(* Until the next tool call, the latest attempt is the last observation.   *)
Current ==
    /\ pc \notin {"observe", "done"} /\ seen # <<>> => latest = seen[Len(seen)]
    /\ pc \in {"store", "llm"} /\ seen # <<>> =>
          context.attempt = seen[Len(seen)] \/ context.truncated

(* Markers and calls of this round *)
Marked ==
    /\ called <= persisted /\ persisted <= rounds
    /\ pc \in {"store"} => persisted < rounds
    /\ pc \in {"llm"} => called < persisted

(* What the loop has stopped for *)
Reasoned ==
    /\ reason = "NO_PROGRESS" => progress.count = no_progress_limit
    /\ reason = "BUDGET_EXHAUSTED" =>
          rounds = max_rounds \/ toolCalls = max_tool_calls
    /\ reason = "COMPLETED" => acceptanceComplete /\ rounds = 0

LoopInv == TypeOK /\ Position /\ Counted /\ Current /\ Marked /\ Reasoned

-----------------------------------------------------------------------------
(* The count is the length of the last run of equal observations.          *)
LEMMA StuckIsCounted ==
  ASSUME TypeOK, Counted, NEW n \in Nat \ {0}
  PROVE  Stuck(n) <=> n <= progress.count
<1> DEFINE l == Len(seen)
           k == progress.count
<1>0. l \in Nat /\ k \in Nat /\ k <= l
  BY DEF TypeOK, Counted
<1>1. (\A i \in (l - k + 1)..l : seen[i] = progress.signature)
      /\ (l # 0 => progress.signature = seen[l] /\ k > 0)
      /\ (k < l => seen[l - k] # progress.signature)
  BY DEF TypeOK, Counted
<1>2. Stuck(n) <=> n <= l /\ \A i \in (l - n + 1)..l : seen[i] = seen[l]
  BY DEF Stuck
<1> HIDE DEF l, k
<1>3. ASSUME n <= k PROVE Stuck(n)
  <2>1. l # 0 /\ n <= l
    BY <1>0, <1>3
  <2>2. ASSUME NEW i \in (l - n + 1)..l PROVE i \in (l - k + 1)..l
    BY <1>0, <1>3
  <2> QED BY <1>1, <1>2, <2>1, <2>2
<1>4. ASSUME Stuck(n), ~(n <= k) PROVE FALSE
  <2>1. n <= l /\ k < l /\ l # 0
    BY <1>0, <1>2, <1>4
  <2>2. l - k \in (l - n + 1)..l
    BY <1>0, <1>4
  <2> QED BY <1>1, <1>2, <1>4, <2>1, <2>2
<1> QED BY <1>3, <1>4 DEF k

LEMMA LoopInit == Init => LoopInv
<1> SUFFICES ASSUME Init PROVE LoopInv
  OBVIOUS
<1>1. TypeOK
  BY DEF Init, TypeOK, NoSignature, NoAttempt, NoContext, NoAction, StopReason
<1>2. seen = <<>> /\ Len(seen) = 0 /\ progress.count = 0
  BY DEF Init
<1>3. Counted /\ Current
  BY <1>2 DEF Init, Counted, Current
<1>4. Position /\ Marked /\ Reasoned
  BY <1>2, LimitsAssumption DEF Init, Position, Marked, Reasoned
<1> QED BY <1>1, <1>3, <1>4 DEF LoopInv

LEMMA TypeStep ==
  ASSUME LoopInv, [Next]_vars
  PROVE  TypeOK'
<1> USE DEF TypeOK, Goto, Stop, Invalid, StopReason
<1>0. TypeOK /\ Position
  BY DEF LoopInv
<1>1. CASE Top
  BY <1>0, <1>1 DEF Top, Evaluate
<1>2. CASE BuildContext
  <2>1. context' \in [attempt : Signature \cup {NoAttempt}, truncated : BOOLEAN]
    <3>1. CASE context' = [attempt |-> latest, truncated |-> FALSE]
      BY <1>0, <3>1
    <3>2. CASE context' = [attempt |-> NoAttempt, truncated |-> TRUE]
      BY <3>2
    <3>3. CASE context' = context
      BY <1>0, <3>3
    <3> QED BY <1>2, <3>1, <3>2, <3>3 DEF BuildContext, BuiltContext
  <2> QED BY <1>0, <1>2, <2>1 DEF BuildContext
<1>3. CASE RecordAttempt
  BY <1>0, <1>3 DEF RecordAttempt
<1>4. CASE Complete
  BY <1>0, <1>4 DEF Complete
<1>5. CASE Policy
  BY <1>0, <1>5 DEF Policy
<1>6. CASE Control
  BY <1>0, <1>6 DEF Control, ControlActions, ControlReasons
<1>7. CASE Execute
  BY <1>0, <1>7 DEF Execute, Signature, Position
<1>8. CASE Observe
  <2>1. latest \in Signature
    BY <1>0, <1>8 DEF Observe, Position
  <2>2. Advance(progress, latest) \in [signature : Signature, count : Nat]
    BY <1>0, <2>1 DEF Advance
  <2>3. progress' \in [signature : Signature \cup {NoSignature}, count : Nat]
    BY <1>0, <1>8, <2>2 DEF Observe
  <2>4. seen' \in Seq(Signature)
    <3>1. seen \in Seq(Signature) /\ Append(seen, latest) \in Seq(Signature)
      BY <1>0, <2>1, AppendProperties
    <3> QED BY <1>8, <3>1 DEF Observe
  <2>5. pc' \in {"top", "done"} /\ reason' \in StopReason
    BY <1>0, <1>8 DEF Observe, Evaluate
  <2> QED BY <1>0, <1>8, <2>3, <2>4, <2>5 DEF Observe
<1>9. CASE UNCHANGED vars
  BY <1>0, <1>9 DEF vars
<1> QED
  BY <1>1, <1>2, <1>3, <1>4, <1>5, <1>6, <1>7, <1>8, <1>9 DEF Next

(* Only Observe counts: one more of the same, or the first of another.     *)
LEMMA CountStep ==
  ASSUME LoopInv, [Next]_vars
  PROVE  Counted'
<1>0. TypeOK /\ Position /\ Counted
  BY DEF LoopInv
<1>1. CASE UNCHANGED <<progress, seen>>
  BY <1>0, <1>1 DEF Counted
<1>2. CASE Observe /\ progress' = Advance(progress, latest)
           /\ seen' = Append(seen, latest)
  <2> DEFINE l == Len(seen)
             k == progress.count
  <2>1. /\ l \in Nat /\ k \in Nat /\ k <= l /\ seen \in Seq(Signature)
        /\ latest \in Signature /\ progress' = Advance(progress, latest)
        /\ progress \in [signature : Signature \cup {NoSignature}, count : Nat]
    BY <1>0, <1>2 DEF TypeOK, Counted, Position, Observe
  <2>2. /\ Len(seen') = l + 1 /\ seen'[l + 1] = latest
        /\ \A i \in 1..l : seen'[i] = seen[i]
    BY <1>2, <2>1, AppendProperties
  <2>3. /\ \A i \in (l - k + 1)..l : seen[i] = progress.signature
        /\ k < l => seen[l - k] # progress.signature
        /\ l # 0 => k > 0 /\ progress.signature = seen[l]
    BY <1>0, <2>1 DEF Counted
  <2>4. progress' = [signature |-> latest,
                     count |-> IF k > 0 /\ progress.signature = latest
                               THEN k + 1 ELSE 1]
    BY <2>1 DEF Advance
  <2> HIDE DEF l, k
  <2>5. l \in Int /\ k \in Int /\ 0 <= k /\ k <= l
    BY <2>1
  <2>6. CASE k > 0 /\ progress.signature = latest
    <3>1. progress'.signature = latest /\ progress'.count = k + 1
      BY <2>4, <2>6
    <3>2. ASSUME NEW i \in (l + 1 - (k + 1) + 1)..(l + 1) PROVE seen'[i] = latest
      <4>1. i = l + 1 \/ (i \in (l - k + 1)..l /\ i \in 1..l)
        BY <2>5
      <4> QED BY <2>2, <2>3, <2>6, <4>1
    <3>3. k + 1 < l + 1 => seen'[l + 1 - (k + 1)] # latest
      <4>1. l + 1 - (k + 1) = l - k
        BY <2>5
      <4>2. ASSUME k + 1 < l + 1 PROVE k < l /\ l - k \in 1..l
        BY <2>1, <4>2
      <4> QED BY <2>2, <2>3, <2>6, <4>1, <4>2
    <3>4. k + 1 <= l + 1 /\ k + 1 > 0
      BY <2>1
    <3>5. Counted'
      <4> USE <2>2, <3>1
      <4>1. progress'.count <= Len(seen') /\ progress'.count > 0
        BY <3>4
      <4>2. progress'.signature = seen'[Len(seen')]
        OBVIOUS
      <4>3. \A i \in (Len(seen') - progress'.count + 1)..Len(seen') :
               seen'[i] = progress'.signature
        BY <2>5, <3>2
      <4>4. progress'.count < Len(seen') =>
               seen'[Len(seen') - progress'.count] # progress'.signature
        BY <2>5, <3>3
      <4> QED BY <4>1, <4>2, <4>3, <4>4 DEF Counted
    <3> QED BY <3>5
  <2>7. CASE ~(k > 0 /\ progress.signature = latest)
    <3>1. progress'.signature = latest /\ progress'.count = 1
      BY <2>4, <2>7
    <3>2. ASSUME NEW i \in (l + 1 - 1 + 1)..(l + 1) PROVE seen'[i] = latest
      BY <2>1, <2>2
    <3>3. 1 < l + 1 => seen'[l + 1 - 1] # latest
      <4>1. l + 1 - 1 = l /\ (1 < l + 1 => l # 0 /\ l \in 1..l)
        BY <2>1
      <4> QED BY <2>2, <2>3, <2>7, <4>1
    <3>4. 1 <= l + 1
      BY <2>1
    <3>5. Counted'
      <4> USE <2>2, <3>1
      <4>1. progress'.count <= Len(seen') /\ progress'.count > 0
        BY <3>4
      <4>2. progress'.signature = seen'[Len(seen')]
        OBVIOUS
      <4>3. \A i \in (Len(seen') - progress'.count + 1)..Len(seen') :
               seen'[i] = progress'.signature
        BY <2>5, <3>2
      <4>4. progress'.count < Len(seen') =>
               seen'[Len(seen') - progress'.count] # progress'.signature
        BY <2>5, <3>3
      <4> QED BY <4>1, <4>2, <4>3, <4>4 DEF Counted
    <3> QED BY <3>5
  <2> QED BY <2>6, <2>7
<1> QED
  BY <1>1, <1>2 DEF Next, Top, BuildContext, RecordAttempt, Complete, Policy,
                    Control, Execute, Observe, vars

LEMMA PositionStep ==
  ASSUME LoopInv, [Next]_vars
  PROVE  Position' /\ Reasoned'
<1> USE DEF Goto, Stop, Invalid
<1>0. TypeOK /\ Position /\ Counted /\ Reasoned
  BY DEF LoopInv
<1> USE DEF TypeOK, Position, Reasoned
<1>1. CASE Top
  BY <1>0, <1>1, LimitsAssumption DEF Top, Evaluate
<1>2. CASE BuildContext
  BY <1>0, <1>2, LimitsAssumption DEF BuildContext
<1>3. CASE RecordAttempt
  BY <1>0, <1>3 DEF RecordAttempt
<1>4. CASE Complete
  BY <1>0, <1>4 DEF Complete
<1>5. CASE Policy
  BY <1>0, <1>5 DEF Policy
<1>6. CASE Control
  BY <1>0, <1>6 DEF Control, Actions, ControlActions, ControlReasons
<1>7. CASE Execute
  BY <1>0, <1>7, LimitsAssumption DEF Execute, Signature
<1>8. CASE Observe
  BY <1>0, <1>8, LimitsAssumption DEF Observe, Evaluate, Advance
<1>9. CASE UNCHANGED vars
  BY <1>0, <1>9 DEF vars
<1> QED
  BY <1>1, <1>2, <1>3, <1>4, <1>5, <1>6, <1>7, <1>8, <1>9 DEF Next

LEMMA CurrentStep ==
  ASSUME LoopInv, [Next]_vars
  PROVE  Current' /\ Marked'
<1> USE DEF Goto, Stop, Invalid
<1>0. TypeOK /\ Position /\ Current /\ Marked
  BY DEF LoopInv
<1> USE DEF Current, Marked
<1>1. CASE Top
  BY <1>0, <1>1 DEF Top
<1>2. CASE BuildContext
  BY <1>0, <1>2 DEF BuildContext, BuiltContext, TypeOK
<1>3. CASE RecordAttempt
  BY <1>0, <1>3 DEF RecordAttempt, TypeOK
<1>4. CASE Complete
  BY <1>0, <1>4 DEF Complete, TypeOK
<1>5. CASE Policy
  BY <1>0, <1>5 DEF Policy
<1>6. CASE Control
  BY <1>0, <1>6 DEF Control
<1>7. CASE Execute
  BY <1>0, <1>7 DEF Execute
<1>8. CASE Observe
  <2>1. seen' = Append(seen, latest) => seen'[Len(seen')] = latest
    BY <1>0, <1>8, AppendProperties DEF Observe, TypeOK, Position
  <2> QED BY <1>0, <1>8, <2>1 DEF Observe
<1>9. CASE UNCHANGED vars
  BY <1>0, <1>9 DEF vars
<1> QED
  BY <1>1, <1>2, <1>3, <1>4, <1>5, <1>6, <1>7, <1>8, <1>9 DEF Next

LEMMA LoopInvariant == Spec => []LoopInv
<1>1. Init => LoopInv
  BY LoopInit
<1>2. LoopInv /\ [Next]_vars => LoopInv'
  BY TypeStep, CountStep, PositionStep, CurrentStep DEF LoopInv
<1> QED BY <1>1, <1>2, PTL DEF Spec

-----------------------------------------------------------------------------
(* Every variable keeps its type, the reason is one of the closed set.     *)
THEOREM TypeCorrect == Spec => []TypeOK
<1>1. LoopInv => TypeOK
  BY DEF LoopInv
<1> QED BY <1>1, LoopInvariant, PTL

(* No provider call without an attempt marker in the store.                *)
THEOREM CallsAreRecorded == Spec => []AttemptsPersisted
<1>1. LoopInv => AttemptsPersisted
  BY DEF LoopInv, Marked, AttemptsPersisted
<1> QED BY <1>1, LoopInvariant, PTL

(* The provider learns the outcome of the tool call before, or that the    *)
(* context is truncated.                                                   *)
THEOREM FeedbackIsCurrent == Spec => []FeedbackReachesProvider
<1>1. LoopInv => FeedbackReachesProvider
  BY DEF LoopInv, Current, FeedbackReachesProvider
<1> QED BY <1>1, LoopInvariant, PTL

(* Rounds, tool calls and observations without progress stay within their  *)
(* limits, and the loop stops for a limit only when it is used up.         *)
THEOREM LimitsAreKept == Spec => []LimitsHold
<1>1. ASSUME LoopInv PROVE LimitsHold
  <2>1. /\ Stuck(no_progress_limit + 1) <=> no_progress_limit + 1 <= progress.count
        /\ Stuck(no_progress_limit) <=> no_progress_limit <= progress.count
    BY <1>1, StuckIsCounted, LimitsAssumption DEF LoopInv
  <2>2. progress.count \in Nat
    BY <1>1 DEF LoopInv, TypeOK
  <2>3. WithinLimits
    BY <1>1, <2>1, <2>2, LimitsAssumption DEF LoopInv, Position, WithinLimits
  <2>4. ReasonHolds
    BY <1>1, <2>1, LimitsAssumption DEF LoopInv, Reasoned, ReasonHolds
  <2> QED BY <2>3, <2>4 DEF LimitsHold
<1> QED BY <1>1, LoopInvariant, PTL

-----------------------------------------------------------------------------
(***************************************************************************)
(* ProviderGateway: the request budget                                     *)
(***************************************************************************)

Sending == {t \in Threads : gatePc[t] = "send"}

(* The lock belongs to the thread between its acquire and its release.     *)
OneInside ==
    \A t \in Threads : lock = t <=> gatePc[t] \in {"check", "read", "write"}

(* What the thread inside has found out about the counter still holds.     *)
ReadIsTrue ==
    \A t \in Threads :
        /\ gatePc[t] \in {"read", "write"} => remaining > 0
        /\ gatePc[t] = "write" => read[t] = remaining

Balanced == remaining + sent + Cardinality(Sending) = RequestLimit

RefusedIsUsedUp == \A t \in Threads : response[t] = "EXHAUSTED" => remaining = 0

GateInv == GateTypeOK /\ OneInside /\ ReadIsTrue /\ Balanced /\ RefusedIsUsedUp

LEMMA SendingCounted == IsFiniteSet(Sending) /\ Cardinality(Sending) \in Nat
<1>1. IsFiniteSet(Sending)
  BY FS_Subset, GatewayAssumption DEF Sending
<1> QED BY <1>1, FS_CardinalityType

LEMMA OutcomeIsTyped ==
  ASSUME NEW answer
  PROVE  OutcomeOf(answer) \in Outcomes \ {"EXHAUSTED"}
  BY DEF OutcomeOf, Outcomes

LEMMA GateInitially == GateInit => GateInv
<1> SUFFICES ASSUME GateInit PROVE GateInv
  OBVIOUS
<1>1. Sending = {}
  BY DEF GateInit, Sending
<1>2. Cardinality(Sending) = 0
  BY <1>1, FS_EmptySet
<1>3. GateTypeOK
  BY GatewayAssumption DEF GateInit, GateTypeOK, Outcomes
<1>4. OneInside /\ ReadIsTrue /\ RefusedIsUsedUp
  BY GatewayAssumption DEF GateInit, OneInside, ReadIsTrue, RefusedIsUsedUp
<1>5. Balanced
  BY <1>2, GatewayAssumption DEF GateInit, Balanced
<1> QED BY <1>3, <1>4, <1>5 DEF GateInv

(* A step that neither starts nor ends a request *)
LEMMA QuietStep ==
  ASSUME GateInv, GateTypeOK', OneInside', ReadIsTrue', RefusedIsUsedUp',
         UNCHANGED <<remaining, sent>>, Sending' = Sending
  PROVE  GateInv'
  BY DEF GateInv, Balanced

LEMMA GateStep ==
  ASSUME GateInv, [GateNext]_gateVars
  PROVE  GateInv'
<1>0. GateTypeOK /\ OneInside /\ ReadIsTrue /\ Balanced /\ RefusedIsUsedUp
  BY DEF GateInv
<1> USE GatewayAssumption
<1>1. ASSUME NEW t \in Threads, Prepare(t) PROVE GateInv'
  <2>1. GateTypeOK'
    BY <1>0, <1>1 DEF GateTypeOK, Prepare, Continue, Finish, Outcomes
  <2>2. OneInside' /\ ReadIsTrue' /\ RefusedIsUsedUp'
    BY <1>0, <1>1 DEF GateTypeOK, OneInside, ReadIsTrue, RefusedIsUsedUp,
                      Prepare, Continue, Finish
  <2>3. Sending' = Sending
    BY <1>0, <1>1 DEF GateTypeOK, Sending, Prepare, Continue, Finish
  <2> QED BY <1>1, <2>1, <2>2, <2>3, QuietStep DEF Prepare
<1>2. ASSUME NEW t \in Threads, AcquireBudget(t) PROVE GateInv'
  <2>1. GateTypeOK'
    BY <1>0, <1>2 DEF GateTypeOK, AcquireBudget, Continue
  <2>2. OneInside' /\ ReadIsTrue' /\ RefusedIsUsedUp'
    BY <1>0, <1>2 DEF GateTypeOK, OneInside, ReadIsTrue, RefusedIsUsedUp,
                      AcquireBudget, Continue
  <2>3. Sending' = Sending
    BY <1>0, <1>2 DEF GateTypeOK, Sending, AcquireBudget, Continue
  <2> QED BY <1>2, <2>1, <2>2, <2>3, QuietStep DEF AcquireBudget
<1>3. ASSUME NEW t \in Threads, CheckBudget(t) PROVE GateInv'
  <2>1. GateTypeOK'
    BY <1>0, <1>3 DEF GateTypeOK, CheckBudget, Continue, Finish, Outcomes
  <2>2. OneInside' /\ ReadIsTrue' /\ RefusedIsUsedUp'
    BY <1>0, <1>3 DEF GateTypeOK, OneInside, ReadIsTrue, RefusedIsUsedUp,
                      CheckBudget, Continue, Finish
  <2>3. Sending' = Sending
    BY <1>0, <1>3 DEF GateTypeOK, Sending, CheckBudget, Continue, Finish
  <2> QED BY <1>3, <2>1, <2>2, <2>3, QuietStep DEF CheckBudget
<1>4. ASSUME NEW t \in Threads, ReadBudget(t) PROVE GateInv'
  <2>1. GateTypeOK'
    BY <1>0, <1>4 DEF GateTypeOK, ReadBudget, Continue
  <2>2. OneInside' /\ ReadIsTrue' /\ RefusedIsUsedUp'
    BY <1>0, <1>4 DEF GateTypeOK, OneInside, ReadIsTrue, RefusedIsUsedUp,
                      ReadBudget, Continue
  <2>3. Sending' = Sending
    BY <1>0, <1>4 DEF GateTypeOK, Sending, ReadBudget, Continue
  <2> QED BY <1>4, <2>1, <2>2, <2>3, QuietStep DEF ReadBudget
<1>5. ASSUME NEW t \in Threads, TakeRequest(t) PROVE GateInv'
  <2>1. remaining > 0 /\ read[t] = remaining /\ lock = t
    BY <1>0, <1>5 DEF OneInside, ReadIsTrue, TakeRequest
  <2>2. remaining' = remaining - 1 /\ sent' = sent
    BY <1>5, <2>1 DEF TakeRequest
  <2>3. remaining \in Nat /\ sent \in Nat /\ remaining <= RequestLimit
    BY <1>0 DEF GateTypeOK
  <2>4. GateTypeOK'
    BY <1>0, <1>5, <2>1, <2>2, <2>3 DEF GateTypeOK, TakeRequest, Continue
  <2>5. OneInside' /\ ReadIsTrue'
    BY <1>0, <1>5, <2>1 DEF GateTypeOK, OneInside, ReadIsTrue, TakeRequest,
                            Continue
  <2>6. RefusedIsUsedUp'
    BY <1>0, <1>5, <2>1, <2>3 DEF RefusedIsUsedUp, TakeRequest
  <2>7. Sending' = Sending \cup {t} /\ t \notin Sending
    BY <1>0, <1>5 DEF GateTypeOK, Sending, TakeRequest, Continue
  <2>8. Cardinality(Sending') = Cardinality(Sending) + 1
    BY <2>7, SendingCounted, FS_AddElement
  <2>9. Balanced'
    BY <1>0, <2>2, <2>3, <2>8, SendingCounted DEF Balanced
  <2> QED BY <2>4, <2>5, <2>6, <2>9 DEF GateInv
<1>6. ASSUME NEW t \in Threads, Send(t) PROVE GateInv'
  <2>1. sent' = sent + 1 /\ remaining' = remaining
    BY <1>6 DEF Send
  <2>2. remaining \in Nat /\ sent \in Nat
    BY <1>0 DEF GateTypeOK
  <2>3. Sending' = Sending \ {t} /\ t \in Sending
    BY <1>0, <1>6 DEF GateTypeOK, Sending, Send, Continue
  <2>4. Cardinality(Sending') = Cardinality(Sending) - 1
    BY <2>3, SendingCounted, FS_RemoveElement
  <2>5. Balanced'
    BY <1>0, <2>1, <2>2, <2>4, SendingCounted DEF Balanced
  <2>6. Cardinality(Sending') \in Nat
    <3>1. IsFiniteSet(Sending')
      BY <2>3, SendingCounted, FS_RemoveElement
    <3> QED BY <3>1, FS_CardinalityType
  <2>7. sent' \in 0..RequestLimit
    BY <2>1, <2>2, <2>5, <2>6 DEF Balanced
  <2>8. GateTypeOK'
    BY <1>0, <1>6, <2>7 DEF GateTypeOK, Send, Continue
  <2>9. OneInside' /\ ReadIsTrue' /\ RefusedIsUsedUp'
    BY <1>0, <1>6 DEF GateTypeOK, OneInside, ReadIsTrue, RefusedIsUsedUp, Send,
                      Continue
  <2> QED BY <2>5, <2>8, <2>9 DEF GateInv
<1>7. ASSUME NEW t \in Threads, Respond(t) PROVE GateInv'
  <2>1. PICK answer \in Answers : Finish(t, OutcomeOf(answer))
    BY <1>7 DEF Respond
  <2>2. OutcomeOf(answer) \in Outcomes \ {"EXHAUSTED"}
    BY OutcomeIsTyped
  <2>3. GateTypeOK'
    BY <1>0, <1>7, <2>1, <2>2 DEF GateTypeOK, Respond, Continue, Finish
  <2>4. OneInside' /\ ReadIsTrue' /\ RefusedIsUsedUp'
    BY <1>0, <1>7, <2>1, <2>2 DEF GateTypeOK, OneInside, ReadIsTrue,
                                  RefusedIsUsedUp, Respond, Continue, Finish
  <2>5. Sending' = Sending
    BY <1>0, <1>7, <2>1 DEF GateTypeOK, Sending, Respond, Continue, Finish
  <2> QED BY <1>7, <2>3, <2>4, <2>5, QuietStep DEF Respond
<1>8. CASE UNCHANGED gateVars
  BY <1>0, <1>8 DEF gateVars, GateInv, GateTypeOK, OneInside, ReadIsTrue,
                    Balanced, RefusedIsUsedUp, Sending
<1> QED BY <1>1, <1>2, <1>3, <1>4, <1>5, <1>6, <1>7, <1>8 DEF GateNext

(* Threads that share a gateway send no more requests than its budget has, *)
(* lose none of them, and are refused only when it is used up.             *)
THEOREM BudgetHolds == GateSpec => []BudgetIsExact
<1>1. GateInv => BudgetIsExact
  <2> SUFFICES ASSUME GateInv PROVE BudgetIsExact
    OBVIOUS
  <2>1. sent <= RequestLimit
    BY GatewayAssumption DEF GateInv, GateTypeOK
  <2> QED BY <2>1 DEF GateInv, Balanced, Sending, RefusedIsUsedUp, BudgetIsExact
<1>2. GateInit => GateInv
  BY GateInitially
<1>3. GateInv /\ [GateNext]_gateVars => GateInv'
  BY GateStep
<1> QED BY <1>1, <1>2, <1>3, PTL DEF GateSpec

-----------------------------------------------------------------------------
(***************************************************************************)
(* ContainerLifecycle: the evidence of an execution                        *)
(***************************************************************************)

(* The command runs once, in a container that start found; before that,    *)
(* there is nothing to exit.                                               *)
RunsOnce(e) ==
    /\ cli[e] = "attached" => boxPc[e] = "start"
    /\ cli[e] # "none" => boxPc[e] \in DockerOperation
    /\ container[e] = "running" => boxPc[e] # "create" /\ late[e] = "none"
    /\ container[e] = "exited" => exit[e] # "none"
    /\ exit[e] # "none" => /\ container[e] \in {"exited", "absent"}
                           /\ boxPc[e] # "create" /\ late[e] = "none"
    /\ late[e] # "none" => boxPc[e] \in {"rm", "done"}

(* Where an exit code of 0 can come from *)
ZeroIsReal(e) ==
    /\ boxPc[e] = "wait" /\ cli[e] = "zero" => exit[e] = "zero"
    /\ boxPc[e] = "rm" => outcome[e] # "none"
    /\ outcome[e] = "SUCCEEDED" => exit[e] = "zero"
    /\ evidence[e].status = "SUCCEEDED" => exit[e] = "zero"

(* When a container of this name can be there *)
Accounted(e) ==
    /\ boxPc[e] = "create" /\ cli[e] # "zero" => container[e] = "absent"
    /\ boxPc[e] = "create" =>
          late[e] = "none" /\ container[e] \in {"absent", "created"}
    /\ boxPc[e] = "rm" /\ cli[e] \in {"zero", "nonzero"} =>
          container[e] = "absent" \/ late[e] = "handled"
    /\ boxPc[e] \in DockerOperation => evidence[e] = NoEvidence
    /\ evidence[e].cleanup \in {"COMPLETE", "NOT_REQUIRED"} =>
          container[e] \in {"absent", "created"}
    /\ evidence[e].cleanup = "COMPLETE" =>
          container[e] = "absent" \/ late[e] = "handled"

ExecutionInv(e) == RunsOnce(e) /\ ZeroIsReal(e) /\ Accounted(e)

BoxInv == BoxTypeOK /\ \A e \in Executions : ExecutionInv(e)

(* What a step of another execution leaves alone *)
Untouched(e) ==
    /\ boxPc'[e] = boxPc[e] /\ cli'[e] = cli[e] /\ outcome'[e] = outcome[e]
    /\ evidence'[e] = evidence[e] /\ container'[e] = container[e]
    /\ late'[e] = late[e] /\ exit'[e] = exit[e]

-----------------------------------------------------------------------------
LEMMA OthersKeep ==
  ASSUME NEW e \in Executions, ExecutionInv(e), Untouched(e)
  PROVE  ExecutionInv(e)'
  BY DEF Untouched, ExecutionInv, RunsOnce, ZeroIsReal, Accounted

LEMMA BoxInitially == BoxInit => BoxInv
<1> SUFFICES ASSUME BoxInit PROVE BoxInv
  OBVIOUS
<1>1. BoxTypeOK
  BY DEF BoxInit, BoxTypeOK, DockerOperation
<1>2. ASSUME NEW e \in Executions PROVE ExecutionInv(e)
  BY DEF BoxInit, ExecutionInv, RunsOnce, ZeroIsReal, Accounted, NoEvidence
<1> QED BY <1>1, <1>2 DEF BoxInv

(* A docker command has ended, with a result that is true of what the      *)
(* engine has done; a create that is given up may be handled later.        *)
LEMMA AfterStep ==
  ASSUME BoxInv, NEW e \in Executions, NEW r \in Result,
         boxPc[e] \in DockerOperation, After(e, r),
         UNCHANGED <<container, exit>>,
         r = "zero" => cli[e] = "zero",
         \/ UNCHANGED late
         \/ boxPc[e] = "create" /\ r # "zero" /\ exit[e] = "none"
            /\ \E l \in {"none", "pending"} : late' = [late EXCEPT ![e] = l]
  PROVE  BoxInv'
<1>0. BoxTypeOK /\ ExecutionInv(e)
  BY DEF BoxInv
<1>1. StatusOf(r) \in ExecutionStatus \ {"none"} /\ (StatusOf(r) = "SUCCEEDED" => r = "zero")
  BY DEF StatusOf, ExecutionStatus, Result
<1>2. cli' = [cli EXCEPT ![e] = "none"]
  BY DEF After
<1>3. CASE boxPc[e] = "create"
  <2>1. AfterCreate(e, r)
    BY <1>3 DEF After
  <2>2. BoxTypeOK'
    BY <1>0, <1>1, <1>2, <1>3, <2>1
       DEF BoxTypeOK, AfterCreate, Run, Return, ExecutionInv, ZeroIsReal,
           DockerOperation, ExecutionStatus, CleanupStatus
  <2>3. ExecutionInv(e)'
    <3> USE <1>0, <1>1, <1>2, <1>3, <2>1
            DEF BoxTypeOK, AfterCreate, Run, Return,
            ExecutionInv, DockerOperation, Result
    <3>1. RunsOnce(e)'
      BY DEF RunsOnce
    <3>2. ZeroIsReal(e)'
      BY DEF ZeroIsReal
    <3>3. Accounted(e)'
      BY DEF Accounted, RunsOnce, NoEvidence
    <3> QED BY <3>1, <3>2, <3>3
  <2>4. ASSUME NEW d \in Executions, d # e PROVE Untouched(d)
    BY <1>0, <1>2, <2>1, <2>4 DEF BoxTypeOK, AfterCreate, Run, Return,
                                  Untouched
  <2> QED BY <2>2, <2>3, <2>4, OthersKeep DEF BoxInv
<1>4. CASE boxPc[e] = "start"
  <2>1. AfterStart(e, r)
    BY <1>4 DEF After
  <2>2. BoxTypeOK'
    BY <1>0, <1>1, <1>2, <1>4, <2>1
       DEF BoxTypeOK, AfterStart, Run, Return, ExecutionInv, ZeroIsReal,
           DockerOperation, ExecutionStatus, CleanupStatus
  <2>3. ExecutionInv(e)'
    <3> USE <1>0, <1>1, <1>2, <1>4, <2>1
            DEF BoxTypeOK, AfterStart, Run, Return,
            ExecutionInv, DockerOperation, Result
    <3>1. RunsOnce(e)'
      BY DEF RunsOnce
    <3>2. ZeroIsReal(e)'
      BY DEF ZeroIsReal
    <3>3. Accounted(e)'
      BY DEF Accounted, RunsOnce, NoEvidence
    <3> QED BY <3>1, <3>2, <3>3
  <2>4. ASSUME NEW d \in Executions, d # e PROVE Untouched(d)
    BY <1>0, <1>2, <2>1, <2>4 DEF BoxTypeOK, AfterStart, Run, Return, Untouched
  <2> QED BY <2>2, <2>3, <2>4, OthersKeep DEF BoxInv
<1>5. CASE boxPc[e] = "wait"
  <2>1. AfterWait(e, r)
    BY <1>5 DEF After
  <2>2. BoxTypeOK'
    BY <1>0, <1>1, <1>2, <1>5, <2>1
       DEF BoxTypeOK, AfterWait, Run, Return, ExecutionInv, ZeroIsReal,
           DockerOperation, ExecutionStatus, CleanupStatus
  <2>3. ExecutionInv(e)'
    <3> USE <1>0, <1>1, <1>2, <1>5, <2>1 DEF BoxTypeOK, AfterWait, Run, Return,
            ExecutionInv, DockerOperation, Result
    <3>1. RunsOnce(e)'
      BY DEF RunsOnce
    <3>2. ZeroIsReal(e)'
      BY DEF ZeroIsReal
    <3>3. Accounted(e)'
      BY DEF Accounted, RunsOnce, NoEvidence
    <3> QED BY <3>1, <3>2, <3>3
  <2>4. ASSUME NEW d \in Executions, d # e PROVE Untouched(d)
    BY <1>0, <1>2, <2>1, <2>4 DEF BoxTypeOK, AfterWait, Run, Return, Untouched
  <2> QED BY <2>2, <2>3, <2>4, OthersKeep DEF BoxInv
<1>6. CASE boxPc[e] = "rm"
  <2>1. AfterRemove(e, r)
    BY <1>6 DEF After
  <2>2. BoxTypeOK'
    BY <1>0, <1>1, <1>2, <1>6, <2>1
       DEF BoxTypeOK, AfterRemove, Run, Return, ExecutionInv, ZeroIsReal,
           DockerOperation, ExecutionStatus, CleanupStatus
  <2>3. ExecutionInv(e)'
    <3> USE <1>0, <1>1, <1>2, <1>6, <2>1
            DEF BoxTypeOK, AfterRemove, Run, Return,
            ExecutionInv, DockerOperation, Result
    <3>1. RunsOnce(e)'
      BY DEF RunsOnce
    <3>2. ZeroIsReal(e)'
      BY DEF ZeroIsReal
    <3>3. Accounted(e)'
      BY DEF Accounted, RunsOnce, NoEvidence
    <3> QED BY <3>1, <3>2, <3>3
  <2>4. ASSUME NEW d \in Executions, d # e PROVE Untouched(d)
    BY <1>0, <1>2, <2>1, <2>4 DEF BoxTypeOK, AfterRemove, Run, Return,
                                  Untouched
  <2> QED BY <2>2, <2>3, <2>4, OthersKeep DEF BoxInv
<1> QED BY <1>3, <1>4, <1>5, <1>6 DEF DockerOperation

LEMMA BoxStep ==
  ASSUME BoxInv, [BoxNext]_boxVars
  PROVE  BoxInv'
<1>0. BoxTypeOK /\ \A e \in Executions : ExecutionInv(e)
  BY DEF BoxInv
<1>1. ASSUME NEW e \in Executions, CannotStart(e) PROVE BoxInv'
  <2>1. boxPc[e] \in DockerOperation /\ cli[e] = "none" /\ After(e, "unavailable")
        /\ UNCHANGED <<container, late, exit>>
    BY <1>1 DEF CannotStart
  <2> QED BY <2>1, AfterStep DEF Result
<1>2. ASSUME NEW e \in Executions, EngineUnreachable(e) PROVE BoxInv'
  <2>1. cli[e] # "none" /\ After(e, "nonzero") /\ UNCHANGED <<container, exit>>
    BY <1>2 DEF EngineUnreachable
  <2>2. boxPc[e] \in DockerOperation
    BY <1>0, <2>1 DEF ExecutionInv, RunsOnce
  <2>3. boxPc[e] = "create" => exit[e] = "none"
    BY <1>0 DEF ExecutionInv, RunsOnce
  <2>4. \/ UNCHANGED late
        \/ boxPc[e] = "create"
           /\ \E l \in {"none", "pending"} : late' = [late EXCEPT ![e] = l]
    BY <1>2 DEF EngineUnreachable, MayOutlive
  <2> QED BY <2>1, <2>2, <2>3, <2>4, AfterStep DEF Result
<1>3. ASSUME NEW e \in Executions, Reply(e) PROVE BoxInv'
  <2>1. cli[e] \in {"zero", "nonzero"} /\ After(e, cli[e])
        /\ UNCHANGED <<container, late, exit>>
    BY <1>0, <1>3 DEF Reply, BoxTypeOK, Result
  <2>2. boxPc[e] \in DockerOperation
    BY <1>0, <2>1 DEF ExecutionInv, RunsOnce
  <2> QED BY <2>1, <2>2, AfterStep DEF Result
<1>4. ASSUME NEW e \in Executions, TimeOut(e) PROVE BoxInv'
  <2>1. cli[e] # "none" /\ After(e, "timeout") /\ UNCHANGED <<container, exit>>
    BY <1>4 DEF TimeOut
  <2>2. boxPc[e] \in DockerOperation
    BY <1>0, <2>1 DEF ExecutionInv, RunsOnce
  <2>3. boxPc[e] = "create" => exit[e] = "none"
    BY <1>0 DEF ExecutionInv, RunsOnce
  <2>4. \/ UNCHANGED late
        \/ boxPc[e] = "create"
           /\ \E l \in {"none", "pending"} : late' = [late EXCEPT ![e] = l]
    BY <1>4 DEF TimeOut, MayOutlive
  <2> QED BY <2>1, <2>2, <2>3, <2>4, AfterStep DEF Result
<1>5. ASSUME NEW e \in Executions, Invoke(e) PROVE BoxInv'
  <2>1. BoxTypeOK'
    BY <1>0, <1>5 DEF BoxTypeOK, Invoke, Answer, ExecutionInv, RunsOnce,
       DockerOperation
  <2>2. ExecutionInv(e)'
    BY <1>0, <1>5 DEF BoxTypeOK, Invoke, Answer, ExecutionInv, RunsOnce,
       ZeroIsReal, Accounted, DockerOperation, NoEvidence, Result
  <2>3. ASSUME NEW d \in Executions, d # e PROVE Untouched(d)
    BY <1>0, <1>5, <2>3 DEF BoxTypeOK, Invoke, Answer, Untouched
  <2> QED BY <1>0, <2>1, <2>2, <2>3, OthersKeep DEF BoxInv
<1>6. ASSUME NEW e \in Executions, Undecodable(e) PROVE BoxInv'
  <2>1. BoxTypeOK'
    BY <1>0, <1>6 DEF BoxTypeOK, Undecodable, Answer, ExecutionInv, RunsOnce,
       DockerOperation
  <2>2. ExecutionInv(e)'
    BY <1>0, <1>6 DEF BoxTypeOK, Undecodable, Answer, ExecutionInv, RunsOnce,
       ZeroIsReal, Accounted, DockerOperation, NoEvidence, Result
  <2>3. ASSUME NEW d \in Executions, d # e PROVE Untouched(d)
    BY <1>0, <1>6, <2>3 DEF BoxTypeOK, Undecodable, Answer, Untouched
  <2> QED BY <1>0, <2>1, <2>2, <2>3, OthersKeep DEF BoxInv
<1>7. ASSUME NEW e \in Executions, EngineCreates(e) PROVE BoxInv'
  <2>1. BoxTypeOK'
    BY <1>0, <1>7 DEF BoxTypeOK, EngineCreates, Answer, ExecutionInv, RunsOnce,
       DockerOperation
  <2>2. ExecutionInv(e)'
    BY <1>0, <1>7 DEF BoxTypeOK, EngineCreates, Answer, ExecutionInv, RunsOnce,
       ZeroIsReal, Accounted, DockerOperation, NoEvidence, Result
  <2>3. ASSUME NEW d \in Executions, d # e PROVE Untouched(d)
    BY <1>0, <1>7, <2>3 DEF BoxTypeOK, EngineCreates, Answer, Untouched
  <2> QED BY <1>0, <2>1, <2>2, <2>3, OthersKeep DEF BoxInv
<1>8. ASSUME NEW e \in Executions, EngineRefuses(e) PROVE BoxInv'
  <2>1. BoxTypeOK'
    BY <1>0, <1>8 DEF BoxTypeOK, EngineRefuses, Answer, ExecutionInv, RunsOnce,
       DockerOperation
  <2>2. ExecutionInv(e)'
    BY <1>0, <1>8 DEF BoxTypeOK, EngineRefuses, Answer, ExecutionInv, RunsOnce,
       ZeroIsReal, Accounted, DockerOperation, NoEvidence, Result
  <2>3. ASSUME NEW d \in Executions, d # e PROVE Untouched(d)
    BY <1>0, <1>8, <2>3 DEF BoxTypeOK, EngineRefuses, Answer, Untouched
  <2> QED BY <1>0, <2>1, <2>2, <2>3, OthersKeep DEF BoxInv
<1>9. ASSUME NEW e \in Executions, EngineCreatesLate(e) PROVE BoxInv'
  <2>1. BoxTypeOK'
    BY <1>0, <1>9 DEF BoxTypeOK, EngineCreatesLate, Answer, ExecutionInv,
                      RunsOnce,
       DockerOperation
  <2>2. ExecutionInv(e)'
    BY <1>0, <1>9 DEF BoxTypeOK, EngineCreatesLate, Answer, ExecutionInv,
                      RunsOnce,
       ZeroIsReal, Accounted, DockerOperation, NoEvidence, Result
  <2>3. ASSUME NEW d \in Executions, d # e PROVE Untouched(d)
    BY <1>0, <1>9, <2>3 DEF BoxTypeOK, EngineCreatesLate, Answer, Untouched
  <2> QED BY <1>0, <2>1, <2>2, <2>3, OthersKeep DEF BoxInv
<1>10. ASSUME NEW e \in Executions, EngineStarts(e) PROVE BoxInv'
  <2>1. BoxTypeOK'
    BY <1>0, <1>10 DEF BoxTypeOK, EngineStarts, Answer, ExecutionInv, RunsOnce,
       DockerOperation
  <2>2. ExecutionInv(e)'
    BY <1>0, <1>10 DEF BoxTypeOK, EngineStarts, Answer, ExecutionInv, RunsOnce,
       ZeroIsReal, Accounted, DockerOperation, NoEvidence, Result
  <2>3. ASSUME NEW d \in Executions, d # e PROVE Untouched(d)
    BY <1>0, <1>10, <2>3 DEF BoxTypeOK, EngineStarts, Answer, Untouched
  <2> QED BY <1>0, <2>1, <2>2, <2>3, OthersKeep DEF BoxInv
<1>11. ASSUME NEW e \in Executions, ContainerExits(e) PROVE BoxInv'
  <2>1. BoxTypeOK'
    BY <1>0, <1>11 DEF BoxTypeOK, ContainerExits, Answer, ExecutionInv,
                       RunsOnce,
       DockerOperation
  <2>2. ExecutionInv(e)'
    BY <1>0, <1>11 DEF BoxTypeOK, ContainerExits, Answer, ExecutionInv,
                       RunsOnce,
       ZeroIsReal, Accounted, DockerOperation, NoEvidence, Result
  <2>3. ASSUME NEW d \in Executions, d # e PROVE Untouched(d)
    BY <1>0, <1>11, <2>3 DEF BoxTypeOK, ContainerExits, Answer, Untouched
  <2> QED BY <1>0, <2>1, <2>2, <2>3, OthersKeep DEF BoxInv
<1>12. ASSUME NEW e \in Executions, EngineWaited(e) PROVE BoxInv'
  <2>1. BoxTypeOK'
    BY <1>0, <1>12 DEF BoxTypeOK, EngineWaited, Answer, ExecutionInv, RunsOnce,
       DockerOperation
  <2>2. ExecutionInv(e)'
    BY <1>0, <1>12 DEF BoxTypeOK, EngineWaited, Answer, ExecutionInv, RunsOnce,
       ZeroIsReal, Accounted, DockerOperation, NoEvidence, Result
  <2>3. ASSUME NEW d \in Executions, d # e PROVE Untouched(d)
    BY <1>0, <1>12, <2>3 DEF BoxTypeOK, EngineWaited, Answer, Untouched
  <2> QED BY <1>0, <2>1, <2>2, <2>3, OthersKeep DEF BoxInv
<1>13. ASSUME NEW e \in Executions, EngineRemoves(e) PROVE BoxInv'
  <2>1. BoxTypeOK'
    BY <1>0, <1>13 DEF BoxTypeOK, EngineRemoves, Answer, ExecutionInv,
                       RunsOnce,
       DockerOperation
  <2>2. ExecutionInv(e)'
    BY <1>0, <1>13 DEF BoxTypeOK, EngineRemoves, Answer, ExecutionInv,
                       RunsOnce,
       ZeroIsReal, Accounted, DockerOperation, NoEvidence, Result
  <2>3. ASSUME NEW d \in Executions, d # e PROVE Untouched(d)
    BY <1>0, <1>13, <2>3 DEF BoxTypeOK, EngineRemoves, Answer, Untouched
  <2> QED BY <1>0, <2>1, <2>2, <2>3, OthersKeep DEF BoxInv
<1>14. CASE UNCHANGED boxVars
  <2>1. BoxTypeOK'
    BY <1>0, <1>14 DEF BoxTypeOK, boxVars
  <2>2. ASSUME NEW d \in Executions PROVE Untouched(d)
    BY <1>14 DEF Untouched, boxVars
  <2> QED BY <1>0, <2>1, <2>2, OthersKeep DEF BoxInv
<1> QED
  BY <1>1, <1>2, <1>3, <1>4, <1>5, <1>6, <1>7, <1>8, <1>9, <1>10, <1>11, <1>12,
     <1>13, <1>14 DEF BoxNext, Harness, Engine

LEMMA BoxInvariant == BoxSpec => []BoxInv
<1>1. BoxInit => BoxInv
  BY BoxInitially
<1>2. BoxInv /\ [BoxNext]_boxVars => BoxInv'
  BY BoxStep
<1> QED BY <1>1, <1>2, PTL DEF BoxSpec

-----------------------------------------------------------------------------
(* Every variable keeps its type; evidence is of the closed sets.          *)
THEOREM ExecutionsAreTyped == BoxSpec => []BoxTypeOK
<1>1. BoxInv => BoxTypeOK
  BY DEF BoxInv
<1> QED BY <1>1, BoxInvariant, PTL

(* A success is the exit code 0 of a command that ran to its end.  A       *)
(* cleanup that is reported as complete leaves no container behind but one *)
(* that the engine created too late; one reported as not required leaves   *)
(* none that was ever started.                                             *)
THEOREM EvidenceHolds == BoxSpec => []EvidenceIsTrue
<1>1. BoxInv => EvidenceIsTrue
  BY DEF BoxInv, ExecutionInv, ZeroIsReal, Accounted, EvidenceIsTrue,
         SuccessIsReal, NothingRan, CompleteIsClean
<1> QED BY <1>1, BoxInvariant, PTL
=============================================================================
