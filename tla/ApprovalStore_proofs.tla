------------------------ MODULE ApprovalStore_proofs ------------------------
(***************************************************************************)
(* What ApprovalStore keeps for any number of workers, approvals, keys and *)
(* plans and any lifetime.                                                 *)
(*                                                                         *)
(* AtMostOneEffect is not inductive: it says nothing of the workers that   *)
(* are about to act.  ApprovalInv adds that an approval has at most two    *)
(* rows, a pending one and the decision on it, that whoever is about to    *)
(* write read the first of them, and that one worker at most is between    *)
(* the commit of a consumption and its side effect.                        *)
(***************************************************************************)
EXTENDS ApprovalStore, SequenceTheorems, TLAPS

Short ==
    \A a \in Approvals :
        /\ Len(approvals[a]) <= 2
        /\ Len(approvals[a]) >= 1 => approvals[a][1].status = "pending"
        /\ Len(approvals[a]) = 2 => approvals[a][2].status # "pending"

\* What each worker's local variables stand for at its label.
Recording(w) ==
    worker[w].pc = "insert" =>
        /\ worker[w].request \in Approvals
        /\ worker[w].record.status = "pending"

Deciding(w) ==
    worker[w].pc = "decide" =>
        /\ worker[w].request \in Approvals
        /\ worker[w].revision \in 1..Len(approvals[worker[w].request])
        /\ worker[w].record = approvals[worker[w].request][worker[w].revision]

Writing(w) ==
    worker[w].pc \in {"update", "write"} =>
        /\ worker[w].request \in Approvals
        /\ worker[w].revision = 1
        /\ worker[w].record.status # "pending"
        /\ Len(approvals[worker[w].request]) >= 1

Decided(a) == Len(approvals[a]) = 2 /\ approvals[a][2].status = "consumed"

Acting(w) ==
    worker[w].pc = "act" =>
        /\ worker[w].request \in Approvals
        /\ Decided(worker[w].request)
        /\ effects[worker[w].request] = 0

Confirming(w) ==
    worker[w].pc = "confirm" => worker[w].request \in Confirmations

Local == \A w \in Workers :
    Recording(w) /\ Deciding(w) /\ Writing(w) /\ Acting(w) /\ Confirming(w)

OneActor == \A v, w \in Workers :
    /\ worker[v].pc = "act" /\ worker[w].pc = "act"
    /\ worker[v].request = worker[w].request
    => v = w

EffectsDecided ==
    \A a \in Approvals : effects[a] # 0 => effects[a] = 1 /\ Decided(a)

ApprovalInv == TypeOK /\ Short /\ Local /\ OneActor /\ EffectsDecided

-----------------------------------------------------------------------------
(* The row a new approval gets, and the idle worker, are well formed. *)
LEMMA IdleType == Idle \in Worker
  BY DEF Idle, Worker, NoRow, Row, Status, Labels

(* A worker that decided is well formed. *)
LEMMA DecidedType ==
  ASSUME NEW x \in Worker, NEW s \in Status
  PROVE  [x EXCEPT !.pc = "update", !.record.status = s] \in Worker
<1>1. x.record \in Row
  BY DEF Worker
<1>2. [x.record EXCEPT !.status = s] \in Row
  BY <1>1 DEF Row
<1> QED BY <1>2 DEF Worker, Labels

LEMMA GotoType ==
  ASSUME NEW x \in Worker, NEW label \in Labels
  PROVE  [x EXCEPT !.pc = label] \in Worker
  BY DEF Worker

(* What appending the decision makes of the first row. *)
LEMMA SecondRow ==
  ASSUME NEW rows \in Seq(Row), Len(rows) = 1, NEW record \in Row
  PROVE  /\ Len(Append(rows, record)) = 2
         /\ Append(rows, record)[1] = rows[1]
         /\ Append(rows, record)[2] = record
  BY AppendProperties

(* The invariant holds initially: no rows and nobody at work. *)
LEMMA InitInv == Init => ApprovalInv
<1> SUFFICES ASSUME Init PROVE ApprovalInv
  OBVIOUS
<1>1. TypeOK
  <2>1. approvals \in [Approvals -> Seq(Row)]
    BY DEF Init
  <2> QED BY <2>1, IdleType DEF Init, TypeOK
<1>2. \A w \in Workers : worker[w].pc = "idle"
  BY DEF Init, Idle
<1> QED
  BY <1>1, <1>2 DEF Init, ApprovalInv, Short, Local, OneActor, EffectsDecided,
                    Recording, Deciding, Writing, Acting, Confirming, Decided

-----------------------------------------------------------------------------
(* Every step keeps the variables well typed. *)
LEMMA TypeStep == TypeOK /\ Local /\ [Next]_vars => TypeOK'
<1> SUFFICES ASSUME TypeOK, Local, [Next]_vars PROVE TypeOK'
  OBVIOUS
<1> USE DEF TypeOK
<1>1. ASSUME NEW w \in Workers, NEW a \in Approvals, RecordCheck(w, a)
      PROVE  TypeOK'
  <2>1. NewApproval \in Row
    BY DEF NewApproval, Row, Status
  <2>2. worker'[w] \in Worker
    BY <1>1, <2>1 DEF RecordCheck, Becomes, Worker, Labels
  <2> QED BY <1>1, <2>2 DEF RecordCheck, Becomes
<1>2. ASSUME NEW w \in Workers, RecordInsert(w)
      PROVE  TypeOK'
  <2>1. worker[w].record \in Row
    BY DEF Worker
  <2>2. <<worker[w].record>> \in Seq(Row)
    BY <2>1
  <2> QED BY <1>2, <2>2, IdleType DEF RecordInsert, Done, Becomes
<1>3. ASSUME NEW w \in Workers, NEW a \in Approvals,
             NEW r \in DOMAIN approvals[a], Load(w, a, r)
      PROVE  TypeOK'
  <2>1. approvals[a] \in Seq(Row)
    OBVIOUS
  <2>2. approvals[a][r] \in Row /\ r \in Nat
    BY <2>1
  <2>3. worker'[w] \in Worker
    BY <1>3, <2>2 DEF Load, Becomes, Worker, Labels
  <2> QED BY <1>3, <2>3 DEF Load, Becomes
<1>4. ASSUME NEW w \in Workers, Consume(w) \/ Revoke(w)
      PROVE  TypeOK'
  <2>1. PICK s \in {"consumed", "revoked"} : worker' =
            [worker EXCEPT ![w].pc = "update", ![w].record.status = s]
    BY <1>4 DEF Consume, Revoke
  <2>3. worker[w] \in Worker /\ s \in Status
    BY DEF Status
  <2>4. [worker[w] EXCEPT !.pc = "update", !.record.status = s] \in Worker
    BY <2>3, DecidedType
  <2> QED BY <1>4, <2>1, <2>4 DEF Consume, Revoke
<1>5. ASSUME NEW w \in Workers, UpdateCheck(w)
      PROVE  TypeOK'
  <2>1. [worker[w] EXCEPT !.pc = "write"] \in Worker
    BY GotoType DEF Labels
  <2> QED BY <1>5, <2>1, IdleType DEF UpdateCheck, Goto, Done, Becomes
<1>6. ASSUME NEW w \in Workers, UpdateInsert(w)
      PROVE  TypeOK'
  <2> DEFINE a == worker[w].request
  <2>1. [worker[w] EXCEPT !.pc = "act"] \in Worker
    BY GotoType DEF Labels
  <2>2. worker' \in [Workers -> Worker]
    BY <1>6, <2>1, IdleType DEF UpdateInsert, Goto, Done, Becomes
  <2>3. worker[w].record \in Row
    BY DEF Worker
  <2>4. a \in Approvals => Append(approvals[a], worker[w].record) \in Seq(Row)
    BY <2>3
  <2>5. approvals' \in [Approvals -> Seq(Row)]
    BY <1>6, <2>4 DEF UpdateInsert
  <2> QED BY <1>6, <2>2, <2>5 DEF UpdateInsert
<1>7. ASSUME NEW w \in Workers, Act(w)
      PROVE  TypeOK'
  <2>1. worker' \in [Workers -> Worker]
    BY <1>7, IdleType DEF Act, Done, Becomes
  <2>2. worker[w].request \in Approvals
    BY <1>7 DEF Act, Local, Acting
  <2>3. effects' \in [Approvals -> Nat]
    BY <1>7, <2>2 DEF Act
  <2> QED BY <1>7, <2>1, <2>3 DEF Act
<1>8. ASSUME NEW w \in Workers, NEW c \in Confirmations, ConfirmCheck(w, c)
      PROVE  TypeOK'
  <2>1. [Idle EXCEPT !.pc = "confirm", !.request = c] \in Worker
    BY DEF Idle, Worker, NoRow, Row, Status, Labels
  <2> QED BY <1>8, <2>1 DEF ConfirmCheck, Becomes
<1>9. ASSUME NEW w \in Workers, ConfirmInsert(w)
      PROVE  TypeOK'
  <2>1. worker[w].request \in Confirmations
    BY <1>9 DEF ConfirmInsert, Local, Confirming
  <2> QED BY <1>9, <2>1, IdleType DEF ConfirmInsert, Done, Becomes
<1>10. ASSUME NEW w \in Workers, Abandon(w)
       PROVE  TypeOK'
  BY <1>10, IdleType DEF Abandon, Done, Becomes
<1>11. CASE RevisePlan \/ Tick
  BY <1>11 DEF RevisePlan, Tick
<1>12. CASE UNCHANGED vars
  BY <1>12 DEF vars
<1> QED
  BY <1>1, <1>2, <1>3, <1>4, <1>5, <1>6, <1>7, <1>8, <1>9, <1>10, <1>11, <1>12
  DEF Next, Step

-----------------------------------------------------------------------------
(* A step that changes neither rows nor effects keeps the invariant if the   *)
(* worker that made it has what its new label asks for.                      *)
LEMMA WorkerStep ==
  ASSUME ApprovalInv, NEW w \in Workers, NEW x,
         approvals' = approvals, effects' = effects,
         worker' = [worker EXCEPT ![w] = x],
         x.pc = "act" => x = worker[w],
         Recording(w)', Deciding(w)', Writing(w)', Confirming(w)'
  PROVE  Short' /\ Local' /\ OneActor' /\ EffectsDecided'
<1> USE DEF ApprovalInv, TypeOK
<1>1. Short' /\ EffectsDecided'
  BY DEF Short, EffectsDecided, Decided
<1>2. \A v \in Workers : v # w => worker'[v] = worker[v]
  OBVIOUS
<1>3. worker'[w] = x
  OBVIOUS
<1>4. Acting(w)'
  BY <1>3 DEF Local, Acting, Decided
<1>5. ASSUME NEW v \in Workers, v # w
      PROVE  (Recording(v) /\ Deciding(v) /\ Writing(v) /\ Acting(v)
                /\ Confirming(v))'
  BY <1>2, <1>5 DEF Local, Recording, Deciding, Writing, Acting, Confirming, Decided
<1>6. Local'
  BY <1>4, <1>5 DEF Local
<1>7. OneActor'
  BY <1>2, <1>3 DEF OneActor
<1> QED BY <1>1, <1>6, <1>7

(* A worker that is idle again asks for nothing. *)
LEMMA IdleStep ==
  ASSUME ApprovalInv, NEW w \in Workers, Done(w),
         approvals' = approvals, effects' = effects
  PROVE  Short' /\ Local' /\ OneActor' /\ EffectsDecided'
<1>1. worker' = [worker EXCEPT ![w] = Idle]
  BY DEF Done, Becomes
<1>2. worker'[w].pc = "idle" /\ Idle.pc = "idle"
  BY <1>1 DEF ApprovalInv, TypeOK, Idle
<1>3. Recording(w)' /\ Deciding(w)' /\ Writing(w)' /\ Confirming(w)'
  BY <1>2 DEF Recording, Deciding, Writing, Confirming
<1> QED BY <1>1, <1>2, <1>3, WorkerStep

(* What the invariant says of rows, workers and effects, they keep unchanged. *)
LEMMA SameStep ==
  ASSUME ApprovalInv, approvals' = approvals, effects' = effects,
         worker' = worker
  PROVE  Short' /\ Local' /\ OneActor' /\ EffectsDecided'
  BY DEF ApprovalInv, Short, Local, OneActor, EffectsDecided, Recording,
         Deciding, Writing, Acting, Confirming, Decided

(* The first row of an approval disturbs nobody: whoever decides, writes or  *)
(* acts has seen a row of another approval.                                  *)
LEMMA RecordInsertInv ==
  ASSUME ApprovalInv, NEW w \in Workers, RecordInsert(w)
  PROVE  Short' /\ Local' /\ OneActor' /\ EffectsDecided'
<1> DEFINE a == worker[w].request
<1> USE DEF ApprovalInv, TypeOK
<1>1. a \in Approvals /\ worker[w].record.status = "pending"
  BY DEF RecordInsert, Local, Recording
<1>2. CASE approvals[a] # <<>>
  <2>1. approvals' = approvals
    BY <1>2 DEF RecordInsert
  <2> QED BY <2>1, IdleStep DEF RecordInsert
<1>3. CASE approvals[a] = <<>>
  <2>1. /\ approvals' = [approvals EXCEPT ![a] = <<worker[w].record>>]
        /\ worker' = [worker EXCEPT ![w] = Idle] /\ effects' = effects
    BY <1>3 DEF RecordInsert, Done, Becomes
  <2>2. Len(approvals'[a]) = 1 /\ approvals'[a][1].status = "pending"
    BY <1>1, <2>1
  <2>3. \A b \in Approvals : b # a => approvals'[b] = approvals[b]
    BY <1>1, <2>1
  <2>4. Len(approvals[a]) = 0
    BY <1>3
  <2>5. Short'
    <3>1. ASSUME NEW b \in Approvals
          PROVE  /\ Len(approvals'[b]) <= 2
                 /\ Len(approvals'[b]) >= 1 => approvals'[b][1].status = "pending"
                 /\ Len(approvals'[b]) = 2 => approvals'[b][2].status # "pending"
      <4>1. CASE b = a
        BY <4>1, <2>2
      <4>2. CASE b # a
        BY <4>2, <2>3 DEF Short
      <4> QED BY <4>1, <4>2
    <3> QED BY <3>1 DEF Short
  <2>6. EffectsDecided'
    BY <2>1, <2>3, <2>4 DEF EffectsDecided, Decided
  <2>7. worker'[w].pc = "idle"
    BY <2>1 DEF Idle
  <2>8. \A v \in Workers : v # w => worker'[v] = worker[v]
    BY <2>1
  <2>9. OneActor'
    BY <2>7, <2>8 DEF OneActor
  <2>10. ASSUME NEW v \in Workers, v # w
         PROVE  (Recording(v) /\ Deciding(v) /\ Writing(v) /\ Acting(v)
                   /\ Confirming(v))'
    <3>1. worker'[v] = worker[v]
      BY <2>8, <2>10
    <3>2. /\ Recording(v) /\ Deciding(v) /\ Writing(v) /\ Acting(v)
          /\ Confirming(v)
      BY DEF Local
    <3>3. Recording(v)' /\ Confirming(v)'
      BY <3>1, <3>2 DEF Recording, Confirming
    <3>4. Deciding(v)' /\ Writing(v)'
      <4> DEFINE b == worker[v].request
      <4>1. worker[v].pc = "decide" => 1 <= Len(approvals[b]) /\ b \in Approvals
        <5>1. SUFFICES ASSUME worker[v].pc = "decide"
                       PROVE  1 <= Len(approvals[b]) /\ b \in Approvals
          OBVIOUS
        <5>2. b \in Approvals /\ worker[v].revision \in 1..Len(approvals[b])
          BY <3>2, <5>1 DEF Deciding
        <5>3. approvals[b] \in Seq(Row)
          BY <5>2
        <5>4. Len(approvals[b]) \in Nat
          BY <5>3
        <5> QED BY <5>2, <5>4
      <4>2. worker[v].pc \in {"update", "write"} =>
              1 <= Len(approvals[b]) /\ b \in Approvals
        BY <3>2 DEF Writing
      <4>3. worker[v].pc \in {"decide", "update", "write"} =>
              b # a /\ approvals'[b] = approvals[b]
        BY <2>3, <2>4, <4>1, <4>2
      <4>4. Deciding(v)'
        BY <3>1, <3>2, <4>3 DEF Deciding
      <4>5. Writing(v)'
        BY <3>1, <3>2, <4>3 DEF Writing
      <4> QED BY <4>4, <4>5
    <3>5. Acting(v)'
      <4>1. worker[v].pc = "act" =>
              /\ worker[v].request \in Approvals /\ worker[v].request # a
              /\ Len(approvals[worker[v].request]) = 2
              /\ approvals[worker[v].request][2].status = "consumed"
              /\ effects[worker[v].request] = 0
        BY <2>4, <3>2 DEF Acting, Decided
      <4> QED BY <2>1, <2>3, <3>1, <4>1 DEF Acting, Decided
    <3> QED BY <3>3, <3>4, <3>5
  <2>11. (Recording(w) /\ Deciding(w) /\ Writing(w) /\ Acting(w)
            /\ Confirming(w))'
    BY <2>7 DEF Recording, Deciding, Writing, Acting, Confirming
  <2>12. Local'
    BY <2>10, <2>11 DEF Local
  <2> QED BY <2>5, <2>6, <2>9, <2>12
<1> QED BY <1>2, <1>3

(* The decision is the second row.  Whoever else decided on the first one    *)
(* finds its revision taken; nobody acted on an approval with one row.       *)
LEMMA UpdateInsertInv ==
  ASSUME ApprovalInv, NEW w \in Workers, UpdateInsert(w)
  PROVE  Short' /\ Local' /\ OneActor' /\ EffectsDecided'
<1> DEFINE a == worker[w].request
           record == worker[w].record
<1> USE DEF ApprovalInv, TypeOK
<1>1. /\ a \in Approvals /\ worker[w].revision = 1
      /\ record.status # "pending" /\ record \in Row
      /\ Len(approvals[a]) >= 1
  BY DEF UpdateInsert, Local, Writing, Worker
<1>2. approvals[a] \in Seq(Row) /\ Len(approvals[a]) \in Nat
  BY <1>1
<1>3. CASE Len(approvals[a]) # 1
  <2>1. approvals' = approvals
    BY <1>1, <1>3 DEF UpdateInsert
  <2>2. Done(w) /\ effects' = effects
    BY <1>1, <1>3 DEF UpdateInsert
  <2> QED BY <2>1, <2>2, IdleStep
<1>4. CASE Len(approvals[a]) = 1
  <2> DEFINE rows == Append(approvals[a], record)
  <2>1. approvals' = [approvals EXCEPT ![a] = rows] /\ effects' = effects
    BY <1>1, <1>4, SMTT(30) DEF UpdateInsert
  <2>2. /\ Len(rows) = 2
        /\ rows[1] = approvals[a][1]
        /\ rows[2] = record
    BY <1>1, <1>2, <1>4, SecondRow
  <2> HIDE DEF rows
  <2>3. approvals'[a] = rows
    BY <1>1, <2>1
  <2>4. \A b \in Approvals : b # a => approvals'[b] = approvals[b]
    BY <1>1, <2>1
  <2>5. Short'
    <3>1. ASSUME NEW b \in Approvals
          PROVE  /\ Len(approvals'[b]) <= 2
                 /\ Len(approvals'[b]) >= 1 => approvals'[b][1].status = "pending"
                 /\ Len(approvals'[b]) = 2 => approvals'[b][2].status # "pending"
      <4>1. CASE b = a
        <5>1. approvals[a][1].status = "pending"
          BY <1>1, <1>2 DEF Short
        <5>2. rows[2].status # "pending"
          BY <1>1, <2>2
        <5>3. approvals'[b] = rows /\ rows[1].status = "pending"
          BY <2>2, <2>3, <4>1, <5>1
        <5>4. Len(rows) <= 2
          BY <2>2
        <5> QED BY <5>2, <5>3, <5>4
      <4>2. CASE b # a
        BY <4>2, <2>4 DEF Short
      <4> QED BY <4>1, <4>2
    <3> QED BY <3>1 DEF Short
  <2>6. effects[a] = 0
    BY <1>1, <1>4 DEF EffectsDecided, Decided
  <2>7. EffectsDecided'
    <3>1. ASSUME NEW b \in Approvals, effects'[b] # 0
          PROVE  effects'[b] = 1 /\ Decided(b)'
      <4>1. b # a /\ approvals'[b] = approvals[b]
        BY <2>1, <2>4, <2>6, <3>1
      <4> QED BY <2>1, <3>1, <4>1 DEF EffectsDecided, Decided
    <3> QED BY <3>1 DEF EffectsDecided
  <2>8. \A v \in Workers : v # w => worker'[v] = worker[v]
    BY DEF UpdateInsert, Goto, Done, Becomes
  <2>9. \A v \in Workers : worker[v].pc = "act" => worker[v].request # a
    BY <1>4 DEF Local, Acting, Decided
  <2>10. \/ worker'[w].pc = "idle"
         \/ /\ worker'[w].pc = "act" /\ worker'[w].request = a
            /\ record.status = "consumed"
    <3>1. CASE record.status = "consumed"
      <4>1. worker' = [worker EXCEPT ![w].pc = "act"]
        BY <1>1, <1>4, <3>1 DEF UpdateInsert, Goto
      <4> QED BY <3>1, <4>1 DEF Worker
    <3>2. CASE record.status # "consumed"
      <4>1. worker' = [worker EXCEPT ![w] = Idle]
        BY <3>2 DEF UpdateInsert, Done, Becomes
      <4> QED BY <4>1 DEF Idle
    <3> QED BY <3>1, <3>2
  <2>11. OneActor'
    BY <2>8, <2>9, <2>10 DEF OneActor
  <2>12. ASSUME NEW v \in Workers, v # w
         PROVE  (Recording(v) /\ Deciding(v) /\ Writing(v) /\ Acting(v)
                   /\ Confirming(v))'
    <3> DEFINE b == worker[v].request
    <3>1. worker'[v] = worker[v]
      BY <2>8, <2>12
    <3>2. /\ Recording(v) /\ Deciding(v) /\ Writing(v) /\ Acting(v)
          /\ Confirming(v)
      BY DEF Local
    <3>3. Recording(v)' /\ Confirming(v)'
      BY <3>1, <3>2 DEF Recording, Confirming
    <3>4. Deciding(v)'
      <4>1. CASE b = a
        BY <1>4, <2>2, <2>3, <3>1, <3>2, <4>1 DEF Deciding
      <4>2. CASE b # a
        BY <2>4, <3>1, <3>2, <4>2 DEF Deciding
      <4> QED BY <4>1, <4>2
    <3>5. Writing(v)'
      <4>1. CASE b = a
        <5>1. Len(approvals'[b]) = 2
          BY <2>2, <2>3, <4>1, Zenon
        <5>2. Len(approvals'[b]) >= 1
          BY <5>1
        <5> QED BY <3>1, <3>2, <5>2 DEF Writing
      <4>2. CASE b # a
        BY <2>4, <3>1, <3>2, <4>2 DEF Writing
      <4> QED BY <4>1, <4>2
    <3>6. Acting(v)'
      BY <2>1, <2>4, <2>9, <3>1, <3>2 DEF Acting, Decided
    <3> QED BY <3>3, <3>4, <3>5, <3>6
  <2>13. Acting(w)'
    BY <1>1, <2>1, <2>2, <2>3, <2>6, <2>10 DEF Acting, Decided
  <2>14. Recording(w)' /\ Deciding(w)' /\ Writing(w)' /\ Confirming(w)'
    BY <2>10 DEF Recording, Deciding, Writing, Confirming
  <2>15. Local'
    BY <2>12, <2>13, <2>14 DEF Local
  <2> QED BY <2>5, <2>7, <2>11, <2>15
<1> QED BY <1>3, <1>4

(* The side effect is the first and the last of its approval: its count was   *)
(* 0, and by OneActor nobody else is about to perform it.                     *)
LEMMA ActInv ==
  ASSUME ApprovalInv, NEW w \in Workers, Act(w)
  PROVE  Short' /\ Local' /\ OneActor' /\ EffectsDecided'
<1> DEFINE a == worker[w].request
<1> USE DEF ApprovalInv, TypeOK
<1>1. /\ worker[w].pc = "act" /\ a \in Approvals /\ effects[a] = 0
      /\ Decided(a)
  BY DEF Act, Local, Acting
<1>2. /\ approvals' = approvals
      /\ worker' = [worker EXCEPT ![w] = Idle]
      /\ effects' = [effects EXCEPT ![a] = 1]
  BY <1>1 DEF Act, Done, Becomes
<1>3. worker'[w].pc = "idle" /\ \A v \in Workers : v # w => worker'[v] = worker[v]
  BY <1>2 DEF Idle
<1>4. Short'
  BY <1>2 DEF Short
<1>5. OneActor'
  BY <1>3 DEF OneActor
<1>6. EffectsDecided'
  BY <1>1, <1>2 DEF EffectsDecided, Decided
<1>7. ASSUME NEW v \in Workers
      PROVE  (Recording(v) /\ Deciding(v) /\ Writing(v) /\ Acting(v)
                /\ Confirming(v))'
  <2>1. CASE v = w
    BY <1>3, <2>1 DEF Recording, Deciding, Writing, Acting, Confirming
  <2>2. CASE v # w
    <3>1. worker'[v] = worker[v]
      BY <1>3, <2>2
    <3>2. Recording(v) /\ Deciding(v) /\ Writing(v) /\ Acting(v) /\ Confirming(v)
      BY DEF Local
    <3>3. (Recording(v) /\ Deciding(v) /\ Writing(v) /\ Confirming(v))'
      BY <1>2, <3>1, <3>2 DEF Recording, Deciding, Writing, Confirming
    <3>4. worker[v].pc = "act" => worker[v].request # a
      BY <1>1, <2>2 DEF OneActor
    <3>5. Acting(v)'
      BY <1>2, <3>1, <3>2, <3>4 DEF Acting, Decided
    <3> QED BY <3>3, <3>5
  <2> QED BY <2>1, <2>2
<1>8. Local'
  BY <1>7 DEF Local
<1> QED BY <1>4, <1>5, <1>6, <1>8

(* Every step keeps the invariant. *)
LEMMA InvStep == ApprovalInv /\ [Next]_vars => ApprovalInv'
<1> SUFFICES ASSUME ApprovalInv, [Next]_vars PROVE ApprovalInv'
  OBVIOUS
<1>1. TypeOK'
  BY TypeStep DEF ApprovalInv
<1> DEFINE Rest == Short /\ Local /\ OneActor /\ EffectsDecided
<1>2. ASSUME NEW w \in Workers, NEW a \in Approvals, RecordCheck(w, a)
      PROVE  Rest'
  <2> DEFINE x == [pc |-> "insert", request |-> a, record |-> NewApproval,
                   revision |-> 1, plan |-> plan]
  <2>1. /\ approvals' = approvals /\ effects' = effects
        /\ worker' = [worker EXCEPT ![w] = x]
    BY <1>2 DEF RecordCheck, Becomes
  <2>2. worker'[w] = x
    BY <2>1 DEF ApprovalInv, TypeOK
  <2>3. (Recording(w) /\ Deciding(w) /\ Writing(w) /\ Confirming(w))'
    BY <2>2 DEF Recording, Deciding, Writing, Confirming, NewApproval
  <2>4. x.pc # "act"
    OBVIOUS
  <2> QED BY <2>1, <2>3, <2>4, WorkerStep
<1>3. ASSUME NEW w \in Workers, NEW a \in Approvals,
             NEW r \in DOMAIN approvals[a], Load(w, a, r)
      PROVE  Rest'
  <2> DEFINE x == [pc |-> "decide", request |-> a, record |-> approvals[a][r],
                   revision |-> r, plan |-> plan]
  <2>1. /\ approvals' = approvals /\ effects' = effects
        /\ worker' = [worker EXCEPT ![w] = x]
    BY <1>3 DEF Load, Becomes
  <2>2. worker'[w] = x
    BY <2>1 DEF ApprovalInv, TypeOK
  <2>3. approvals[a] \in Seq(Row)
    BY DEF ApprovalInv, TypeOK
  <2>4. r \in 1..Len(approvals[a])
    BY <2>3
  <2>5. Deciding(w)'
    BY <2>1, <2>2, <2>4 DEF Deciding
  <2>6. (Recording(w) /\ Writing(w) /\ Confirming(w))'
    BY <2>2 DEF Recording, Writing, Confirming
  <2>7. x.pc # "act"
    OBVIOUS
  <2> QED BY <2>1, <2>5, <2>6, <2>7, WorkerStep
<1>4. ASSUME NEW w \in Workers, Consume(w) \/ Revoke(w)
      PROVE  Rest'
  <2> DEFINE a == worker[w].request
  <2>1. PICK s \in {"consumed", "revoked"} : worker' =
            [worker EXCEPT ![w].pc = "update", ![w].record.status = s]
    BY <1>4 DEF Consume, Revoke
  <2> DEFINE x == [worker[w] EXCEPT !.pc = "update", !.record.status = s]
  <2>2. worker[w] \in Worker /\ worker[w].record \in Row
    BY DEF ApprovalInv, TypeOK, Worker
  <2>3. worker' = [worker EXCEPT ![w] = x] /\ worker'[w] = x
    BY <2>1 DEF ApprovalInv, TypeOK
  <2>4. approvals' = approvals /\ effects' = effects
    BY <1>4 DEF Consume, Revoke
  <2>5. /\ worker[w].pc = "decide" /\ worker[w].record.status = "pending"
    BY <1>4 DEF Consume, Revoke, Usable
  <2>6. /\ a \in Approvals /\ worker[w].revision \in 1..Len(approvals[a])
        /\ approvals[a][worker[w].revision].status = "pending"
    BY <2>5 DEF ApprovalInv, Local, Deciding
  <2>7. worker[w].revision = 1 /\ Len(approvals[a]) >= 1
    <3> DEFINE n == Len(approvals[a])
               r == worker[w].revision
    <3>1. n \in Nat /\ n <= 2
      BY <2>6 DEF ApprovalInv, TypeOK, Short
    <3>2. n = 2 => approvals[a][2].status # "pending"
      BY <2>6 DEF ApprovalInv, Short
    <3>3. r \in 1..n /\ approvals[a][r].status = "pending"
      BY <2>6
    <3>4. r = 2 => n # 2
      BY <3>2, <3>3
    <3> HIDE DEF n, r
    <3>5. r = 1 /\ n >= 1
      BY <3>1, <3>3, <3>4
    <3> QED BY <3>5 DEF n, r
  <2>8. /\ x.pc = "update" /\ x.request = a /\ x.revision = 1
        /\ x.record.status = s
    BY <2>2, <2>7 DEF Worker, Row
  <2> HIDE DEF x
  <2>9. Writing(w)'
    BY <2>3, <2>4, <2>6, <2>7, <2>8 DEF Writing
  <2>10. (Recording(w) /\ Deciding(w) /\ Confirming(w))'
    BY <2>3, <2>8 DEF Recording, Deciding, Confirming
  <2>11. x.pc = "act" => x = worker[w]
    BY <2>8
  <2> QED BY <2>3, <2>4, <2>9, <2>10, <2>11, WorkerStep
<1>5. ASSUME NEW w \in Workers, UpdateCheck(w)
      PROVE  Rest'
  <2>1. CASE worker' = [worker EXCEPT ![w].pc = "write"]
    <3> DEFINE x == [worker[w] EXCEPT !.pc = "write"]
    <3>1. worker[w] \in Worker
      BY DEF ApprovalInv, TypeOK
    <3>2. /\ approvals' = approvals /\ effects' = effects
          /\ worker' = [worker EXCEPT ![w] = x] /\ worker'[w] = x
      BY <1>5, <2>1 DEF UpdateCheck, ApprovalInv, TypeOK
    <3>3. /\ x.pc = "write" /\ x.request = worker[w].request
          /\ x.revision = worker[w].revision /\ x.record = worker[w].record
      BY <3>1 DEF Worker
    <3> HIDE DEF x
    <3>4. worker[w].pc = "update" /\ Writing(w)
      BY <1>5 DEF UpdateCheck, ApprovalInv, Local
    <3>5. Writing(w)'
      BY <3>2, <3>3, <3>4 DEF Writing
    <3>6. (Recording(w) /\ Deciding(w) /\ Confirming(w))'
      BY <3>2, <3>3 DEF Recording, Deciding, Confirming
    <3>7. x.pc = "act" => x = worker[w]
      BY <3>3
    <3> QED BY <3>2, <3>5, <3>6, <3>7, WorkerStep
  <2>2. CASE Done(w)
    BY <1>5, <2>2, IdleStep DEF UpdateCheck
  <2> QED BY <1>5, <2>1, <2>2 DEF UpdateCheck, Goto
<1>6. ASSUME NEW w \in Workers, NEW c \in Confirmations, ConfirmCheck(w, c)
      PROVE  Rest'
  <2>1. CASE worker' = worker
    BY <1>6, <2>1, SameStep DEF ConfirmCheck
  <2>2. CASE worker' = [worker EXCEPT ![w] =
                          [Idle EXCEPT !.pc = "confirm", !.request = c]]
    <3> DEFINE x == [Idle EXCEPT !.pc = "confirm", !.request = c]
    <3>1. /\ approvals' = approvals /\ effects' = effects /\ worker'[w] = x
      BY <1>6, <2>2 DEF ConfirmCheck, ApprovalInv, TypeOK
    <3>2. x.pc = "confirm" /\ x.request = c
      BY DEF Idle
    <3> HIDE DEF x
    <3>3. (Recording(w) /\ Deciding(w) /\ Writing(w) /\ Confirming(w))'
      BY <3>1, <3>2 DEF Recording, Deciding, Writing, Confirming
    <3>4. x.pc = "act" => x = worker[w]
      BY <3>2
    <3> QED BY <2>2, <3>1, <3>3, <3>4, WorkerStep DEF x
  <2> QED BY <1>6, <2>1, <2>2 DEF ConfirmCheck, Becomes
<1>7. ASSUME NEW w \in Workers, ConfirmInsert(w) \/ Abandon(w)
      PROVE  Rest'
  BY <1>7, IdleStep DEF ConfirmInsert, Abandon
<1>8. ASSUME RevisePlan \/ Tick \/ UNCHANGED vars
      PROVE  Rest'
  BY <1>8, SameStep DEF RevisePlan, Tick, vars
<1>9. ASSUME NEW w \in Workers,
             RecordInsert(w) \/ UpdateInsert(w) \/ Act(w)
      PROVE  Rest'
  BY <1>9, RecordInsertInv, UpdateInsertInv, ActInv
<1>10. Rest' => ApprovalInv'
  BY <1>1 DEF ApprovalInv
<1> HIDE DEF Rest
<1> QED
  BY <1>2, <1>3, <1>4, <1>5, <1>6, <1>7, <1>8, <1>9, <1>10 DEF Next, Step

-----------------------------------------------------------------------------
(* ApprovalInv holds in every state. *)
LEMMA Invariant == Spec => []ApprovalInv
<1> QED BY InitInv, InvStep, PTL DEF Spec

(* The variables keep their types: no status outside the closed set, and      *)
(* every worker's record is one the store can hold.                           *)
THEOREM TypeCorrect == Spec => []TypeOK
<1>1. ApprovalInv => TypeOK
  BY DEF ApprovalInv
<1> QED BY <1>1, Invariant, PTL

(* An approval authorises at most one side effect, whatever the workers that  *)
(* loaded it do: update_approval lets one of them past.                       *)
THEOREM OneEffect == Spec => []AtMostOneEffect
<1>1. ASSUME ApprovalInv, NEW a \in Approvals PROVE effects[a] <= 1
  <2>1. effects[a] = 0 \/ effects[a] = 1
    BY <1>1 DEF ApprovalInv, EffectsDecided
  <2> QED BY <2>1
<1>2. ApprovalInv => AtMostOneEffect
  BY <1>1 DEF AtMostOneEffect
<1> QED BY <1>2, Invariant, PTL

(* No side effect of an approval whose revocation is stored.                  *)
THEOREM RevocationHolds == Spec => []RevokedNeverActs
<1>1. ASSUME ApprovalInv, NEW a \in Approvals, NEW r \in DOMAIN approvals[a],
             approvals[a][r].status = "revoked"
      PROVE  effects[a] = 0
  <2>1. approvals[a] \in Seq(Row)
    BY <1>1 DEF ApprovalInv, TypeOK
  <2>2. r \in 1..Len(approvals[a]) /\ Len(approvals[a]) \in Nat
    BY <2>1
  <2>3. r # 1
    BY <1>1, <2>2 DEF ApprovalInv, Short
  <2>4. r = 2
    BY <1>1, <2>2, <2>3 DEF ApprovalInv, Short
  <2> QED BY <1>1, <2>4 DEF ApprovalInv, EffectsDecided, Decided
<1>2. ApprovalInv => RevokedNeverActs
  BY <1>1 DEF RevokedNeverActs
<1> QED BY <1>2, Invariant, PTL

(* No step changes or removes a row of the history.                           *)
THEOREM HistoryAppendOnly == Spec => HistoryGrows
<1> DEFINE Kept == \A a \in Approvals : \A r \in DOMAIN approvals[a] :
                       /\ r \in DOMAIN approvals'[a]
                       /\ approvals'[a][r] = approvals[a][r]
<1>1. ASSUME ApprovalInv, [Next]_vars PROVE Kept
  <2>1. CASE approvals' = approvals
    BY <2>1
  <2>2. ASSUME NEW w \in Workers, RecordInsert(w), approvals' # approvals
        PROVE  Kept
    <3>1. /\ approvals[worker[w].request] = <<>>
          /\ approvals' = [approvals EXCEPT ![worker[w].request] =
                              <<worker[w].record>>]
      BY <2>2 DEF RecordInsert
    <3>2. DOMAIN approvals[worker[w].request] = {}
      BY <3>1
    <3> QED BY <1>1, <3>1, <3>2 DEF ApprovalInv, TypeOK
  <2>3. ASSUME NEW w \in Workers, UpdateInsert(w), approvals' # approvals
        PROVE  Kept
    <3> DEFINE a == worker[w].request
    <3>1. approvals' = [approvals EXCEPT ![a] =
                            Append(approvals[a], worker[w].record)]
      BY <2>3 DEF UpdateInsert
    <3>2. a \in Approvals /\ worker[w].record \in Row
      BY <1>1, <2>3 DEF UpdateInsert, ApprovalInv, TypeOK, Local, Writing, Worker
    <3>3. approvals[a] \in Seq(Row)
      BY <1>1, <3>2 DEF ApprovalInv, TypeOK
    <3>4. ASSUME NEW r \in DOMAIN approvals[a]
          PROVE  /\ r \in DOMAIN Append(approvals[a], worker[w].record)
                 /\ Append(approvals[a], worker[w].record)[r] = approvals[a][r]
      BY <3>2, <3>3, AppendProperties
    <3> QED BY <1>1, <3>1, <3>2, <3>4 DEF ApprovalInv, TypeOK
  <2> QED BY <1>1, <2>1, <2>2, <2>3
      DEF Next, Step, RecordCheck, Load, Consume, Revoke, UpdateCheck, Act,
          ConfirmCheck, ConfirmInsert, Abandon, RevisePlan, Tick, vars
<1>2. ApprovalInv /\ [Next]_vars => [Kept]_vars
  BY <1>1
<1>3. Spec => [][Kept]_vars
  BY <1>2, Invariant, PTL DEF Spec
<1> QED BY <1>3 DEF HistoryGrows

(* A confirmation that was reported as stored is the one its key names, and   *)
(* stays so.                                                                  *)
THEOREM ConfirmationStored == Spec => []ConfirmedIsStored
<1>1. Init => ConfirmedIsStored
  BY DEF Init, ConfirmedIsStored
<1>2. ASSUME ApprovalInv, ConfirmedIsStored, [Next]_vars
      PROVE  ConfirmedIsStored'
  <2> USE <1>2 DEF ConfirmedIsStored
  <2>1. ASSUME NEW w \in Workers, NEW c \in Confirmations, ConfirmCheck(w, c)
        PROVE  ConfirmedIsStored'
    BY <2>1 DEF ConfirmCheck
  <2>2. ASSUME NEW w \in Workers, ConfirmInsert(w)
        PROVE  ConfirmedIsStored'
    <3> DEFINE c == worker[w].request
    <3>1. c \in Confirmations
      BY <2>2 DEF ConfirmInsert, ApprovalInv, Local, Confirming
    <3>2. CASE confirmations[KeyOf[c]] = None
      <4>1. /\ confirmations' = [confirmations EXCEPT ![KeyOf[c]] = c]
            /\ confirmed' = confirmed \cup {c}
        BY <2>2, <3>2 DEF ConfirmInsert
      <4>2. \A d \in confirmed : KeyOf[d] # KeyOf[c]
        BY <3>2, NoneAssumption DEF ApprovalInv, TypeOK
      <4>3. KeyOf[c] \in Keys
        BY <3>1, KeyAssumption
      <4> QED BY <4>1, <4>2, <4>3 DEF ApprovalInv, TypeOK
    <3>3. CASE confirmations[KeyOf[c]] # None
      BY <2>2, <3>3 DEF ConfirmInsert
    <3> QED BY <3>2, <3>3
  <2>3. CASE UNCHANGED <<confirmations, confirmed>>
    BY <2>3
  <2> QED BY <2>1, <2>2, <2>3
      DEF Next, Step, RecordCheck, RecordInsert, Load, Consume, Revoke,
          UpdateCheck, UpdateInsert, Act, Abandon, RevisePlan, Tick, vars
<1> QED BY <1>1, <1>2, Invariant, PTL DEF Spec
=============================================================================
