----------------------- MODULE AcceptanceContract_proofs -----------------------
(***************************************************************************)
(* What an acceptance contract says of its conditions, for any conditions, *)
(* keys and verdicts and any number of late, repeated and reordered        *)
(* answers.                                                                *)
(***************************************************************************)
EXTENDS AcceptanceContract, SequenceTheorems, TLAPS

Request == [key : Keys \cup {"none"}, digest : Digests \cup {"none"}]

Message == [condition : Conditions, version : Nat, expected : ConditionStatus,
            new : ConditionStatus, request : Request]

Event == [condition : Conditions, new : ConditionStatus, version : Nat,
          request : Request]

Typed ==
    /\ version \in Nat
    /\ status \in [Conditions -> ConditionStatus]
    /\ approved \in BOOLEAN
    /\ history \in Seq(Event)
    /\ sent \subseteq Message
    /\ \A m \in sent : m.condition \in User => m.request.key \in Keys

(* Event i of the history made version i + 1. *)
Chained ==
    /\ version = Len(history) + 1
    /\ \A i \in 1..Len(history) : history[i].version = i

(* A request is in the history once; what is not a request has no key.     *)
Unique ==
    \A i, j \in 1..Len(history) :
        /\ history[i].request = NoKey \/ history[i].request.key \in Keys
        /\ history[i].request.key \in Keys
           /\ history[i].request.key = history[j].request.key => i = j

(* Event i is the last one on c. *)
LastOn(c, i) ==
    /\ i \in 1..Len(history) /\ history[i].condition = c
    /\ \A j \in 1..Len(history) : history[j].condition = c => j <= i

(* The status of a condition is what its last event says. *)
Accurate ==
    \A c \in Conditions :
        \/ /\ \A i \in 1..Len(history) : history[i].condition # c
           /\ status[c] = "NOT_RUN"
        \/ \E i \in 1..Len(history) : LastOn(c, i) /\ history[i].new = status[c]

(* The user has seen what is approved. *)
ApprovedAsSeen == approved => seen = [version |-> version, status |-> status]

ContractInv == Typed /\ Chained /\ Unique /\ Accurate /\ ApprovedAsSeen

-----------------------------------------------------------------------------
LEMMA ContractInitially == ContractInit => ContractInv
<1> SUFFICES ASSUME ContractInit PROVE ContractInv
  OBVIOUS
<1>1. Typed
  <2>1. history \in Seq(Event) /\ version \in Nat
    BY DEF ContractInit
  <2>2. approved \in BOOLEAN /\ sent = {}
    BY Zenon DEF ContractInit
  <2>3. status \in [Conditions -> ConditionStatus]
    BY DEF ContractInit, ConditionStatus
  <2> QED BY <2>1, <2>2, <2>3 DEF Typed
<1>2. history = <<>> /\ Len(history) = 0
  BY DEF ContractInit
<1>3. Chained /\ Unique /\ ApprovedAsSeen
  BY <1>2 DEF ContractInit, Chained, Unique, ApprovedAsSeen
<1>4. Accurate
  BY <1>2 DEF ContractInit, Accurate
<1> QED BY <1>1, <1>3, <1>4 DEF ContractInv

(* An update is one more event, of the version it is made to. *)
LEMMA UpdateStep ==
  ASSUME ContractInv,
         NEW c \in Conditions, NEW new \in ConditionStatus, NEW r \in Request,
         UpdateContract(c, new, r), UNCHANGED sent,
         r = NoKey \/ (r.key \in Keys /\ Prior(r) = {})
  PROVE  ContractInv'
<1> DEFINE n == Len(history)
           e == [condition |-> c, new |-> new, version |-> version, request |-> r]
<1>1. /\ version \in Nat /\ status \in [Conditions -> ConditionStatus]
      /\ history \in Seq(Event) /\ e \in Event /\ n \in Nat
  BY DEF ContractInv, Typed, Event
<1>2. /\ history' = Append(history, e)
      /\ version' = version + 1
      /\ status' = [status EXCEPT ![c] = new]
      /\ approved' = FALSE
  BY DEF UpdateContract
<1>3. /\ history' \in Seq(Event)
      /\ Len(history') = n + 1
      /\ history'[n + 1] = e
      /\ \A i \in 1..n : history'[i] = history[i]
  BY <1>1, <1>2, AppendProperties
<1> HIDE DEF n, e
<1>4. Typed'
  <2>1. version' \in Nat /\ history' \in Seq(Event)
    BY <1>1, <1>2, <1>3
  <2>2. approved' \in BOOLEAN
    BY <1>2
  <2>3. status' \in [Conditions -> ConditionStatus]
    BY <1>1, <1>2
  <2> QED BY <2>1, <2>2, <2>3 DEF ContractInv, Typed
<1>5. e.condition = c /\ e.new = new /\ e.version = version /\ e.request = r
  BY DEF e
<1>6. version = n + 1
  BY DEF ContractInv, Chained, n
<1>7. Chained'
  <2>1. ASSUME NEW i \in 1..(n + 1) PROVE history'[i].version = i
    <3>1. CASE i = n + 1
      BY <1>3, <1>5, <1>6, <3>1
    <3>2. CASE i \in 1..n
      BY <1>3, <3>2 DEF ContractInv, Chained, n
    <3> QED BY <1>1, <3>1, <3>2
  <2> QED BY <1>1, <1>2, <1>3, <1>6, <2>1 DEF Chained
<1>8. Unique'
  <2>1. ASSUME NEW i \in 1..n
        PROVE  /\ history[i].request = NoKey \/ history[i].request.key \in Keys
               /\ r.key \in Keys => history[i].request.key # r.key
    BY ConditionsOfOneKind DEF ContractInv, Unique, n, Prior, NoKey
  <2>2. ASSUME NEW i \in 1..n, NEW j \in 1..n,
               history[i].request.key \in Keys,
               history[i].request.key = history[j].request.key
        PROVE  i = j
    BY <2>2 DEF ContractInv, Unique, n
  <2>3. ASSUME NEW i \in 1..(n + 1), NEW j \in 1..(n + 1)
        PROVE  /\ history'[i].request = NoKey \/ history'[i].request.key \in Keys
               /\ history'[i].request.key \in Keys
                  /\ history'[i].request.key = history'[j].request.key => i = j
    <3>1. (i = n + 1 \/ i \in 1..n) /\ (j = n + 1 \/ j \in 1..n)
      BY <1>1
    <3> QED BY <1>3, <1>5, <2>1, <2>2, <3>1
  <2> QED BY <1>3, <2>3 DEF Unique
<1>9. Accurate'
  <2>1. ASSUME NEW d \in Conditions
        PROVE  \/ /\ \A i \in 1..(n + 1) : history'[i].condition # d
                  /\ status'[d] = "NOT_RUN"
               \/ \E i \in 1..(n + 1) :
                     /\ history'[i].condition = d
                     /\ \A j \in 1..(n + 1) : history'[j].condition = d => j <= i
                     /\ history'[i].new = status'[d]
    <3>1. CASE d = c
      <4>1. n + 1 \in 1..(n + 1) /\ \A j \in 1..(n + 1) : j <= n + 1
        BY <1>1
      <4> QED BY <1>1, <1>2, <1>3, <1>5, <3>1, <4>1
    <3>2. CASE d # c
      <4>1. status'[d] = status[d]
        BY <1>1, <1>2, <3>2
      <4>2. \A i \in 1..(n + 1) : i = n + 1 \/ i \in 1..n
        BY <1>1
      <4>3. 1..n \subseteq 1..(n + 1)
        BY <1>1
      <4>4. CASE (\A i \in 1..n : history[i].condition # d) /\ status[d] = "NOT_RUN"
        BY <1>3, <1>5, <3>2, <4>1, <4>2, <4>4
      <4>5. CASE \E i \in 1..n : LastOn(d, i) /\ history[i].new = status[d]
        <5>1. PICK i \in 1..n : LastOn(d, i) /\ history[i].new = status[d]
          BY <4>5
        <5>2. \A j \in 1..(n + 1) : history'[j].condition = d => j <= i
          BY <1>3, <1>5, <3>2, <4>2, <5>1 DEF LastOn, n
        <5> QED BY <1>3, <4>1, <4>3, <5>1, <5>2 DEF LastOn, n
      <4> QED BY <4>4, <4>5 DEF ContractInv, Accurate, n
    <3> QED BY <3>1, <3>2
  <2> QED BY <1>3, <2>1 DEF Accurate, LastOn
<1>10. ApprovedAsSeen'
  BY <1>2 DEF ApprovedAsSeen
<1> QED BY <1>4, <1>7, <1>8, <1>9, <1>10 DEF ContractInv

(* Sending a message leaves the contract alone. *)
LEMMA SendStep ==
  ASSUME ContractInv,
         NEW c \in Conditions, NEW new \in ConditionStatus, NEW r \in Request,
         Send(c, new, r), UNCHANGED <<contract, seen>>,
         c \in User => r.key \in Keys
  PROVE  ContractInv'
<1>1. sent' \subseteq Message /\ \A m \in sent' : m.condition \in User => m.request.key \in Keys
  BY DEF ContractInv, Typed, Send, Message
<1> QED
  BY <1>1 DEF ContractInv, Typed, contract, Chained, Unique, Accurate, LastOn,
              ApprovedAsSeen

LEMMA ContractStep ==
  ASSUME ContractInv, [ContractNext]_contractVars
  PROVE  ContractInv'
<1>1. NoKey \in Request /\ NoKey.key \notin Keys
  BY ConditionsOfOneKind DEF NoKey, Request
<1>2. CASE ApplyMachineEvidence
  <2>1. PICK m \in sent : m.condition \in Machine
                          /\ UpdateContract(m.condition, m.new, NoKey)
    BY <1>2 DEF ApplyMachineEvidence
  <2>2. m.condition \in Conditions /\ m.new \in ConditionStatus
    BY DEF ContractInv, Typed, Message
  <2> QED BY <1>1, <1>2, <2>1, <2>2, UpdateStep DEF ApplyMachineEvidence
<1>3. CASE ApplyUserConfirmation
  <2>1. PICK m \in sent : /\ m.condition \in User /\ Prior(m.request) = {}
                          /\ UpdateContract(m.condition, m.new, m.request)
    BY <1>3 DEF ApplyUserConfirmation
  <2>2. /\ m.condition \in Conditions /\ m.new \in ConditionStatus
        /\ m.request \in Request /\ m.request.key \in Keys
    BY <2>1 DEF ContractInv, Typed, Message
  <2> QED BY <1>3, <2>1, <2>2, UpdateStep DEF ApplyUserConfirmation
<1>4. CASE Verify
  <2>1. PICK c \in Machine, new \in Verdicts : Send(c, new, NoKey)
    BY <1>4 DEF Verify
  <2>2. c \in Conditions /\ c \notin User /\ new \in ConditionStatus
    BY ConditionsOfOneKind DEF Conditions
  <2> QED BY <1>1, <1>4, <2>1, <2>2, SendStep DEF Verify
<1>5. CASE ConfirmOrReject
  <2>1. PICK c \in User, new \in {"PASSED", "FAILED"}, k \in Keys, d \in Digests :
          Send(c, new, [key |-> k, digest |-> d])
    BY <1>5 DEF ConfirmOrReject
  <2> DEFINE r == [key |-> k, digest |-> d]
  <2>2. /\ c \in Conditions /\ new \in ConditionStatus
        /\ r \in Request /\ r.key \in Keys
    BY DEF Conditions, ConditionStatus, Request
  <2> HIDE DEF r
  <2>3. Send(c, new, r)
    BY <2>1 DEF r
  <2> QED BY <1>5, <2>2, <2>3, SendStep DEF ConfirmOrReject
<1>6. CASE Approve
  BY <1>6 DEF Approve, ContractInv, Typed, Chained, Unique, Accurate, LastOn,
              ApprovedAsSeen
<1>7. CASE UNCHANGED contractVars
  BY <1>7 DEF contractVars, contract, ContractInv, Typed, Chained, Unique,
              Accurate, LastOn, ApprovedAsSeen
<1> QED BY <1>2, <1>3, <1>4, <1>5, <1>6, <1>7 DEF ContractNext

LEMMA ContractInvariant == ContractSpec => []ContractInv
<1>1. ContractInit => ContractInv
  BY ContractInitially
<1>2. ContractInv /\ [ContractNext]_contractVars => ContractInv'
  BY ContractStep
<1> QED BY <1>1, <1>2, PTL DEF ContractSpec

-----------------------------------------------------------------------------
(* What the contract says of a condition is the last word on it. *)
LEMMA VerdictIsStatus ==
  ASSUME ContractInv, NEW c \in Conditions
  PROVE  Verdict(c) = status[c]
<1> DEFINE events == {i \in DOMAIN history : history[i].condition = c}
<1>0. DOMAIN history = 1..Len(history) /\ Len(history) \in Nat
  BY DEF ContractInv, Typed
<1>1. CASE \A i \in 1..Len(history) : history[i].condition # c
  <2>1. events = {}
    BY <1>0, <1>1
  <2>2. status[c] = "NOT_RUN"
    BY <1>1 DEF ContractInv, Accurate, LastOn
  <2> QED BY <2>1, <2>2 DEF Verdict
<1>2. CASE \E i \in 1..Len(history) : LastOn(c, i) /\ history[i].new = status[c]
  <2>1. PICK i \in 1..Len(history) : LastOn(c, i) /\ history[i].new = status[c]
    BY <1>2
  <2>2. i \in events /\ \A j \in events : j <= i
    BY <1>0, <2>1 DEF LastOn
  <2> DEFINE last == CHOOSE k \in events : \A j \in events : j <= k
  <2>3. last \in events /\ \A j \in events : j <= last
    BY <2>2
  <2>4. last = i
    <3>1. last \in Nat /\ i \in Nat
      BY <1>0, <2>2, <2>3
    <3>2. last <= i /\ i <= last
      BY <2>2, <2>3
    <3> HIDE DEF last
    <3> QED BY <3>1, <3>2
  <2>5. Verdict(c) = history[last].new
    BY <2>2 DEF Verdict
  <2> QED BY <2>1, <2>4, <2>5
<1> QED BY <1>1, <1>2 DEF ContractInv, Accurate

(* A contract is eligible for apply only when the last evidence or answer  *)
(* on every required condition was a pass and the user approved after it.  *)
THEOREM EligibleIsEarned ==
  ContractSpec => []EligibleIsApproved
<1>1. ASSUME ContractInv PROVE EligibleIsApproved
  <2>1. ASSUME NEW v \in 1..MaxVersion, Eligible(v)
        PROVE  /\ \A c \in Required : Verdict(c) = "PASSED"
               /\ seen = [version |-> v, status |-> status]
    BY <1>1, <2>1, VerdictIsStatus, ConditionsOfOneKind
      DEF Eligible, ContractInv, ApprovedAsSeen
  <2> QED BY <2>1 DEF EligibleIsApproved
<1>2. ContractSpec => []ContractInv
  BY ContractInvariant
<1> QED BY <1>1, <1>2, PTL

(* However often an answer is sent again, and in whatever order answers    *)
(* arrive, each key is in one event.                                       *)
THEOREM AnswersCountOnce ==
  ContractSpec => []EachAnswerCountsOnce
<1>1. ASSUME ContractInv PROVE EachAnswerCountsOnce
  <2>1. DOMAIN history = 1..Len(history)
    BY <1>1 DEF ContractInv, Typed
  <2> QED BY <1>1, <2>1, ConditionsOfOneKind
          DEF ContractInv, Typed, Event, Request, Unique, EachAnswerCountsOnce
<1>2. ContractSpec => []ContractInv
  BY ContractInvariant
<1> QED BY <1>1, <1>2, PTL
=============================================================================
