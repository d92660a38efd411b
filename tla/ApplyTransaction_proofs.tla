---------------------- MODULE ApplyTransaction_proofs ----------------------
(***************************************************************************)
(* Proofs about ApplyTransaction, for any number of entries, any plan, any *)
(* number of crashes, failing system calls and edits of the user:          *)
(*                                                                         *)
(*   TransactionIsWellFormed    the types, and a journal that stays valid  *)
(*   LogIsWrittenAhead          write-ahead logging                        *)
(*   TransactionIsAllOrNothing  what APPLIED and ROLLED_BACK mean          *)
(*   UserContentIsKept          what the user put there survives           *)
(*   TransactionIsAtomic        for crashes alone, the refinement of       *)
(*                              AtomicApply                                *)
(*                                                                         *)
(* CoreInv is the inductive invariant.  None of these properties is        *)
(* inductive: each needs where the coordinator is (PhaseAtPc), how the     *)
(* order of the log relates to it (LogAhead), which entries it cannot have *)
(* touched (Bystanders) and what the last checks established (Outcomes).   *)
(* OnCourse is what holds besides when only the process dies.              *)
(*                                                                         *)
(* The order of this module: the journal, one leaf, the invariant, what    *)
(* the steps that write a record or a leaf come to, one lemma for each     *)
(* part of the invariant, the theorems about safety, the refinement.       *)
(***************************************************************************)
EXTENDS ApplyTransaction, TLAPS, WellFoundedInduction, FiniteSetTheorems

-----------------------------------------------------------------------------
(* The journal.                                                            *)

LEMMA Least ==
  ASSUME NEW T \in SUBSET Nat, T # {}
  PROVE \E x \in T : \A y \in T : x <= y
<1> DEFINE Less == {ss \in Nat \X Nat : ss[1] < ss[2]}
<1>1. OpToRel(<, Nat) = Less
  BY DEF OpToRel
<1>2. IsWellFoundedOn(Less, Nat)
  BY <1>1, NatLessThanWellFounded
<1> HIDE DEF Less
<1>3. PICK x \in T : \A y \in T : ~ (<<y, x>> \in Less)
  BY <1>2, WFMin
<1>4. ASSUME NEW y \in T PROVE x <= y
  <2>1. x \in Nat /\ y \in Nat
    OBVIOUS
  <2>2. y < x => <<y, x>> \in Less
    BY <2>1 DEF Less
  <2> QED BY <1>3, <2>1, <2>2
<1> QED BY <1>4

LEMMA Greatest ==
  ASSUME NEW n \in Nat, NEW T \in SUBSET 1..n, T # {}
  PROVE \E x \in T : \A y \in T : y <= x
<1> DEFINE R == {n - t : t \in T}
<1>0. PICK u \in T : TRUE OBVIOUS
<1>1. R \in SUBSET Nat /\ R # {} BY <1>0
<1>2. PICK r \in R : \A s \in R : r <= s BY <1>1, Least
<1>3. PICK t \in T : r = n - t OBVIOUS
<1>4. \A s \in T : n - s \in R OBVIOUS
<1>5. \A s \in T : s <= t BY <1>2, <1>3, <1>4
<1> QED BY <1>5

(* The phase a prefix of the log has reached is that of its last phase     *)
(* record.                                                                 *)
LEMMA PhaseReached ==
  ASSUME NEW j \in Seq(JournalRecord), NEW n \in 0..Len(j)
  PROVE  \/ /\ PhaseUpTo(j, n) = "NONE"
            /\ \A i \in 1..n : j[i].kind \notin Phases
         \/ /\ PhaseUpTo(j, n) \in Phases
            /\ \E i \in 1..n : j[i].kind = PhaseUpTo(j, n)
<1> DEFINE marks == {i \in 1..n : j[i].kind \in Phases}
<1>1. CASE marks = {}
  BY <1>1 DEF PhaseUpTo
<1>2. CASE marks # {}
  <2>1. marks \in SUBSET (1..n) /\ n \in Nat
    OBVIOUS
  <2>2. \E i \in marks : \A k \in marks : k <= i
    BY <1>2, <2>1, Greatest
  <2>3. PICK c \in marks : PhaseUpTo(j, n) = j[c].kind
    BY <1>2, <2>2 DEF PhaseUpTo
  <2> QED
    BY <2>3
<1> QED
  BY <1>1, <1>2

(* Appending changes no prefix of the log.                                 *)
LEMMA PrefixKept ==
  ASSUME NEW j \in Seq(JournalRecord), NEW rec \in JournalRecord,
         NEW n \in 0..Len(j)
  PROVE  PhaseUpTo(Append(j, rec), n) = PhaseUpTo(j, n)
<1> DEFINE marks == {i \in 1..n : j[i].kind \in Phases}
           new == {i \in 1..n : Append(j, rec)[i].kind \in Phases}
<1>1. \A i \in 1..n : Append(j, rec)[i] = j[i]
  OBVIOUS
<1>2. new = marks
  BY <1>1
<1>3. CASE marks = {}
  BY <1>2, <1>3 DEF PhaseUpTo
<1>4. CASE marks # {}
  <2>1. marks \in SUBSET (1..n) /\ n \in Nat
    OBVIOUS
  <2>2. \E i \in marks : \A k \in marks : k <= i
    BY <1>4, <2>1, Greatest
  <2> DEFINE c == CHOOSE i \in marks : \A k \in marks : k <= i
  <2>3. c \in marks
    BY <2>2
  <2>4. PhaseUpTo(j, n) = j[c].kind
    BY <1>4 DEF PhaseUpTo
  <2>5. PhaseUpTo(Append(j, rec), n) = Append(j, rec)[c].kind
    BY <1>2, <1>4 DEF PhaseUpTo
  <2> QED
    BY <1>1, <2>1, <2>3, <2>4, <2>5
<1> QED
  BY <1>3, <1>4

(* The phase of a log one record longer.                                   *)
LEMMA PhaseOfAppend ==
  ASSUME NEW j \in Seq(JournalRecord), NEW rec \in JournalRecord
  PROVE  LatestPhase(Append(j, rec))
           = IF rec.kind \in Phases THEN rec.kind ELSE LatestPhase(j)
<1> DEFINE n == Len(j)
           long == Append(j, rec)
           marks == {i \in 1..(n + 1) : long[i].kind \in Phases}
<1>1. Len(long) = n + 1 /\ long[n + 1] = rec /\ n \in Nat
  OBVIOUS
<1>2. LatestPhase(long) = PhaseUpTo(long, n + 1)
  BY <1>1 DEF LatestPhase
<1>3. CASE rec.kind \in Phases
  <2>1. n + 1 \in marks /\ \A k \in marks : k <= n + 1
    BY <1>1, <1>3
  <2>2. \A c \in marks : (\A k \in marks : k <= c) => c = n + 1
    BY <1>1, <2>1
  <2>a. (CHOOSE i \in marks : \A k \in marks : k <= i) = n + 1
    <3> HIDE DEF marks
    <3> QED
      BY <2>1, <2>2
  <2>3. PhaseUpTo(long, n + 1) = long[n + 1].kind
    BY <2>1, <2>a DEF PhaseUpTo
  <2> QED
    BY <1>1, <1>2, <1>3, <2>3
<1>4. CASE rec.kind \notin Phases
  <2>1. marks = {i \in 1..n : long[i].kind \in Phases}
    BY <1>1, <1>4
  <2>2. PhaseUpTo(long, n + 1) = PhaseUpTo(long, n)
    <3> DEFINE front == {i \in 1..n : long[i].kind \in Phases}
               Reached(S) ==
                 IF S = {} THEN "NONE"
                 ELSE long[CHOOSE i \in S : \A k \in S : k <= i].kind
    <3>1. PhaseUpTo(long, n + 1) = Reached(marks)
          /\ PhaseUpTo(long, n) = Reached(front)
      BY DEF PhaseUpTo
    <3>2. marks = front
      BY <2>1
    <3> HIDE DEF marks, front, Reached
    <3> QED
      BY <3>1, <3>2
  <2> QED
    BY <1>1, <1>2, <1>4, <2>2, PrefixKept DEF LatestPhase
<1> QED
  BY <1>3, <1>4

(* What is in a log one record longer.                                     *)
LEMMA LoggedAfter ==
  ASSUME NEW j \in Seq(JournalRecord), NEW rec \in JournalRecord,
         NEW kind, NEW e
  PROVE  Logged(Append(j, rec), kind, e)
           <=> Logged(j, kind, e) \/ rec = Rec(kind, e)
<1>1. /\ Len(Append(j, rec)) = Len(j) + 1 /\ Len(j) \in Nat
      /\ Append(j, rec)[Len(j) + 1] = rec
      /\ \A i \in 1..Len(j) : Append(j, rec)[i] = j[i]
  OBVIOUS
<1> QED
  BY <1>1 DEF Logged

(* A pair of records stays one pair, in the same places, while no third    *)
(* record of either kind is written.                                       *)
LEMMA PairKept ==
  ASSUME NEW j \in Seq(JournalRecord), NEW rec \in JournalRecord,
         NEW first, NEW second, NEW e, NEW place,
         rec # Rec(first, e), rec # Rec(second, e),
         Pair(j, first, second, e, place)
  PROVE  Pair(Append(j, rec), first, second, e, place)
<1> DEFINE long == Append(j, rec)
<1>1. /\ Len(long) = Len(j) + 1 /\ Len(j) \in Nat /\ long[Len(j) + 1] = rec
      /\ \A i \in 1..Len(j) : long[i] = j[i]
  OBVIOUS
<1>2. ASSUME NEW kind, rec # Rec(kind, e), Once(j, kind, e)
      PROVE  Once(long, kind, e) /\ Place(long, kind, e) = Place(j, kind, e)
  <2>1. Positions(long, kind, e) = Positions(j, kind, e)
    BY <1>1, <1>2 DEF Positions
  <2>2. Positions(j, kind, e) \subseteq 1..Len(j)
    BY DEF Positions
  <2>3. IsFiniteSet(Positions(j, kind, e))
    <3>1. IsFiniteSet(1..Len(j))
      BY <1>1, FS_Interval
    <3> QED
      BY <2>2, <3>1, FS_Subset
  <2>4. PICK p : Positions(j, kind, e) = {p}
    BY <1>2, <2>3, FS_Singleton DEF Once
  <2>5. Place(j, kind, e) = p
    BY <2>4 DEF Place, Positions
  <2>6. Place(long, kind, e) = p
    BY <2>1, <2>4 DEF Place, Positions
  <2> QED
    BY <1>2, <2>1, <2>5, <2>6 DEF Once
<1> QED
  BY <1>2 DEF Pair

(* The phases of the log before each phase, as far as records of that      *)
(* phase may still be written.                                             *)
Went(j, phases) ==
    \A i \in 1..Len(j) : j[i].kind \in Phases => j[i].kind \in phases
PhasesInOrder(j) ==
    /\ LatestPhase(j) = "NONE" => Len(j) = 0
    /\ LatestPhase(j) = "PREPARING" => Went(j, {"PREPARING"})
    /\ LatestPhase(j) = "BACKUP_READY" => Went(j, {"PREPARING", "BACKUP_READY"})
    /\ LatestPhase(j) = "APPLYING" =>
          Went(j, {"PREPARING", "BACKUP_READY", "APPLYING"})
    /\ LatestPhase(j) = "ROLLING_BACK" =>
          Went(j, {"PREPARING", "BACKUP_READY", "APPLYING", "ROLLING_BACK"})

(* A record the journal accepts without revalidating the log leaves the    *)
(* log valid.                                                              *)
LEMMA RecordKeepsLogValid ==
  ASSUME NEW j \in Seq(JournalRecord), NEW rec \in JournalRecord,
         ValidRecordSequence(j), PhasesInOrder(j),
         rec.kind \notin Phases, NonPhaseValid(LatestPhase(j), rec)
  PROVE  ValidRecordSequence(Append(j, rec))
<1> DEFINE long == Append(j, rec)
<1>1. /\ Len(long) = Len(j) + 1 /\ Len(j) \in Nat /\ long[Len(j) + 1] = rec
      /\ \A i \in 1..Len(j) : long[i] = j[i]
  OBVIOUS
<1>2. LatestPhase(j) \in {"PREPARING", "APPLYING", "ROLLING_BACK"}
  BY DEF NonPhaseValid
<1>3. /\ LatestPhase(j) = "PREPARING" => rec.kind \in BackupKinds
      /\ LatestPhase(j) = "APPLYING" =>
            rec.kind \in ApplyKinds \cup VerifyKinds \cup {"created parent"}
      /\ LatestPhase(j) = "ROLLING_BACK" =>
            rec.kind \in RollbackKinds \cup {"rollback index digest rechecked"}
  <2>1. \A k, e : rec = Rec(k, e) => rec.kind = k
    BY DEF Rec
  <2>2. LatestPhase(j) = "PREPARING" => rec.kind \in BackupKinds
    BY DEF NonPhaseValid
  <2>3. LatestPhase(j) = "APPLYING" =>
           rec.kind \in ApplyKinds \cup VerifyKinds \cup {"created parent"}
    BY <2>1 DEF NonPhaseValid
  <2>4. LatestPhase(j) = "ROLLING_BACK" =>
           rec.kind \in RollbackKinds \cup {"rollback index digest rechecked"}
    BY <2>1 DEF NonPhaseValid
  <2> QED
    BY <2>2, <2>3, <2>4
<1>4. ASSUME NEW place \in 1..Len(j), j[place].kind = "BACKUP_READY",
             BackupEvidence(j, place)
      PROVE  BackupEvidence(long, place)
  <2>1. LatestPhase(j) # "PREPARING"
    BY <1>4 DEF PhasesInOrder, Went, Phases
  <2>2. \A e \in Entries : /\ rec # Rec("backup pending", e)
                           /\ rec # Rec("backup verified", e)
    <3>1. \A k, e : rec = Rec(k, e) => rec.kind = k
      BY DEF Rec
    <3>2. rec.kind \notin BackupKinds
      BY <1>2, <1>3, <2>1
         DEF ApplyKinds, BackupKinds, VerifyKinds, RollbackKinds
    <3> QED
      BY <3>1, <3>2 DEF BackupKinds
  <2> QED
    BY <1>4, <2>2, PairKept DEF BackupEvidence
<1>5. ASSUME NEW place \in 1..Len(j), j[place].kind = "APPLIED",
             AppliedEvidence(j, place)
      PROVE  AppliedEvidence(long, place)
  <2>1. LatestPhase(j) \notin {"PREPARING", "APPLYING", "ROLLING_BACK"}
    BY <1>5 DEF PhasesInOrder, Went, Phases
  <2> QED
    BY <1>2, <2>1
<1>6. ASSUME NEW place \in 1..Len(j), j[place].kind = "ROLLED_BACK",
             RolledBackEvidence(j, place)
      PROVE  RolledBackEvidence(long, place)
  <2>1. LatestPhase(j) \notin {"PREPARING", "APPLYING", "ROLLING_BACK"}
    BY <1>6 DEF PhasesInOrder, Went, Phases
  <2> QED
    BY <1>2, <2>1
<1>7. ASSUME NEW place \in 1..Len(j)
      PROVE  IF long[place].kind \in Phases THEN PhaseValid(long, place)
             ELSE NonPhaseValid(PhaseUpTo(long, place - 1), long[place])
  <2>1. PhaseUpTo(long, place - 1) = PhaseUpTo(j, place - 1) /\ long[place] = j[place]
    BY <1>1, PrefixKept
  <2>2. IF j[place].kind \in Phases THEN PhaseValid(j, place)
        ELSE NonPhaseValid(PhaseUpTo(j, place - 1), j[place])
    BY DEF ValidRecordSequence
  <2>3. CASE j[place].kind \notin Phases
    BY <2>1, <2>2, <2>3
  <2>4. CASE j[place].kind \in Phases
    <3>1. PhaseEvidence(j, place)
      BY <2>2, <2>4 DEF PhaseValid
    <3>2. PhaseEvidence(long, place)
      BY <1>4, <1>5, <1>6, <2>1, <3>1 DEF PhaseEvidence
    <3> QED
      BY <2>1, <2>2, <3>2 DEF PhaseValid
  <2> QED
    BY <2>3, <2>4
<1>8. NonPhaseValid(PhaseUpTo(long, Len(long) - 1), long[Len(long)])
  BY <1>1, PrefixKept DEF LatestPhase
<1> QED
  BY <1>1, <1>7, <1>8 DEF ValidRecordSequence

(* What it takes for a phase record to be accepted.                        *)
LEMMA PhaseAccepted ==
  ASSUME NEW j \in Seq(JournalRecord), NEW rec \in JournalRecord,
         rec.kind \in Phases, ValidRecordSequence(Append(j, rec))
  PROVE  \/ /\ LatestPhase(j) = "NONE" /\ Len(j) = 0
            /\ rec.kind \in {"PREPARING", "RECOVERY_REQUIRED"}
         \/ LatestPhase(j) \in Predecessors(rec.kind)
<1> DEFINE long == Append(j, rec)
<1>1. /\ Len(long) = Len(j) + 1 /\ Len(j) \in Nat /\ long[Len(j) + 1] = rec
  OBVIOUS
<1>2. PhaseValid(long, Len(j) + 1)
  BY <1>1 DEF ValidRecordSequence
<1>3. PhaseUpTo(long, Len(j)) = LatestPhase(j)
  BY <1>1, PrefixKept DEF LatestPhase
<1> QED
  BY <1>1, <1>2, <1>3 DEF PhaseValid

-----------------------------------------------------------------------------
(* One leaf.                                                               *)

(* A leaf is never torn under its own name or its quarantine, and a file   *)
(* that is published under its name is complete.                           *)
Whole(l) == l.name # "partial" /\ l.quar # "partial"
Ready(l, point, des) ==
    /\ point \in {"create", "write", "publish"} => des # "absent"
    /\ point = "publish" => l.temp[des] = des

(* The files of the plan: none, the original or the new one.               *)
Planned == {"absent", "old", "new"}

LeafOf(name, quar, temp) == [name |-> name, quar |-> quar, temp |-> temp]

LEMMA LeafParts ==
  ASSUME NEW l \in Leaf
  PROVE  /\ l = LeafOf(l.name, l.quar, l.temp)
         /\ l.name \in Contents /\ l.quar \in Contents
         /\ l.temp \in [{"old", "new"} -> Contents]
         /\ \A v : [l EXCEPT !.name = v] = LeafOf(v, l.quar, l.temp)
         /\ \A v : [l EXCEPT !.quar = v] = LeafOf(l.name, v, l.temp)
         /\ \A d, v : [l EXCEPT !.temp[d] = v]
                        = LeafOf(l.name, l.quar, [l.temp EXCEPT ![d] = v])
  BY DEF Leaf, LeafOf

LEMMA LeafFields ==
  \A name, quar, temp :
    /\ LeafOf(name, quar, temp).name = name
    /\ LeafOf(name, quar, temp).quar = quar
    /\ LeafOf(name, quar, temp).temp = temp
    /\ name \in Contents /\ quar \in Contents
         /\ temp \in [{"old", "new"} -> Contents] =>
           LeafOf(name, quar, temp) \in Leaf
  BY DEF Leaf, LeafOf

LEMMA OutcomeParts ==
  \A l, point : Outcome(l, point).leaf = l /\ Outcome(l, point).at = point
  BY DEF Outcome

(* What one system call of a leaf effect keeps: the leaf stays whole, and  *)
(* only os.unlink can take away content that is not the plan's.            *)
Keeps(l, point, des, o) ==
    /\ o.leaf \in Leaf /\ o.at \in EffectSteps \cup LeafEnds
    /\ Whole(o.leaf) /\ Ready(o.leaf, o.at, des)
    /\ l.name = "user" /\ o.leaf.name # "user" => point = "unlink"

LEMMA LeafStepKeeps ==
  ASSUME NEW l \in Leaf, NEW point \in EffectSteps, NEW exp \in Planned,
         NEW des \in Planned, NEW sym,
         Whole(l), Ready(l, point, des),
         NEW o, o = LeafStep(l, point, exp, des, sym)
  PROVE  Keeps(l, point, des, o)
<1>a. /\ l = LeafOf(l.name, l.quar, l.temp)
      /\ l.name \in Contents /\ l.quar \in Contents
      /\ l.temp \in [{"old", "new"} -> Contents]
  BY LeafParts
<1>b. \A v : [l EXCEPT !.name = v] = LeafOf(v, l.quar, l.temp)
  BY LeafParts
<1>c. \A v : [l EXCEPT !.quar = v] = LeafOf(l.name, v, l.temp)
  BY LeafParts
<1>d. \A d, v : [l EXCEPT !.temp[d] = v]
                  = LeafOf(l.name, l.quar, [l.temp EXCEPT ![d] = v])
  BY LeafParts
<1>e. ASSUME NEW name \in Contents \ {"partial"},
             NEW quar \in Contents \ {"partial"},
             NEW temp \in [{"old", "new"} -> Contents],
             NEW next \in EffectSteps \cup LeafEnds,
             next \in {"create", "write", "publish"} => des # "absent",
             next = "publish" => temp[des] = des,
             l.name = "user" /\ name # "user" => point = "unlink",
             o = Outcome(LeafOf(name, quar, temp), next)
      PROVE  Keeps(l, point, des, o)
  <2>1. o.leaf = LeafOf(name, quar, temp) /\ o.at = next
    BY <1>e, OutcomeParts
  <2>2. /\ o.leaf \in Leaf /\ o.leaf.name = name /\ o.leaf.quar = quar
        /\ o.leaf.temp = temp
    BY <2>1, LeafFields
  <2> QED
    BY <1>e, <2>1, <2>2 DEF Keeps, Whole, Ready
<1>f. /\ l.name \in Contents \ {"partial"} /\ l.quar \in Contents \ {"partial"}
      /\ des \in Contents \ {"partial"}
  BY <1>a DEF Whole, Planned, Contents
<1>g. \A d : \A v \in Contents :
         /\ [l.temp EXCEPT ![d] = v] \in [{"old", "new"} -> Contents]
         /\ d \in {"old", "new"} => [l.temp EXCEPT ![d] = v][d] = v
  BY <1>a
<1>h. /\ "absent" \in Contents \ {"partial"} /\ "partial" \in Contents
      /\ des # "absent" => des \in {"old", "new"}
  BY DEF Contents, Planned
<1>1. CASE point = "link"
  <2>1. CASE l.name # "absent" /\ l.quar = "absent"
    <3>1. o = Outcome(LeafOf(l.name, l.name, l.temp), "verify")
      BY <1>1, <2>1, <1>a, <1>b, <1>c, <1>d DEF LeafStep, Link
    <3> QED
      BY <1>1, <2>1, <3>1, <1>a, <1>e, <1>f, <1>g, <1>h
  <2>2. CASE ~(l.name # "absent" /\ l.quar = "absent")
    <3>1. o = Outcome(LeafOf(l.name, l.quar, l.temp), "uncertain")
      BY <1>1, <2>2, <1>a, <1>b, <1>c, <1>d DEF LeafStep, Link
    <3> QED
      BY <1>1, <2>2, <3>1, <1>a, <1>e, <1>f, <1>g, <1>h DEF Ready, EffectSteps
  <2> QED
    BY <2>1, <2>2
<1>2. CASE point = "verify"
  <2>1. CASE l.quar = exp
    <3>1. o = Outcome(LeafOf(l.name, l.quar, l.temp), "unlink")
      BY <1>2, <2>1, <1>a, <1>b, <1>c, <1>d DEF LeafStep, Verify
    <3> QED
      BY <1>2, <2>1, <3>1, <1>a, <1>e, <1>f, <1>g, <1>h
         DEF Ready, EffectSteps
  <2>2. CASE l.quar # exp
    <3>1. o = Outcome(LeafOf(l.name, "absent", l.temp), "uncertain")
      BY <1>2, <2>2, <1>a, <1>b, <1>c, <1>d DEF LeafStep, Verify
    <3> QED
      BY <1>2, <2>2, <3>1, <1>a, <1>e, <1>f, <1>g
  <2> QED
    BY <2>1, <2>2
<1>3. CASE point = "unlink"
  <2>1. CASE l.name = "absent"
    <3>1. o = Outcome(LeafOf(l.name, l.quar, l.temp), "uncertain")
      BY <1>3, <2>1, <1>a, <1>b, <1>c, <1>d DEF LeafStep, Unlink
    <3> QED
      BY <1>3, <2>1, <3>1, <1>a, <1>e, <1>f, <1>g
  <2>2. CASE l.name # "absent" /\ des = "absent"
    <3>1. o = Outcome(LeafOf("absent", l.quar, l.temp), "unquar")
      BY <1>3, <2>2, <1>a, <1>b, <1>c, <1>d DEF LeafStep, Unlink
    <3> QED
      BY <1>3, <2>2, <3>1, <1>a, <1>e, <1>f, <1>g
  <2>3. CASE l.name # "absent" /\ des # "absent"
    <3>1. o = Outcome(LeafOf("absent", l.quar, l.temp), "create")
      BY <1>3, <2>3, <1>a, <1>b, <1>c, <1>d DEF LeafStep, Unlink
    <3> QED
      BY <1>3, <2>3, <3>1, <1>a, <1>e, <1>f, <1>g
  <2> QED
    BY <2>1, <2>2, <2>3
<1>4. CASE point = "create"
  <2>1. CASE sym /\ l.name = "absent"
    <3>1. o = Outcome(LeafOf(des, l.quar, l.temp), "unquar")
      BY <1>4, <2>1, <1>a, <1>b, <1>c, <1>d DEF LeafStep, Create
    <3> QED
      BY <1>4, <2>1, <3>1, <1>a, <1>e, <1>f, <1>g
  <2>2. CASE sym /\ l.name # "absent"
    <3>1. o = Outcome(LeafOf(l.name, l.quar, l.temp), "restore")
      BY <1>4, <2>2, <1>a, <1>b, <1>c, <1>d DEF LeafStep, Create
    <3> QED
      BY <1>4, <2>2, <3>1, <1>a, <1>e, <1>f, <1>g
  <2>3. CASE ~sym /\ l.temp[des] = "absent"
    <3>1. o = Outcome(LeafOf(l.name, l.quar, [l.temp EXCEPT ![des] = "partial"]), "write")
      BY <1>4, <2>3, <1>a, <1>b, <1>c, <1>d DEF LeafStep, Create
    <3> QED
      BY <1>4, <2>3, <3>1, <1>a, <1>e, <1>f, <1>g, <1>h DEF Ready, EffectSteps
  <2>4. CASE ~sym /\ l.temp[des] # "absent"
    <3>1. o = Outcome(LeafOf(l.name, l.quar, l.temp), "restore")
      BY <1>4, <2>4, <1>a, <1>b, <1>c, <1>d DEF LeafStep, Create
    <3> QED
      BY <1>4, <2>4, <3>1, <1>a, <1>e, <1>f, <1>g
  <2> QED
    BY <2>1, <2>2, <2>3, <2>4
<1>5. CASE point = "write"
  <2>1. o = Outcome(LeafOf(l.name, l.quar, [l.temp EXCEPT ![des] = des]), "publish")
    BY <1>5, <1>a, <1>b, <1>c, <1>d DEF LeafStep, Write
  <2> QED
    BY <1>5, <2>1, <1>a, <1>e, <1>f, <1>g
<1>6. CASE point = "publish"
  <2>1. CASE l.name = "absent"
    <3>1. o = Outcome(LeafOf(l.temp[des], l.quar, l.temp), "untemp")
      BY <1>6, <2>1, <1>a, <1>b, <1>c, <1>d DEF LeafStep, Publish
    <3> QED
      BY <1>6, <2>1, <3>1, <1>a, <1>e, <1>f, <1>g
  <2>2. CASE l.name # "absent"
    <3>1. o = Outcome(LeafOf(l.name, l.quar, l.temp), "discard")
      BY <1>6, <2>2, <1>a, <1>b, <1>c, <1>d DEF LeafStep, Publish
    <3> QED
      BY <1>6, <2>2, <3>1, <1>a, <1>e, <1>f, <1>g
  <2> QED
    BY <2>1, <2>2
<1>7. CASE point = "untemp"
  <2>1. o = Outcome(LeafOf(l.name, l.quar, [l.temp EXCEPT ![des] = "absent"]), "unquar")
    BY <1>7, <1>a, <1>b, <1>c, <1>d DEF LeafStep, Untemp
  <2> QED
    BY <1>7, <2>1, <1>a, <1>e, <1>f, <1>g
<1>8. CASE point = "unquar"
  <2>1. o = Outcome(LeafOf(l.name, "absent", l.temp), "done")
    BY <1>8, <1>a, <1>b, <1>c, <1>d DEF LeafStep, Unquar
  <2> QED
    BY <1>8, <2>1, <1>a, <1>e, <1>f, <1>g
<1>9. CASE point = "discard"
  <2>1. o = Outcome(LeafOf(l.name, l.quar, [l.temp EXCEPT ![des] = "absent"]), "restore")
    BY <1>9, <1>a, <1>b, <1>c, <1>d DEF LeafStep, Discard
  <2> QED
    BY <1>9, <2>1, <1>a, <1>e, <1>f, <1>g
<1>10. CASE point = "restore"
  <2>1. CASE exp # "absent" /\ l.quar # "absent" /\ l.name = "absent"
    <3>1. o = Outcome(LeafOf(l.quar, l.quar, l.temp), "requar")
      BY <1>10, <2>1, <1>a, <1>b, <1>c, <1>d DEF LeafStep, Restore
    <3> QED
      BY <1>10, <2>1, <3>1, <1>a, <1>e, <1>f, <1>g, <1>h
  <2>2. CASE ~(exp # "absent" /\ l.quar # "absent" /\ l.name = "absent")
    <3>1. o = Outcome(LeafOf(l.name, l.quar, l.temp), "uncertain")
      BY <1>10, <2>2, <1>a, <1>b, <1>c, <1>d DEF LeafStep, Restore
    <3> QED
      BY <1>10, <2>2, <3>1, <1>a, <1>e, <1>f, <1>g
  <2> QED
    BY <2>1, <2>2
<1>11. CASE point = "requar"
  <2>1. o = Outcome(LeafOf(l.name, "absent", l.temp), "failed")
    BY <1>11, <1>a, <1>b, <1>c, <1>d DEF LeafStep, Requar
  <2> QED
    BY <1>11, <2>1, <1>a, <1>e, <1>f, <1>g
<1> QED
  BY <1>1, <1>2, <1>3, <1>4, <1>5, <1>6, <1>7, <1>8, <1>9, <1>10, <1>11
     DEF EffectSteps

LEMMA LeafFaultKeeps ==
  ASSUME NEW l \in Leaf, NEW point \in EffectSteps, NEW exp \in Planned,
         NEW des \in Planned, NEW sym,
         Whole(l), Ready(l, point, des),
         NEW o \in LeafFault(l, point, exp, des, sym)
  PROVE  Keeps(l, point, des, o)
<1>1. Handler(point) \in {"uncertain", "discard", "restore"}
  BY DEF Handler, EffectSteps
<1>2. CASE o = Outcome(l, Handler(point))
  BY <1>1, <1>2, OutcomeParts DEF Keeps, Whole, Ready, EffectSteps, LeafEnds
<1>3. CASE o = Outcome(LeafStep(l, point, exp, des, sym).leaf, Handler(point))
  <2>1. Keeps(l, point, des, LeafStep(l, point, exp, des, sym))
    BY LeafStepKeeps
  <2>2. o.leaf = LeafStep(l, point, exp, des, sym).leaf /\ o.at = Handler(point)
    BY <1>3, OutcomeParts
  <2> QED
    BY <1>1, <2>1, <2>2 DEF Keeps, Whole, Ready, EffectSteps, LeafEnds
<1> QED
  BY <1>2, <1>3 DEF LeafFault

(* What one step of the artifact resolution keeps: it brings no content    *)
(* into the directory that the transaction did not leave there.            *)
Resolves(l, o) ==
    /\ o.leaf \in Leaf /\ o.at \in ResolveSteps \cup {"done", "uncertain"}
    /\ Whole(o.leaf)
    /\ l.name = "user" => o.leaf.name = "user"
    /\ o.leaf.quar # "absent" => l.quar # "absent"
    /\ o.leaf.temp # NoTemp => l.temp # NoTemp
    /\ o.leaf.name # l.name => l.quar # "absent"

LEMMA ResolveStepKeeps ==
  ASSUME NEW l \in Leaf, NEW point \in ResolveSteps, NEW disp, NEW des,
         Whole(l), NEW o,
         o = ResolveStep(l, point, disp, des) \/ o = Outcome(l, "done")
  PROVE  Resolves(l, o)
<1>a. /\ l = LeafOf(l.name, l.quar, l.temp)
      /\ l.name \in Contents /\ l.quar \in Contents
      /\ l.temp \in [{"old", "new"} -> Contents]
  BY LeafParts
<1>b. \A v : [l EXCEPT !.name = v] = LeafOf(v, l.quar, l.temp)
  BY LeafParts
<1>c. \A v : [l EXCEPT !.quar = v] = LeafOf(l.name, v, l.temp)
  BY LeafParts
<1>d. \A d, v : [l EXCEPT !.temp[d] = v]
                  = LeafOf(l.name, l.quar, [l.temp EXCEPT ![d] = v])
  BY LeafParts
<1>e. ASSUME NEW name \in {l.name, l.quar}, NEW quar \in {"absent", l.quar},
             NEW temp \in [{"old", "new"} -> Contents],
             NEW next \in ResolveSteps \cup {"done", "uncertain"},
             name # l.name => l.quar # "absent" /\ l.name = "absent",
             temp # NoTemp => l.temp # NoTemp,
             o = Outcome(LeafOf(name, quar, temp), next)
      PROVE  Resolves(l, o)
  <2>1. o.leaf = LeafOf(name, quar, temp) /\ o.at = next
    BY <1>e, OutcomeParts
  <2>2. name \in Contents /\ quar \in Contents
    BY <1>a DEF Contents
  <2>3. /\ o.leaf \in Leaf /\ o.leaf.name = name /\ o.leaf.quar = quar
        /\ o.leaf.temp = temp
    BY <2>1, <2>2, LeafFields
  <2> QED
    BY <1>e, <2>1, <2>3 DEF Resolves, Whole
<1>f. \A d : [l.temp EXCEPT ![d] = "absent"] \in [{"old", "new"} -> Contents]
             /\ (l.temp = NoTemp => [l.temp EXCEPT ![d] = "absent"] = NoTemp)
  BY <1>a DEF Contents, NoTemp
<1>g. o = Outcome(l, "done") \/ o = Outcome(l, "rquar")
         \/ o = Outcome(l, "uncertain") => Resolves(l, o)
  BY <1>a, <1>e DEF ResolveSteps
<1>1. CASE point = "rtemp" /\ o = ResolveStep(l, point, disp, des)
  <2>1. \/ o = Outcome(l, "rquar") \/ o = Outcome(l, "uncertain")
        \/ o = Outcome(LeafOf(l.name, l.quar, [l.temp EXCEPT ![des] = "absent"]),
                       "rquar")
    BY <1>1, <1>d DEF ResolveStep, ResolveTemp
  <2> QED
    BY <2>1, <1>e, <1>f
<1>2. CASE point = "rquar" /\ o = ResolveStep(l, point, disp, des)
  <2>1. \/ o = Outcome(l, "done") \/ o = Outcome(l, "uncertain")
        \/ o = Outcome(LeafOf(l.name, "absent", l.temp), "done")
        \/ /\ l.quar # "absent" /\ l.name = "absent"
           /\ o = Outcome(LeafOf(l.quar, l.quar, l.temp), "rfree")
    BY <1>2, <1>b, <1>c DEF ResolveStep, ResolveQuar
  <2>2. CASE o = Outcome(LeafOf(l.name, "absent", l.temp), "done")
    BY <2>2, <1>a, <1>e
  <2>3. CASE /\ l.quar # "absent" /\ l.name = "absent"
             /\ o = Outcome(LeafOf(l.quar, l.quar, l.temp), "rfree")
    BY <2>3, <1>a, <1>e DEF ResolveSteps
  <2> QED
    BY <2>1, <2>2, <2>3, <1>g
<1>3. CASE point = "rfree" /\ o = ResolveStep(l, point, disp, des)
  <2>1. o = Outcome(LeafOf(l.name, "absent", l.temp), "done")
    BY <1>3, <1>c DEF ResolveStep
  <2> QED
    BY <2>1, <1>a, <1>e
<1> QED
  BY <1>1, <1>2, <1>3, <1>g DEF ResolveSteps

-----------------------------------------------------------------------------
(* The invariant, and what the steps come to.                              *)

(* The steps before the target is touched, those of the publish loop       *)
(* between two entries and on one entry, and those of a rollback.          *)
EarlyPcs == {"idle", "mkplan", "header", "backup", "backup2", "ready",
             "applying"}
LoopPcs  == {"check", "final", "recheck", "reindex", "applied", "rolling"}
EntryPcs == {"mkdir", "open", "cleanup", "parent", "verify"}
UndoPcs  == {"rbcheck", "restore", "rmdir", "rbverify", "rbfinal", "rbdone"}
Publishing == pc \in EntryPcs \/ (pc = "leaf" /\ phase = "APPLYING")
Restoring  == \/ pc \in {"restore", "rmdir", "rbverify"}
              \/ pc = "leaf" /\ phase = "ROLLING_BACK"

(* Where the coordinator is tells the phase of the log.                    *)
PhaseAtPc ==
    /\ pc \in {"idle", "mkplan", "header"} => phase = "NONE" /\ cur = 1
    /\ pc \in {"backup", "backup2", "ready"} => phase = "PREPARING"
    /\ pc = "applying" => phase = "BACKUP_READY"
    /\ pc \in LoopPcs \cup EntryPcs => phase = "APPLYING"
    /\ pc \in UndoPcs => phase = "ROLLING_BACK"
    /\ pc \in {"leaf", "resolve", "classify"} =>
          phase \in {"APPLYING", "ROLLING_BACK"}
    /\ pc = "leaf" => at \in EffectSteps \cup LeafEnds
    /\ pc = "cleanup" => at \in {"failed", "uncertain"}
    /\ pc = "resolve" => at \in ResolveSteps

(* What is in the log when: the pending record of an entry before its      *)
(* effect, the backups before the first of them.                           *)
LogOrder ==
    \A e \in Entries :
       /\ Logged(journal, "apply effect pending", e) => blobs = Entries
       /\ Logged(journal, "apply effect verified", e) =>
             Logged(journal, "apply effect pending", e)
       /\ Logged(journal, "rollback effect pending", e) =>
             Logged(journal, "apply effect pending", e)
       /\ Logged(journal, "rollback effect verified", e) =>
             Logged(journal, "rollback effect pending", e)
       /\ e \in affected => Logged(journal, "apply effect pending", e)
LogAtPc ==
    /\ pc \in {"backup", "backup2"} => 1..(cur - 1) \subseteq blobs
    /\ pc \in {"ready", "applying", "check"} => blobs = Entries
    /\ Publishing => Logged(journal, "apply effect pending", cur)
    /\ Restoring => /\ cur \in affected
                    /\ Logged(journal, "rollback effect pending", cur)
    /\ pc = "mkdir" => cur = Owner
LogAhead == LogOrder /\ LogAtPc

(* No leaf is torn, and what is about to be published is complete.         *)
Untorn ==
    /\ \A e \in Entries : Whole(disk[e])
    /\ pc = "leaf" => Ready(disk[cur], at, Desired(cur))

Spared(e) == disk[e].name # "new" /\ (edits = 0 => disk[e].name = Original(e))
Bystanders ==
    /\ pc \in EarlyPcs => \A e \in Entries : Spared(e)
    /\ pc \in LoopPcs \cup UndoPcs \/ Restoring =>
          \A e \in Entries \ affected : Spared(e)
    /\ Publishing => \A e \in Entries \ (affected \cup {cur}) : Spared(e)

Outcomes ==
    /\ pc = "rbdone" \/ phase = "ROLLED_BACK" =>
          \A e \in Entries : Spared(e) /\ NoArtifacts(e)
    /\ pc \in {"recheck", "reindex", "applied"} \/ phase = "APPLIED" =>
          (edits = 0 => AllNew)

CoreInv ==
    /\ TypeOK
    /\ ValidRecordSequence(journal) /\ PhasesInOrder(journal)
    /\ PhaseAtPc /\ LogAhead /\ WriteAhead /\ Untorn /\ Bystanders /\ Outcomes

-----------------------------------------------------------------------------
LEMMA EntriesAreNumbers ==
    /\ N \in Nat /\ N >= 1 /\ 1 \in Entries /\ N \in Entries
    /\ Entries \subseteq Nat /\ Entries \subseteq 0..N /\ 0 \notin Entries
  BY JournalAssumption DEF Entries

LEMMA OriginalAndNew ==
  ASSUME NEW e \in Entries
  PROVE  /\ Original(e) \in {"absent", "old"} /\ New(e) \in {"absent", "new"}
         /\ Original(e) # New(e)
         /\ Displaced(e) \in Planned /\ Desired(e) \in Planned
  BY TransactionAssumption DEF Original, New, Displaced, Desired, Planned

LEMMA LastOfEntries ==
  ASSUME NEW S \in SUBSET Entries, S # {}
  PROVE  Last(S) \in S
<1>1. \E e \in S : \A f \in S : f <= e
  BY Greatest, EntriesAreNumbers DEF Entries
<1> QED
  BY <1>1 DEF Last

(* The journal is one record longer.                                       *)
Noted(kind, e) ==
    /\ journal' = Append(journal, Rec(kind, e)) /\ journal' # journal
    /\ journal' \in Seq(JournalRecord)
    /\ \A k, f : Logged(journal', k, f)
                   <=> Logged(journal, k, f) \/ (k = kind /\ f = e)
    /\ LatestPhase(journal') = IF kind \in Phases THEN kind
                               ELSE LatestPhase(journal)
    /\ Accepts(journal, Rec(kind, e))

(* A step that records something goes on, or gives up.                     *)
Counted == torn' \in BOOLEAN /\ faults' \in 0..MaxFaults
Wrote(kind, e, next) ==
    /\ \/ Noted(kind, e) /\ pc' \in {next, "require"}
       \/ journal' = journal /\ pc' = "require"
    /\ Counted
Moved(next) == journal' = journal /\ pc' = next /\ Counted

LEMMA RecordTyped ==
  ASSUME NEW kind \in Kinds, NEW e \in 0..N
  PROVE  /\ Rec(kind, e) \in JournalRecord
         /\ \A k, f : Rec(k, f) = Rec(kind, e) <=> k = kind /\ f = e
         /\ Rec(kind, e).kind = kind
  BY DEF Rec, JournalRecord

LEMMA Recorded ==
  ASSUME TypeOK, NEW kind \in Kinds, NEW e \in 0..N,
         NEW next, NEW onError, RecordOr(Rec(kind, e), next, onError)
  PROVE  /\ \/ Noted(kind, e) /\ pc' \in {next, onError}
            \/ journal' = journal /\ pc' = onError
         /\ Counted
<1>0. journal \in Seq(JournalRecord)
  BY DEF TypeOK
<1>3. Counted
  <2>1. /\ MaxFaults \in Nat /\ faults \in 0..MaxFaults /\ torn \in BOOLEAN
    BY TransactionAssumption DEF TypeOK
  <2>2. faults' = faults \/ (faults < MaxFaults /\ faults' = faults + 1)
    BY DEF RecordOr, Fault
  <2>3. torn' \in BOOLEAN
    BY <2>1 DEF RecordOr
  <2> QED
    BY <2>1, <2>2, <2>3 DEF Counted
<1>1. Rec(kind, e) \in JournalRecord
  BY RecordTyped
<1>2. CASE /\ journal' = Append(journal, Rec(kind, e))
           /\ Accepts(journal, Rec(kind, e)) /\ pc' \in {next, onError}
  <2>1. \A k, f : Logged(journal', k, f)
                    <=> Logged(journal, k, f) \/ (k = kind /\ f = e)
    BY <1>1, <1>2, LoggedAfter, RecordTyped, <1>0
  <2>2. LatestPhase(journal') = IF kind \in Phases THEN kind
                                ELSE LatestPhase(journal)
    BY <1>1, <1>2, PhaseOfAppend, RecordTyped, <1>0
  <2>3. journal' # journal
    <3>1. Len(Append(journal, Rec(kind, e))) = Len(journal) + 1
          /\ Len(journal) \in Nat
      BY <1>0, <1>1
    <3> QED
      BY <1>2, <3>1
  <2>4. journal' \in Seq(JournalRecord)
    <3>1. Append(journal, Rec(kind, e)) \in Seq(JournalRecord)
      BY <1>0, <1>1
    <3> QED
      BY <1>2, <3>1
  <2>5. Noted(kind, e)
    BY <1>2, <2>1, <2>2, <2>3, <2>4 DEF Noted
  <2> QED
    BY <1>2, <1>3, <2>5
<1> QED
  BY <1>2, <1>3 DEF RecordOr

(* What the steps that write a record come to.                             *)
LEMMA RecordingSteps ==
  ASSUME CoreInv
  PROVE  /\ WriteHeader =>
            Wrote("PREPARING", 0, "backup")
         /\ BackupPending =>
            Wrote("backup pending", cur, "backup2")
         /\ BackupVerified =>
            Wrote("backup verified", cur, IF cur = N THEN "ready" ELSE "backup")
         /\ BackupReady =>
            Wrote("BACKUP_READY", 0, "applying")
         /\ StartApplying =>
            Wrote("APPLYING", 0, "check")
         /\ ApplyPending =>
            \/ Wrote("apply effect pending", cur,
                     IF cur = Owner THEN "mkdir" ELSE "open")
            \/ Moved("rolling")
         /\ CreatedParent =>
            Wrote("created parent", cur, "verify")
         /\ ApplyVerified =>
            \/ Wrote("apply effect verified", cur,
                     IF cur = N THEN "final" ELSE "check")
            \/ Moved("rolling")
         /\ RecheckChangeset =>
            Wrote("change set digest rechecked", 0, "reindex")
         /\ RecheckIndex =>
            Wrote("index digest rechecked", 0, "applied")
         /\ RecordApplied =>
            Wrote("APPLIED", 0, "returned")
         /\ StartRollback =>
            Wrote("ROLLING_BACK", 0, "rbcheck")
         /\ RollbackPending =>
            \/ Wrote("rollback effect pending", cur', "restore")
            \/ Wrote("rollback effect pending", cur', "rbverify")
            \/ /\ Logged(journal, "rollback effect pending", cur')
               /\ \/ Wrote("rollback effect verified", cur', "rbcheck")
                  \/ Moved("restore")
            \/ Moved("rbcheck")
         /\ RollbackVerified =>
            Wrote("rollback effect verified", cur, "rbcheck")
         /\ RollbackFinal =>
            Wrote("rollback index digest rechecked", 0, "rbdone")
         /\ RecordRolledBack =>
            Wrote("ROLLED_BACK", 0, "returned")
         /\ RequireRecovery =>
            \/ Noted("RECOVERY_REQUIRED", 0) /\ Counted /\ pc' = "returned"
            \/ Moved("returned")
<1>1. /\ TypeOK /\ cur \in Entries /\ todo \subseteq Entries
      /\ torn \in BOOLEAN /\ faults \in 0..MaxFaults
  BY DEF CoreInv, TypeOK
<1>2. /\ cur \in 0..N /\ 0 \in 0..N
      /\ \A S \in SUBSET Entries : S # {} => Last(S) \in 0..N
  <2>1. cur \in 0..N /\ 0 \in 0..N /\ Entries \subseteq 0..N
    BY <1>1, EntriesAreNumbers
  <2>2. ASSUME NEW S \in SUBSET Entries, S # {} PROVE Last(S) \in 0..N
    BY <2>1, <2>2, LastOfEntries
  <2> QED
    BY <2>1, <2>2
<1>3. ASSUME NEW kind \in Kinds, NEW e \in 0..N, NEW next,
             RecordOr(Rec(kind, e), next, "require")
      PROVE  Wrote(kind, e, next)
  BY <1>1, <1>3, Recorded DEF Wrote
<1>4. Kinds = {"PREPARING", "BACKUP_READY", "APPLYING", "APPLIED", "ROLLING_BACK",
               "ROLLED_BACK", "RECOVERY_REQUIRED", "backup pending",
               "backup verified", "apply effect pending",
               "apply effect verified", "change set digest rechecked",
               "index digest rechecked", "rollback effect pending",
               "rollback effect verified", "created parent",
               "rollback index digest rechecked"}
  BY DEF Kinds, Phases, BackupKinds, ApplyKinds, VerifyKinds, RollbackKinds
<1>5. \A next : GoTo(next) => Moved(next)
  BY <1>1 DEF GoTo, Moved, Counted
<1>6. GiveUp => \A kind, e, next : Wrote(kind, e, next)
  BY <1>1 DEF GiveUp, GoTo, Wrote, Counted
<1>7. ASSUME WriteHeader
      PROVE  Wrote("PREPARING", 0, "backup")
  BY <1>7, <1>2, <1>3, <1>4, <1>5, <1>6 DEF WriteHeader, Record, PhaseRec
<1>8. ASSUME BackupPending
      PROVE  Wrote("backup pending", cur, "backup2")
  BY <1>8, <1>2, <1>3, <1>4, <1>5, <1>6 DEF BackupPending, Record
<1>9. ASSUME BackupVerified
      PROVE  Wrote("backup verified", cur, IF cur = N THEN "ready" ELSE "backup")
  BY <1>9, <1>2, <1>3, <1>4, <1>5, <1>6 DEF BackupVerified, Record
<1>10. ASSUME BackupReady
      PROVE  Wrote("BACKUP_READY", 0, "applying")
  BY <1>10, <1>2, <1>3, <1>4, <1>5, <1>6 DEF BackupReady, Record, PhaseRec
<1>11. ASSUME StartApplying
      PROVE  Wrote("APPLYING", 0, "check")
  BY <1>11, <1>2, <1>3, <1>4, <1>5, <1>6 DEF StartApplying, Record, PhaseRec
<1>12. ASSUME ApplyPending
      PROVE  \/ Wrote("apply effect pending", cur,
                IF cur = Owner THEN "mkdir" ELSE "open")
       \/ Moved("rolling")
  BY <1>12, <1>2, <1>3, <1>4, <1>5, <1>6 DEF ApplyPending, Record
<1>13. ASSUME CreatedParent
      PROVE  Wrote("created parent", cur, "verify")
  BY <1>13, <1>2, <1>3, <1>4, <1>5, <1>6 DEF CreatedParent, Record
<1>14. ASSUME ApplyVerified
      PROVE  \/ Wrote("apply effect verified", cur,
                IF cur = N THEN "final" ELSE "check")
       \/ Moved("rolling")
  BY <1>14, <1>2, <1>3, <1>4, <1>5, <1>6 DEF ApplyVerified, Record
<1>15. ASSUME RecheckChangeset
      PROVE  Wrote("change set digest rechecked", 0, "reindex")
  BY <1>15, <1>2, <1>3, <1>4, <1>5, <1>6 DEF RecheckChangeset, Record
<1>16. ASSUME RecheckIndex
      PROVE  Wrote("index digest rechecked", 0, "applied")
  BY <1>16, <1>2, <1>3, <1>4, <1>5, <1>6 DEF RecheckIndex, Record
<1>17. ASSUME RecordApplied
      PROVE  Wrote("APPLIED", 0, "returned")
  BY <1>17, <1>2, <1>3, <1>4, <1>5, <1>6 DEF RecordApplied, Record, PhaseRec
<1>18. ASSUME StartRollback
      PROVE  Wrote("ROLLING_BACK", 0, "rbcheck")
  BY <1>18, <1>2, <1>3, <1>4, <1>5, <1>6 DEF StartRollback, Record, PhaseRec
<1>19. ASSUME RollbackPending
      PROVE  \/ Wrote("rollback effect pending", cur', "restore")
       \/ Wrote("rollback effect pending", cur', "rbverify")
       \/ /\ Logged(journal, "rollback effect pending", cur')
          /\ \/ Wrote("rollback effect verified", cur', "rbcheck")
             \/ Moved("restore")
       \/ Moved("rbcheck")
  <2>1. cur' = Last(todo) /\ cur' \in 0..N
    BY <1>1, <1>2, <1>19 DEF RollbackPending
  <2>2. CASE ApplyRollsBack(Last(todo))
    BY <1>3, <1>4, <1>5, <1>6, <2>1, <2>2 DEF ApplyRollsBack, Record
  <2>3. CASE RecoverRollsBack(Last(todo))
    BY <1>3, <1>4, <1>5, <1>6, <2>1, <2>3 DEF RecoverRollsBack, Record
  <2> QED
    BY <1>19, <2>2, <2>3 DEF RollbackPending
<1>20. ASSUME RollbackVerified
      PROVE  Wrote("rollback effect verified", cur, "rbcheck")
  BY <1>20, <1>2, <1>3, <1>4, <1>5, <1>6 DEF RollbackVerified, Record
<1>21. ASSUME RollbackFinal
      PROVE  Wrote("rollback index digest rechecked", 0, "rbdone")
  BY <1>21, <1>2, <1>3, <1>4, <1>5, <1>6 DEF RollbackFinal, Record
<1>22. ASSUME RecordRolledBack
      PROVE  Wrote("ROLLED_BACK", 0, "returned")
  BY <1>22, <1>2, <1>3, <1>4, <1>5, <1>6 DEF RecordRolledBack, Record, PhaseRec
<1>23. ASSUME RequireRecovery
      PROVE  \/ Noted("RECOVERY_REQUIRED", 0) /\ Counted /\ pc' = "returned"
       \/ Moved("returned")
  <2>1. CASE RecordOr(PhaseRec("RECOVERY_REQUIRED"), "returned", "returned")
    BY <1>1, <1>2, <1>4, <2>1, Recorded DEF PhaseRec, Moved
  <2> QED
    BY <1>23, <1>5, <2>1 DEF RequireRecovery
<1> QED
  BY <1>7, <1>8, <1>9, <1>10, <1>11, <1>12, <1>13, <1>14, <1>15, <1>16, <1>17,
     <1>18, <1>19, <1>20, <1>21, <1>22, <1>23

(* A system call of a leaf effect, whether it succeeds or raises.          *)
LEMMA LeafMoves ==
  ASSUME CoreInv, RunLeaf \/ LeafFails
  PROVE  /\ pc = "leaf" /\ disk' \in [Entries -> Leaf]
         /\ at' \in EffectSteps \cup LeafEnds
         /\ \A e \in Entries \ {cur} : disk'[e] = disk[e]
         /\ Whole(disk'[cur]) /\ Ready(disk'[cur], at', Desired(cur))
         /\ disk[cur].name = "user" /\ disk'[cur].name # "user" => at = "unlink"
         /\ Counted
         /\ UNCHANGED <<plan, journal, torn, blobs, dir, changed, pc, who, cur,
                        made, affected, todo, result, crashes, edits>>
<1>1. /\ TypeOK /\ cur \in Entries /\ disk \in [Entries -> Leaf]
      /\ disk[cur] \in Leaf
  BY DEF CoreInv, TypeOK
<1>2. pc = "leaf" /\ at \in EffectSteps
  BY DEF CoreInv, PhaseAtPc, RunLeaf, LeafFails
<1>3. Whole(disk[cur]) /\ Ready(disk[cur], at, Desired(cur))
  BY <1>1, <1>2 DEF CoreInv, Untorn
<1>4. Displaced(cur) \in Planned /\ Desired(cur) \in Planned
  BY <1>1, OriginalAndNew
<1>5. PICK o : /\ Keeps(disk[cur], at, Desired(cur), o)
               /\ disk' = [disk EXCEPT ![cur] = o.leaf] /\ at' = o.at
  <2>1. CASE RunLeaf
    <3> DEFINE s == LeafStep(disk[cur], at, Displaced(cur), Desired(cur),
                             cur \in Symlinks)
    <3>1. disk' = [disk EXCEPT ![cur] = s.leaf] /\ at' = s.at
      BY <2>1 DEF RunLeaf
    <3>2. Keeps(disk[cur], at, Desired(cur), s)
      BY <1>1, <1>2, <1>3, <1>4, LeafStepKeeps
    <3> QED
      BY <3>1, <3>2
  <2>2. CASE LeafFails
    <3>1. PICK s \in LeafFault(disk[cur], at, Displaced(cur), Desired(cur),
                               cur \in Symlinks) :
             disk' = [disk EXCEPT ![cur] = s.leaf] /\ at' = s.at
      BY <2>2 DEF LeafFails
    <3>2. Keeps(disk[cur], at, Desired(cur), s)
      BY <1>1, <1>2, <1>3, <1>4, LeafFaultKeeps
    <3> QED
      BY <3>1, <3>2
  <2> QED
    BY <2>1, <2>2
<1>6. /\ disk' \in [Entries -> Leaf] /\ disk'[cur] = o.leaf
      /\ \A e \in Entries \ {cur} : disk'[e] = disk[e]
  BY <1>1, <1>5 DEF Keeps
<1>7. UNCHANGED <<plan, journal, torn, blobs, dir, changed, pc, who, cur,
                  made, affected, todo, result, crashes, edits>>
  BY DEF RunLeaf, LeafFails, GoTo, Rest
<1>8. Counted
  <2>1. MaxFaults \in Nat /\ faults \in 0..MaxFaults /\ torn \in BOOLEAN
    BY <1>1, TransactionAssumption DEF TypeOK
  <2>2. faults' = faults \/ (faults < MaxFaults /\ faults' = faults + 1)
    BY DEF RunLeaf, LeafFails, GoTo, Fault
  <2> QED
    BY <1>7, <2>1, <2>2 DEF Counted
<1> QED
  BY <1>2, <1>5, <1>6, <1>7, <1>8 DEF Keeps

(* A step of the artifact resolution.                                      *)
LEMMA ResolveMoves ==
  ASSUME CoreInv, Resolve
  PROVE  /\ pc = "resolve" /\ pc' \in {"resolve", "classify", "require"}
         /\ disk' \in [Entries -> Leaf] /\ cur' \in Entries
         /\ at' \in ResolveSteps
         /\ \A e \in Entries \ {cur} : disk'[e] = disk[e]
         /\ Resolves(disk[cur], [leaf |-> disk'[cur], at |-> "done"])
         /\ UNCHANGED <<plan, journal, torn, blobs, dir, changed, who, made,
                        affected, todo, result, crashes, faults, edits>>
<1>1. /\ TypeOK /\ cur \in Entries /\ disk \in [Entries -> Leaf]
      /\ disk[cur] \in Leaf /\ pc = "resolve" /\ at \in ResolveSteps
  BY DEF CoreInv, TypeOK, PhaseAtPc, Resolve
<1>2. Whole(disk[cur])
  BY <1>1 DEF CoreInv, Untorn
<1> DEFINE absent == cur \in Nested /\ dir = "absent"
           o == IF absent THEN Outcome(disk[cur], "done")
                ELSE ResolveStep(disk[cur], at, Displaced(cur), Desired(cur))
<1>3. Resolves(disk[cur], o)
  BY <1>1, <1>2, ResolveStepKeeps
<1>4. /\ disk' = [disk EXCEPT ![cur] = o.leaf]
      /\ CASE o.at = "uncertain" -> pc' = "require" /\ UNCHANGED <<cur, at>>
           [] o.at = "done" /\ cur < N ->
                cur' = cur + 1 /\ at' = "rtemp" /\ UNCHANGED pc
           [] o.at = "done" /\ cur = N ->
                pc' = "classify" /\ UNCHANGED <<cur, at>>
           [] o.at \in ResolveSteps -> at' = o.at /\ UNCHANGED <<pc, cur>>
  BY DEF Resolve
<1>5. UNCHANGED <<plan, journal, torn, blobs, dir, changed, who, made,
                  affected, todo, result, crashes, faults, edits>>
  BY DEF Resolve, Rest
<1> HIDE DEF o
<1>6. o.leaf \in Leaf /\ o.at \in ResolveSteps \cup {"done", "uncertain"}
  BY <1>3 DEF Resolves
<1>7. /\ disk' \in [Entries -> Leaf] /\ disk'[cur] = o.leaf
      /\ \A e \in Entries \ {cur} : disk'[e] = disk[e]
  BY <1>1, <1>4, <1>6
<1>8. /\ pc' \in {"resolve", "classify", "require"} /\ at' \in ResolveSteps
      /\ cur' \in Entries
  <2>1. CASE o.at = "uncertain"
    BY <1>1, <1>4, <2>1
  <2>2. CASE o.at = "done" /\ cur < N
    <3>0. cur # N
      BY <1>1, <2>2, EntriesAreNumbers
    <3>1. cur' = cur + 1 /\ at' = "rtemp" /\ pc' = pc
      BY <1>4, <2>2, <3>0 DEF ResolveSteps
    <3>2. cur + 1 \in Entries
      BY <1>1, <2>2, EntriesAreNumbers DEF Entries
    <3> QED
      BY <1>1, <3>1, <3>2 DEF ResolveSteps
  <2>3. CASE o.at = "done" /\ cur = N
    <3>1. ~(cur < N)
      BY <2>3, EntriesAreNumbers
    <3>2. pc' = "classify" /\ cur' = cur /\ at' = at
      BY <1>4, <2>3 DEF ResolveSteps
    <3> QED
      BY <1>1, <3>2
  <2>4. CASE o.at \in ResolveSteps
    BY <1>1, <1>4, <2>4 DEF ResolveSteps
  <2>5. cur <= N /\ cur \in Nat /\ N \in Nat
    BY <1>1, EntriesAreNumbers DEF Entries
  <2> QED
    BY <1>6, <2>1, <2>2, <2>3, <2>4, <2>5
<1>9. Resolves(disk[cur], [leaf |-> disk'[cur], at |-> "done"])
  BY <1>3, <1>7 DEF Resolves
<1> QED
  BY <1>1, <1>5, <1>7, <1>8, <1>9

(* An edit of the user: under the name of an entry, and of nothing else.   *)
LEMMA EditMoves ==
  ASSUME CoreInv, NEW e \in Entries, UserEdits(e)
  PROVE  /\ disk' \in [Entries -> Leaf]
         /\ \A f \in Entries \ {e} : disk'[f] = disk[f]
         /\ disk'[e].name \in {"user", "absent"}
         /\ disk'[e].quar = disk[e].quar /\ disk'[e].temp = disk[e].temp
         /\ edits' \in 0..MaxEdits /\ edits' # 0 /\ edits' # edits
         /\ UNCHANGED <<plan, journal, torn, blobs, dir, changed, pc, who, cur,
                        at, made, affected, todo, result, crashes, faults>>
<1>1. /\ disk \in [Entries -> Leaf] /\ disk[e] \in Leaf
      /\ edits \in 0..MaxEdits /\ MaxEdits \in Nat
  BY TransactionAssumption DEF CoreInv, TypeOK
<1>2. PICK content \in {"user", "absent"} :
         disk' = [disk EXCEPT ![e].name = content]
  BY DEF UserEdits
<1>3. disk' = [disk EXCEPT ![e] = [disk[e] EXCEPT !.name = content]]
  BY <1>2
<1>4. [disk[e] EXCEPT !.name = content]
         = LeafOf(content, disk[e].quar, disk[e].temp)
  BY <1>1, LeafParts
<1>5. disk[e].quar \in Contents /\ disk[e].temp \in [{"old", "new"} -> Contents]
      /\ content \in Contents
  BY <1>1, LeafParts DEF Contents
<1>6. LeafOf(content, disk[e].quar, disk[e].temp) \in Leaf
  BY <1>5, LeafFields
<1>7. /\ disk' \in [Entries -> Leaf]
      /\ \A f \in Entries \ {e} : disk'[f] = disk[f]
      /\ disk'[e] = LeafOf(content, disk[e].quar, disk[e].temp)
  BY <1>1, <1>3, <1>4, <1>6
<1>8. edits' \in 0..MaxEdits /\ edits' # 0 /\ edits' # edits
  BY <1>1 DEF UserEdits, Edit
<1>9. UNCHANGED <<plan, journal, torn, blobs, dir, changed, pc, who, cur,
                  at, made, affected, todo, result, crashes, faults>>
  BY DEF UserEdits, Edit, loop
<1> QED
  BY <1>2, <1>7, <1>8, <1>9

-----------------------------------------------------------------------------
(* Every step keeps the types.                                             *)

(* Every step keeps the types of the transaction's state.                  *)
LEMMA TypesStep ==
  ASSUME CoreInv, [Next]_vars
  PROVE  TypeOK'
<1>a. TypeOK /\ cur \in Entries /\ todo \subseteq affected
      /\ affected \subseteq Entries /\ disk \in [Entries -> Leaf]
  BY DEF CoreInv, TypeOK
<1>b. MaxCrashes \in Nat /\ MaxFaults \in Nat /\ MaxEdits \in Nat
  BY TransactionAssumption
<1>c. 1 \in Entries /\ (cur # N => cur + 1 \in Entries)
  BY <1>a, EntriesAreNumbers DEF Entries
<1>d. \A S \in SUBSET Entries : S # {} => Last(S) \in Entries
  BY LastOfEntries
<1>e. /\ LeafEnds = {"done", "failed", "uncertain"}
      /\ ResolveSteps = {"rtemp", "rquar", "rfree"}
      /\ EffectSteps = {"link", "verify", "unlink", "create", "write",
                        "publish", "untemp", "unquar", "discard", "restore",
                        "requar"}
  BY DEF LeafEnds, ResolveSteps, EffectSteps
<1>f. \A l, exp : LeafStart(l, exp) \in {"link", "create", "uncertain"}
  BY DEF LeafStart
<1>1. ASSUME Begin PROVE TypeOK'
  BY <1>1, <1>a, <1>b, <1>c, <1>d, <1>e, <1>f
     DEF Begin, GoTo, loop, TypeOK, Pcs
<1>2. ASSUME WritePlan PROVE TypeOK'
  BY <1>2, <1>a, <1>b, <1>c, <1>d, <1>e, <1>f
     DEF WritePlan, GoTo, Rest, loop, TypeOK, Pcs
<1>3. ASSUME WriteHeader PROVE TypeOK'
  <2>1. Wrote("PREPARING", 0, "backup")
    BY <1>3, RecordingSteps
  <2>2. journal' \in Seq(JournalRecord) /\ Counted /\ pc' \in Pcs
    BY <1>a, <2>1 DEF Wrote, Moved, Noted, TypeOK, Pcs
  <2> QED
    BY <1>3, <1>a, <1>c, <2>2 DEF WriteHeader, TypeOK, Counted, Rest, loop
<1>4. ASSUME BackupPending PROVE TypeOK'
  <2>1. Wrote("backup pending", cur, "backup2")
    BY <1>4, RecordingSteps
  <2>2. journal' \in Seq(JournalRecord) /\ Counted /\ pc' \in Pcs
    BY <1>a, <2>1 DEF Wrote, Moved, Noted, TypeOK, Pcs
  <2> QED
    BY <1>4, <1>a, <1>c, <2>2 DEF BackupPending, TypeOK, Counted, Rest, loop
<1>5. ASSUME BackupVerified PROVE TypeOK'
  <2>1. Wrote("backup verified", cur, IF cur = N THEN "ready" ELSE "backup")
    BY <1>5, RecordingSteps
  <2>2. journal' \in Seq(JournalRecord) /\ Counted /\ pc' \in Pcs
    BY <1>a, <2>1 DEF Wrote, Moved, Noted, TypeOK, Pcs
  <2> QED
    BY <1>5, <1>a, <1>c, <2>2, <1>c DEF BackupVerified, TypeOK, Counted, Rest
<1>6. ASSUME BackupReady PROVE TypeOK'
  <2>1. Wrote("BACKUP_READY", 0, "applying")
    BY <1>6, RecordingSteps
  <2>2. journal' \in Seq(JournalRecord) /\ Counted /\ pc' \in Pcs
    BY <1>a, <2>1 DEF Wrote, Moved, Noted, TypeOK, Pcs
  <2> QED
    BY <1>6, <1>a, <1>c, <2>2 DEF BackupReady, TypeOK, Counted, Rest, loop
<1>7. ASSUME StartApplying PROVE TypeOK'
  <2>1. Wrote("APPLYING", 0, "check")
    BY <1>7, RecordingSteps
  <2>2. journal' \in Seq(JournalRecord) /\ Counted /\ pc' \in Pcs
    BY <1>a, <2>1 DEF Wrote, Moved, Noted, TypeOK, Pcs
  <2> QED
    BY <1>7, <1>a, <1>c, <2>2 DEF StartApplying, TypeOK, Counted, Rest, loop
<1>8. ASSUME ApplyPending PROVE TypeOK'
  <2>1. \/ Wrote("apply effect pending", cur,
                IF cur = Owner THEN "mkdir" ELSE "open")
       \/ Moved("rolling")
    BY <1>8, RecordingSteps
  <2>2. journal' \in Seq(JournalRecord) /\ Counted /\ pc' \in Pcs
    BY <1>a, <2>1 DEF Wrote, Moved, Noted, TypeOK, Pcs
  <2> QED
    BY <1>8, <1>a, <1>c, <2>2 DEF ApplyPending, TypeOK, Counted, Rest
<1>9. ASSUME MakeParent PROVE TypeOK'
  BY <1>9, <1>a, <1>b, <1>c, <1>d, <1>e, <1>f
     DEF MakeParent, GoTo, Rest, TypeOK, Pcs
<1>10. ASSUME OpenLeaf PROVE TypeOK'
  BY <1>10, <1>a, <1>b, <1>c, <1>d, <1>e, <1>f
     DEF OpenLeaf, GoTo, Rest, TypeOK, Pcs
<1>11. ASSUME RunLeaf PROVE TypeOK'
  <2>1. RunLeaf \/ LeafFails
    BY <1>11
  <2>2. /\ disk' \in [Entries -> Leaf] /\ at' \in EffectSteps \cup LeafEnds
        /\ Counted
        /\ UNCHANGED <<plan, journal, torn, blobs, dir, changed, pc, who, cur,
                       made, affected, todo, result, crashes, edits>>
    BY <2>1, LeafMoves
  <2> QED
    BY <1>a, <2>2 DEF TypeOK, Counted
<1>12. ASSUME LeafReturns PROVE TypeOK'
  BY <1>12, <1>a, <1>b, <1>c, <1>d, <1>e, <1>f
     DEF LeafReturns, GoTo, Rest, loop, TypeOK, Pcs
<1>13. ASSUME Cleanup PROVE TypeOK'
  <2>1. dir' \in {dir, "absent"}
    BY <1>13 DEF Cleanup, TryRmdir
  <2>2. faults' \in 0..MaxFaults
    BY <1>13, <1>a, <1>b DEF Cleanup, TryRmdir, Fault, TypeOK
  <2>3. dir' \in {"absent", "ours", "populated", "foreign"}
    BY <1>a, <2>1 DEF TypeOK
  <2>4. affected' \subseteq Entries /\ todo' = affected' /\ pc' \in Pcs
    BY <1>13, <1>a DEF Cleanup, Pcs
  <2> QED
    BY <1>13, <1>a, <2>2, <2>3, <2>4 DEF Cleanup, TypeOK, Rest, loop
<1>14. ASSUME CreatedParent PROVE TypeOK'
  <2>1. Wrote("created parent", cur, "verify")
    BY <1>14, RecordingSteps
  <2>2. journal' \in Seq(JournalRecord) /\ Counted /\ pc' \in Pcs
    BY <1>a, <2>1 DEF Wrote, Moved, Noted, TypeOK, Pcs
  <2> QED
    BY <1>14, <1>a, <1>c, <2>2 DEF CreatedParent, TypeOK, Counted, Rest
<1>15. ASSUME ApplyVerified PROVE TypeOK'
  <2>1. \/ Wrote("apply effect verified", cur,
                IF cur = N THEN "final" ELSE "check")
       \/ Moved("rolling")
    BY <1>15, RecordingSteps
  <2>2. journal' \in Seq(JournalRecord) /\ Counted /\ pc' \in Pcs
    BY <1>a, <2>1 DEF Wrote, Moved, Noted, TypeOK, Pcs
  <2> QED
    BY <1>15, <1>a, <1>c, <2>2, <1>c DEF ApplyVerified, TypeOK, Counted, Rest
<1>16. ASSUME FinalVerification PROVE TypeOK'
  BY <1>16, <1>a, <1>b, <1>c, <1>d, <1>e, <1>f
     DEF FinalVerification, GoTo, Rest, loop, TypeOK, Pcs
<1>17. ASSUME RecheckChangeset PROVE TypeOK'
  <2>1. Wrote("change set digest rechecked", 0, "reindex")
    BY <1>17, RecordingSteps
  <2>2. journal' \in Seq(JournalRecord) /\ Counted /\ pc' \in Pcs
    BY <1>a, <2>1 DEF Wrote, Moved, Noted, TypeOK, Pcs
  <2> QED
    BY <1>17, <1>a, <1>c, <2>2
       DEF RecheckChangeset, TypeOK, Counted, Rest, loop
<1>18. ASSUME RecheckIndex PROVE TypeOK'
  <2>1. Wrote("index digest rechecked", 0, "applied")
    BY <1>18, RecordingSteps
  <2>2. journal' \in Seq(JournalRecord) /\ Counted /\ pc' \in Pcs
    BY <1>a, <2>1 DEF Wrote, Moved, Noted, TypeOK, Pcs
  <2> QED
    BY <1>18, <1>a, <1>c, <2>2 DEF RecheckIndex, TypeOK, Counted, Rest, loop
<1>19. ASSUME RecordApplied PROVE TypeOK'
  <2>1. Wrote("APPLIED", 0, "returned")
    BY <1>19, RecordingSteps
  <2>2. journal' \in Seq(JournalRecord) /\ Counted /\ pc' \in Pcs
    BY <1>a, <2>1 DEF Wrote, Moved, Noted, TypeOK, Pcs
  <2> QED
    BY <1>19, <1>a, <1>c, <2>2 DEF RecordApplied, TypeOK, Counted, Rest, loop
<1>20. ASSUME StartRollback PROVE TypeOK'
  <2>1. Wrote("ROLLING_BACK", 0, "rbcheck")
    BY <1>20, RecordingSteps
  <2>2. journal' \in Seq(JournalRecord) /\ Counted /\ pc' \in Pcs
    BY <1>a, <2>1 DEF Wrote, Moved, Noted, TypeOK, Pcs
  <2> QED
    BY <1>20, <1>a, <1>c, <2>2 DEF StartRollback, TypeOK, Counted, Rest, loop
<1>21. ASSUME RollbackDone PROVE TypeOK'
  BY <1>21, <1>a, <1>b, <1>c, <1>d, <1>e, <1>f
     DEF RollbackDone, GoTo, Rest, loop, TypeOK, Pcs
<1>22. ASSUME RollbackPending PROVE TypeOK'
  <2>1. \/ Wrote("rollback effect pending", cur', "restore")
       \/ Wrote("rollback effect pending", cur', "rbverify")
       \/ /\ Logged(journal, "rollback effect pending", cur')
          /\ \/ Wrote("rollback effect verified", cur', "rbcheck")
             \/ Moved("restore")
       \/ Moved("rbcheck")
    BY <1>22, RecordingSteps
  <2>2. journal' \in Seq(JournalRecord) /\ Counted /\ pc' \in Pcs
    BY <1>a, <2>1 DEF Wrote, Moved, Noted, TypeOK, Pcs
  <2>3. cur' \in Entries /\ todo' \subseteq todo
    BY <1>22, <1>a, <1>d DEF RollbackPending, ApplyRollsBack, RecoverRollsBack
  <2> QED
    BY <1>22, <1>a, <1>c, <2>2, <2>3 DEF RollbackPending, TypeOK, Counted, Rest
<1>23. ASSUME RestoreEntry PROVE TypeOK'
  BY <1>23, <1>a, <1>b, <1>c, <1>d, <1>e, <1>f
     DEF RestoreEntry, GoTo, Rest, TypeOK, Pcs
<1>24. ASSUME RemoveParent PROVE TypeOK'
  <2>1. dir' \in {dir, "absent"}
    BY <1>24 DEF RemoveParent, TryRmdir
  <2>2. faults' \in 0..MaxFaults
    BY <1>24, <1>a, <1>b DEF RemoveParent, TryRmdir, Fault, TypeOK
  <2>3. dir' \in {"absent", "ours", "populated", "foreign"}
    BY <1>a, <2>1 DEF TypeOK
  <2> QED
    BY <1>24, <1>a, <2>2, <2>3 DEF RemoveParent, TypeOK, Rest, loop, Pcs
<1>25. ASSUME RollbackVerified PROVE TypeOK'
  <2>1. Wrote("rollback effect verified", cur, "rbcheck")
    BY <1>25, RecordingSteps
  <2>2. journal' \in Seq(JournalRecord) /\ Counted /\ pc' \in Pcs
    BY <1>a, <2>1 DEF Wrote, Moved, Noted, TypeOK, Pcs
  <2> QED
    BY <1>25, <1>a, <1>c, <2>2 DEF RollbackVerified, TypeOK, Counted, Rest
<1>26. ASSUME RollbackFinal PROVE TypeOK'
  <2>1. Wrote("rollback index digest rechecked", 0, "rbdone")
    BY <1>26, RecordingSteps
  <2>2. journal' \in Seq(JournalRecord) /\ Counted /\ pc' \in Pcs
    BY <1>a, <2>1 DEF Wrote, Moved, Noted, TypeOK, Pcs
  <2> QED
    BY <1>26, <1>a, <1>c, <2>2 DEF RollbackFinal, TypeOK, Counted, Rest, loop
<1>27. ASSUME RecordRolledBack PROVE TypeOK'
  <2>1. Wrote("ROLLED_BACK", 0, "returned")
    BY <1>27, RecordingSteps
  <2>2. journal' \in Seq(JournalRecord) /\ Counted /\ pc' \in Pcs
    BY <1>a, <2>1 DEF Wrote, Moved, Noted, TypeOK, Pcs
  <2> QED
    BY <1>27, <1>a, <1>c, <2>2
       DEF RecordRolledBack, TypeOK, Counted, Rest, loop
<1>28. ASSUME RequireRecovery PROVE TypeOK'
  <2>1. \/ Noted("RECOVERY_REQUIRED", 0) /\ Counted /\ pc' = "returned"
       \/ Moved("returned")
    BY <1>28, RecordingSteps
  <2>2. journal' \in Seq(JournalRecord) /\ Counted /\ pc' \in Pcs
    BY <1>a, <2>1 DEF Wrote, Moved, Noted, TypeOK, Pcs
  <2> QED
    BY <1>28, <1>a, <1>c, <2>2 DEF RequireRecovery, TypeOK, Counted, Rest, loop
<1>29. ASSUME Resolve PROVE TypeOK'
  <2>1. /\ disk' \in [Entries -> Leaf] /\ at' \in ResolveSteps
        /\ cur' \in Entries /\ pc' \in {"resolve", "classify", "require"}
        /\ UNCHANGED <<plan, journal, torn, blobs, dir, changed, who, made,
                       affected, todo, result, crashes, faults, edits>>
    BY <1>29, ResolveMoves
  <2> QED
    BY <1>a, <2>1 DEF TypeOK, Pcs
<1>30. ASSUME Classify PROVE TypeOK'
  BY <1>30, <1>a, <1>b, <1>c, <1>d, <1>e, <1>f DEF Classify, Rest, TypeOK, Pcs
<1>31. ASSUME Recover PROVE TypeOK'
  BY <1>31, <1>a, <1>b, <1>c, <1>d, <1>e, <1>f
     DEF Recover, Report, Rest, TypeOK, Pcs
<1>32. ASSUME Replay PROVE TypeOK'
  BY <1>32, <1>a, <1>b, <1>c, <1>d, <1>e, <1>f
     DEF Replay, Report, Rest, loop, TypeOK, Pcs
<1>33. ASSUME Crash PROVE TypeOK'
  <2>1. torn' \in BOOLEAN
    BY <1>33, <1>a DEF Crash, TypeOK
  <2>2. crashes' \in 0..MaxCrashes
    BY <1>33, <1>a, <1>b DEF Crash, TypeOK
  <2> QED
    BY <1>33, <1>a, <1>c, <2>1, <2>2 DEF Crash, TypeOK, Pcs
<1>34. ASSUME LeafFails PROVE TypeOK'
  <2>1. RunLeaf \/ LeafFails
    BY <1>34
  <2>2. /\ disk' \in [Entries -> Leaf] /\ at' \in EffectSteps \cup LeafEnds
        /\ Counted
        /\ UNCHANGED <<plan, journal, torn, blobs, dir, changed, pc, who, cur,
                       made, affected, todo, result, crashes, edits>>
    BY <2>1, LeafMoves
  <2> QED
    BY <1>a, <2>2 DEF TypeOK, Counted
<1>35. ASSUME ResolveFails PROVE TypeOK'
  BY <1>35, <1>a, <1>b, <1>c, <1>d, <1>e, <1>f
     DEF ResolveFails, Fault, Rest, loop, TypeOK, Pcs
<1>36. ASSUME MakeParentFails PROVE TypeOK'
  BY <1>36, <1>a, <1>b, <1>c, <1>d, <1>e, <1>f
     DEF MakeParentFails, Fault, Rest, TypeOK, Pcs
<1>37. ASSUME ReadFails PROVE TypeOK'
  BY <1>37, <1>a, <1>b, <1>c, <1>d, <1>e, <1>f
     DEF ReadFails, Fault, Rest, TypeOK, Pcs
<1>38. ASSUME VerifyReadFails PROVE TypeOK'
  BY <1>38, <1>a, <1>b, <1>c, <1>d, <1>e, <1>f
     DEF VerifyReadFails, Fault, Rest, TypeOK, Pcs
<1>39. ASSUME NEW e \in Entries, UserEdits(e) PROVE TypeOK'
  <2>1. /\ disk' \in [Entries -> Leaf] /\ edits' \in 0..MaxEdits
        /\ UNCHANGED <<plan, journal, torn, blobs, dir, changed, pc, who, cur,
                       at, made, affected, todo, result, crashes, faults>>
    BY <1>39, EditMoves
  <2> QED
    BY <1>a, <2>1 DEF TypeOK
<1>40. ASSUME UserFillsDir PROVE TypeOK'
  BY <1>40, <1>a, <1>b, <1>c, <1>d, <1>e, <1>f
     DEF UserFillsDir, Edit, loop, TypeOK
<1>41. ASSUME NEW what \in {"index", "workspace"}, UserChanges(what)
       PROVE  TypeOK'
  BY <1>41, <1>a, <1>b, <1>c, <1>d, <1>e, <1>f
     DEF UserChanges, Edit, loop, TypeOK
<1>42. ASSUME UNCHANGED vars PROVE TypeOK'
  BY <1>42, <1>a, <1>b, <1>c, <1>d, <1>e, <1>f
     DEF vars, disks, budget, loop, TypeOK
<1> QED
  BY <1>1, <1>2, <1>3, <1>4, <1>5, <1>6, <1>7, <1>8, <1>9, <1>10, <1>11, <1>12,
     <1>13, <1>14, <1>15, <1>16, <1>17, <1>18, <1>19, <1>20, <1>21, <1>22,
     <1>23, <1>24, <1>25, <1>26, <1>27, <1>28, <1>29, <1>30, <1>31, <1>32,
     <1>33, <1>34, <1>35, <1>36, <1>37, <1>38, <1>39, <1>40, <1>41, <1>42
     DEF Next, ApplyStep, RollbackStep, Failure, User

-----------------------------------------------------------------------------
(* Every step keeps the journal valid.                                     *)

(* An accepted record keeps the log valid and its phases in order.  That   *)
(* a rollback starts from APPLYING alone is the coordinators' doing: the   *)
(* journal would take it after RECOVERY_REQUIRED too.                      *)
LEMMA LogStaysValid ==
  ASSUME NEW j \in Seq(JournalRecord), NEW rec \in JournalRecord,
         ValidRecordSequence(j), PhasesInOrder(j), Accepts(j, rec),
         rec.kind = "ROLLING_BACK" => LatestPhase(j) = "APPLYING"
  PROVE  ValidRecordSequence(Append(j, rec)) /\ PhasesInOrder(Append(j, rec))
<1> DEFINE long == Append(j, rec)
<1>1. /\ Len(long) = Len(j) + 1 /\ Len(j) \in Nat /\ long[Len(j) + 1] = rec
      /\ \A i \in 1..Len(j) : long[i] = j[i]
  OBVIOUS
<1>2. LatestPhase(long) = IF rec.kind \in Phases THEN rec.kind
                          ELSE LatestPhase(j)
  BY PhaseOfAppend
<1> HIDE DEF long
<1>3. ASSUME NEW phases, Went(j, phases), rec.kind \in Phases => rec.kind \in phases
      PROVE  Went(long, phases)
  <2> SUFFICES ASSUME NEW i \in 1..Len(long), long[i].kind \in Phases
               PROVE  long[i].kind \in phases
    BY DEF Went
  <2>1. CASE i \in 1..Len(j)
    BY <1>1, <1>3 DEF Went
  <2>2. CASE i = Len(j) + 1
    BY <1>1, <1>3, <2>2
  <2> QED
    BY <1>1, <2>1, <2>2
<1>4. CASE rec.kind \notin Phases
  <2>1. NonPhaseValid(LatestPhase(j), rec)
    BY <1>4 DEF Accepts
  <2>2. ValidRecordSequence(long)
    BY <1>4, <2>1, RecordKeepsLogValid DEF long
  <2>3. LatestPhase(j) # "NONE" /\ LatestPhase(long) = LatestPhase(j)
    BY <1>2, <1>4, <2>1 DEF NonPhaseValid
  <2>4. PhasesInOrder(long)
    BY <1>3, <1>4, <2>3 DEF PhasesInOrder
  <2> QED
    BY <2>2, <2>4 DEF long
<1>5. CASE rec.kind \in Phases
  <2>1. ValidRecordSequence(long)
    BY <1>5 DEF Accepts, long
  <2>2. \/ /\ LatestPhase(j) = "NONE" /\ Len(j) = 0
           /\ rec.kind \in {"PREPARING", "RECOVERY_REQUIRED"}
        \/ LatestPhase(j) \in Predecessors(rec.kind)
    BY <1>5, <2>1, PhaseAccepted DEF long
  <2>3. LatestPhase(long) = rec.kind
    BY <1>2, <1>5
  <2>4. Len(j) = 0 => \A phases : Went(j, phases)
    BY DEF Went
  <2>5. ASSUME rec.kind = "PREPARING" PROVE PhasesInOrder(long)
    BY <1>3, <2>2, <2>3, <2>4, <2>5 DEF PhasesInOrder, Predecessors
  <2>6. ASSUME rec.kind = "BACKUP_READY" PROVE PhasesInOrder(long)
    <3>1. Went(j, {"PREPARING"})
      BY <2>2, <2>6 DEF PhasesInOrder, Predecessors
    <3>2. Went(j, {"PREPARING", "BACKUP_READY"})
      BY <3>1 DEF Went
    <3> QED
      BY <1>3, <2>3, <2>6, <3>2 DEF PhasesInOrder
  <2>7. ASSUME rec.kind = "APPLYING" PROVE PhasesInOrder(long)
    <3>1. Went(j, {"PREPARING", "BACKUP_READY"})
      BY <2>2, <2>7 DEF PhasesInOrder, Predecessors
    <3>2. Went(j, {"PREPARING", "BACKUP_READY", "APPLYING"})
      BY <3>1 DEF Went
    <3> QED
      BY <1>3, <2>3, <2>7, <3>2 DEF PhasesInOrder
  <2>8. ASSUME rec.kind = "ROLLING_BACK" PROVE PhasesInOrder(long)
    <3>1. Went(j, {"PREPARING", "BACKUP_READY", "APPLYING"})
      BY <2>8 DEF PhasesInOrder
    <3>2. Went(j, {"PREPARING", "BACKUP_READY", "APPLYING", "ROLLING_BACK"})
      BY <3>1 DEF Went
    <3> QED
      BY <1>3, <2>3, <2>8, <3>2 DEF PhasesInOrder
  <2>9. ASSUME rec.kind \in {"APPLIED", "ROLLED_BACK", "RECOVERY_REQUIRED"}
        PROVE  PhasesInOrder(long)
    BY <2>3, <2>9 DEF PhasesInOrder
  <2>10. PhasesInOrder(long)
    BY <1>5, <2>5, <2>6, <2>7, <2>8, <2>9 DEF Phases
  <2> QED
    BY <2>1, <2>10 DEF long
<1> QED
  BY <1>4, <1>5

(* A step writes one record or none, and ROLLING_BACK only at one place.   *)
Continues ==
    \/ journal' = journal
    \/ \E kind \in Kinds, e \in 0..N :
          /\ Noted(kind, e)
          /\ kind = "ROLLING_BACK" => pc = "rolling"

(* Every step writes at most one record, and one the journal accepts.      *)
LEMMA RecordStep ==
  ASSUME CoreInv, [Next]_vars
  PROVE  Continues
<1>a. cur \in 0..N /\ 0 \in 0..N /\ cur \in Entries
  BY EntriesAreNumbers DEF CoreInv, TypeOK
<1>b. /\ {"PREPARING", "BACKUP_READY", "APPLYING", "APPLIED", "ROLLING_BACK",
          "ROLLED_BACK", "RECOVERY_REQUIRED", "backup pending",
          "backup verified", "apply effect pending", "apply effect verified",
          "change set digest rechecked", "index digest rechecked",
          "rollback effect pending", "rollback effect verified",
          "created parent", "rollback index digest rechecked"} \subseteq Kinds
  BY DEF Kinds, Phases, BackupKinds, ApplyKinds, VerifyKinds, RollbackKinds
<1>1. ASSUME Begin PROVE Continues
  BY <1>1 DEF Begin, GoTo, Continues
<1>2. ASSUME WritePlan PROVE Continues
  BY <1>2 DEF WritePlan, GoTo, Rest, Continues
<1>3. ASSUME WriteHeader PROVE Continues
  <2>1. Wrote("PREPARING", 0, "backup")
    BY <1>3, RecordingSteps
  <2> QED
    BY <1>3, <1>a, <1>b, <2>1 DEF Continues, Wrote
<1>4. ASSUME BackupPending PROVE Continues
  <2>1. Wrote("backup pending", cur, "backup2")
    BY <1>4, RecordingSteps
  <2> QED
    BY <1>4, <1>a, <1>b, <2>1 DEF Continues, Wrote
<1>5. ASSUME BackupVerified PROVE Continues
  <2>1. Wrote("backup verified", cur, IF cur = N THEN "ready" ELSE "backup")
    BY <1>5, RecordingSteps
  <2> QED
    BY <1>5, <1>a, <1>b, <2>1 DEF Continues, Wrote
<1>6. ASSUME BackupReady PROVE Continues
  <2>1. Wrote("BACKUP_READY", 0, "applying")
    BY <1>6, RecordingSteps
  <2> QED
    BY <1>6, <1>a, <1>b, <2>1 DEF Continues, Wrote
<1>7. ASSUME StartApplying PROVE Continues
  <2>1. Wrote("APPLYING", 0, "check")
    BY <1>7, RecordingSteps
  <2> QED
    BY <1>7, <1>a, <1>b, <2>1 DEF Continues, Wrote
<1>8. ASSUME ApplyPending PROVE Continues
  <2>1. \/ Wrote("apply effect pending", cur,
                IF cur = Owner THEN "mkdir" ELSE "open")
       \/ Moved("rolling")
    BY <1>8, RecordingSteps
  <2> QED
    BY <1>8, <1>a, <1>b, <2>1 DEF Continues, Wrote, Moved
<1>9. ASSUME MakeParent PROVE Continues
  BY <1>9 DEF MakeParent, GoTo, Continues
<1>10. ASSUME OpenLeaf PROVE Continues
  BY <1>10 DEF OpenLeaf, GoTo, Continues
<1>11. ASSUME RunLeaf PROVE Continues
  BY <1>11 DEF RunLeaf, GoTo, Continues
<1>12. ASSUME LeafReturns PROVE Continues
  BY <1>12 DEF LeafReturns, GoTo, Rest, Continues
<1>13. ASSUME Cleanup PROVE Continues
  BY <1>13 DEF Cleanup, Continues
<1>14. ASSUME CreatedParent PROVE Continues
  <2>1. Wrote("created parent", cur, "verify")
    BY <1>14, RecordingSteps
  <2> QED
    BY <1>14, <1>a, <1>b, <2>1 DEF Continues, Wrote
<1>15. ASSUME ApplyVerified PROVE Continues
  <2>1. \/ Wrote("apply effect verified", cur,
                IF cur = N THEN "final" ELSE "check")
       \/ Moved("rolling")
    BY <1>15, RecordingSteps
  <2> QED
    BY <1>15, <1>a, <1>b, <2>1 DEF Continues, Wrote, Moved
<1>16. ASSUME FinalVerification PROVE Continues
  BY <1>16 DEF FinalVerification, GoTo, Rest, Continues
<1>17. ASSUME RecheckChangeset PROVE Continues
  <2>1. Wrote("change set digest rechecked", 0, "reindex")
    BY <1>17, RecordingSteps
  <2> QED
    BY <1>17, <1>a, <1>b, <2>1 DEF Continues, Wrote
<1>18. ASSUME RecheckIndex PROVE Continues
  <2>1. Wrote("index digest rechecked", 0, "applied")
    BY <1>18, RecordingSteps
  <2> QED
    BY <1>18, <1>a, <1>b, <2>1 DEF Continues, Wrote
<1>19. ASSUME RecordApplied PROVE Continues
  <2>1. Wrote("APPLIED", 0, "returned")
    BY <1>19, RecordingSteps
  <2> QED
    BY <1>19, <1>a, <1>b, <2>1 DEF Continues, Wrote
<1>20. ASSUME StartRollback PROVE Continues
  <2>1. Wrote("ROLLING_BACK", 0, "rbcheck")
    BY <1>20, RecordingSteps
  <2> QED
    BY <1>20, <1>a, <1>b, <2>1 DEF Continues, Wrote, StartRollback
<1>21. ASSUME RollbackDone PROVE Continues
  BY <1>21 DEF RollbackDone, GoTo, Rest, Continues
<1>22. ASSUME RollbackPending PROVE Continues
  <2>1. \/ Wrote("rollback effect pending", cur', "restore")
       \/ Wrote("rollback effect pending", cur', "rbverify")
       \/ /\ Logged(journal, "rollback effect pending", cur')
          /\ \/ Wrote("rollback effect verified", cur', "rbcheck")
             \/ Moved("restore")
       \/ Moved("rbcheck")
    BY <1>22, RecordingSteps
  <2>2. cur' \in 0..N
    BY <1>22, LastOfEntries, EntriesAreNumbers
       DEF RollbackPending, CoreInv, TypeOK
  <2> QED
    BY <1>22, <1>a, <1>b, <2>1, <2>2 DEF Continues, Wrote, Moved
<1>23. ASSUME RestoreEntry PROVE Continues
  BY <1>23 DEF RestoreEntry, GoTo, Continues
<1>24. ASSUME RemoveParent PROVE Continues
  BY <1>24 DEF RemoveParent, TryRmdir, Rest, Continues
<1>25. ASSUME RollbackVerified PROVE Continues
  <2>1. Wrote("rollback effect verified", cur, "rbcheck")
    BY <1>25, RecordingSteps
  <2> QED
    BY <1>25, <1>a, <1>b, <2>1 DEF Continues, Wrote
<1>26. ASSUME RollbackFinal PROVE Continues
  <2>1. Wrote("rollback index digest rechecked", 0, "rbdone")
    BY <1>26, RecordingSteps
  <2> QED
    BY <1>26, <1>a, <1>b, <2>1 DEF Continues, Wrote
<1>27. ASSUME RecordRolledBack PROVE Continues
  <2>1. Wrote("ROLLED_BACK", 0, "returned")
    BY <1>27, RecordingSteps
  <2> QED
    BY <1>27, <1>a, <1>b, <2>1 DEF Continues, Wrote
<1>28. ASSUME RequireRecovery PROVE Continues
  <2>1. \/ Noted("RECOVERY_REQUIRED", 0) /\ Counted /\ pc' = "returned"
       \/ Moved("returned")
    BY <1>28, RecordingSteps
  <2> QED
    BY <1>28, <1>a, <1>b, <2>1 DEF Continues, Moved
<1>29. ASSUME Resolve PROVE Continues
  BY <1>29 DEF Resolve, Continues
<1>30. ASSUME Classify PROVE Continues
  BY <1>30 DEF Classify, Continues
<1>31. ASSUME Recover PROVE Continues
  BY <1>31 DEF Recover, Continues
<1>32. ASSUME Replay PROVE Continues
  BY <1>32 DEF Replay, Report, Rest, Continues
<1>33. ASSUME Crash PROVE Continues
  BY <1>33 DEF Crash, Continues
<1>34. ASSUME LeafFails PROVE Continues
  BY <1>34 DEF LeafFails, Continues
<1>35. ASSUME ResolveFails PROVE Continues
  BY <1>35 DEF ResolveFails, Fault, Rest, Continues
<1>36. ASSUME MakeParentFails PROVE Continues
  BY <1>36 DEF MakeParentFails, Continues
<1>37. ASSUME ReadFails PROVE Continues
  BY <1>37 DEF ReadFails, Continues
<1>38. ASSUME VerifyReadFails PROVE Continues
  BY <1>38 DEF VerifyReadFails, Continues
<1>39. ASSUME NEW e \in Entries, UserEdits(e) PROVE Continues
  BY <1>39 DEF UserEdits, Continues
<1>40. ASSUME UserFillsDir PROVE Continues
  BY <1>40 DEF UserFillsDir, Continues
<1>41. ASSUME NEW what \in {"index", "workspace"}, UserChanges(what)
       PROVE  Continues
  BY <1>41 DEF UserChanges, Continues
<1>42. ASSUME UNCHANGED vars PROVE Continues
  BY <1>42 DEF vars, disks, budget, Continues
<1> QED
  BY <1>1, <1>2, <1>3, <1>4, <1>5, <1>6, <1>7, <1>8, <1>9, <1>10, <1>11, <1>12,
     <1>13, <1>14, <1>15, <1>16, <1>17, <1>18, <1>19, <1>20, <1>21, <1>22,
     <1>23, <1>24, <1>25, <1>26, <1>27, <1>28, <1>29, <1>30, <1>31, <1>32,
     <1>33, <1>34, <1>35, <1>36, <1>37, <1>38, <1>39, <1>40, <1>41, <1>42
     DEF Next, ApplyStep, RollbackStep, Failure, User

LEMMA JournalStep ==
  ASSUME CoreInv, [Next]_vars
  PROVE  ValidRecordSequence(journal)' /\ PhasesInOrder(journal)'
<1>1. CASE journal' = journal
  BY <1>1 DEF CoreInv
<1>2. ASSUME NEW kind \in Kinds, NEW e \in 0..N, Noted(kind, e),
             kind = "ROLLING_BACK" => pc = "rolling"
      PROVE  ValidRecordSequence(journal') /\ PhasesInOrder(journal')
  <2>1. /\ journal \in Seq(JournalRecord) /\ ValidRecordSequence(journal)
        /\ PhasesInOrder(journal)
    BY DEF CoreInv, TypeOK
  <2>2. /\ Rec(kind, e) \in JournalRecord /\ Rec(kind, e).kind = kind
        /\ Accepts(journal, Rec(kind, e))
        /\ journal' = Append(journal, Rec(kind, e))
    BY <1>2, RecordTyped DEF Noted
  <2>3. kind = "ROLLING_BACK" => LatestPhase(journal) = "APPLYING"
    BY <1>2 DEF CoreInv, PhaseAtPc, LoopPcs, phase
  <2>4. /\ ValidRecordSequence(Append(journal, Rec(kind, e)))
        /\ PhasesInOrder(Append(journal, Rec(kind, e)))
    BY <2>1, <2>2, <2>3, LogStaysValid
  <2> QED
    BY <2>2, <2>4
<1> QED
  BY <1>1, <1>2, RecordStep DEF Continues

-----------------------------------------------------------------------------
(* Every step keeps the phase where the coordinator is.                    *)

(* Every step keeps the phase of the log and the program counter together. *)
LEMMA PhaseStep ==
  ASSUME CoreInv, [Next]_vars
  PROVE  PhaseAtPc'
<1>a. PhaseAtPc
  BY DEF CoreInv
<1>b. /\ LeafEnds = {"done", "failed", "uncertain"}
      /\ ResolveSteps = {"rtemp", "rquar", "rfree"}
      /\ EffectSteps = {"link", "verify", "unlink", "create", "write",
                        "publish", "untemp", "unquar", "discard", "restore",
                        "requar"}
  BY DEF LeafEnds, ResolveSteps, EffectSteps
<1>c. \A l, exp : LeafStart(l, exp) \in {"link", "create", "uncertain"}
  BY DEF LeafStart
<1>d. N \in Entries /\ 1 \in Entries /\ cur \in Entries
  BY EntriesAreNumbers DEF CoreInv, TypeOK
<1>1. ASSUME Begin PROVE PhaseAtPc'
  BY <1>1, <1>a, <1>b, <1>c
     DEF Begin, GoTo, loop, PhaseAtPc, phase, Phases, EntryPcs, LoopPcs,
         UndoPcs
<1>2. ASSUME WritePlan PROVE PhaseAtPc'
  BY <1>2, <1>a, <1>b, <1>c
     DEF WritePlan, GoTo, Rest, loop, PhaseAtPc, phase, Phases, EntryPcs,
         LoopPcs, UndoPcs
<1>3. ASSUME WriteHeader PROVE PhaseAtPc'
  <2>1. Wrote("PREPARING", 0, "backup")
    BY <1>3, RecordingSteps
  <2>2. CASE journal' = journal
    BY <1>3, <2>1, <2>2, <1>a, <1>b, <1>c
       DEF WriteHeader, Wrote, Moved, Noted, Rest, loop, PhaseAtPc, phase,
           Phases, EntryPcs, LoopPcs, UndoPcs
  <2>3. CASE journal' # journal
    BY <1>3, <2>1, <2>3, <1>a, <1>b, <1>c
       DEF WriteHeader, Wrote, Moved, Noted, Rest, loop, PhaseAtPc, phase,
           Phases, EntryPcs, LoopPcs, UndoPcs
  <2> QED
    BY <2>2, <2>3
<1>4. ASSUME BackupPending PROVE PhaseAtPc'
  <2>1. Wrote("backup pending", cur, "backup2")
    BY <1>4, RecordingSteps
  <2>2. CASE journal' = journal
    BY <1>4, <2>1, <2>2, <1>a, <1>b, <1>c
       DEF BackupPending, Wrote, Moved, Noted, Rest, loop, PhaseAtPc, phase,
           Phases, EntryPcs, LoopPcs, UndoPcs
  <2>3. CASE journal' # journal
    BY <1>4, <2>1, <2>3, <1>a, <1>b, <1>c
       DEF BackupPending, Wrote, Moved, Noted, Rest, loop, PhaseAtPc, phase,
           Phases, EntryPcs, LoopPcs, UndoPcs
  <2> QED
    BY <2>2, <2>3
<1>5. ASSUME BackupVerified PROVE PhaseAtPc'
  <2>1. Wrote("backup verified", cur, IF cur = N THEN "ready" ELSE "backup")
    BY <1>5, RecordingSteps
  <2>2. CASE journal' = journal
    BY <1>5, <2>1, <2>2, <1>a, <1>b, <1>c
       DEF BackupVerified, Wrote, Moved, Noted, GiveUp, GoTo, Rest, PhaseAtPc,
           phase, Phases, EntryPcs, LoopPcs, UndoPcs
  <2>3. CASE journal' # journal
    BY <1>5, <2>1, <2>3, <1>a, <1>b, <1>c
       DEF BackupVerified, Wrote, Moved, Noted, GiveUp, GoTo, Rest, PhaseAtPc,
           phase, Phases, EntryPcs, LoopPcs, UndoPcs
  <2> QED
    BY <2>2, <2>3
<1>6. ASSUME BackupReady PROVE PhaseAtPc'
  <2>1. Wrote("BACKUP_READY", 0, "applying")
    BY <1>6, RecordingSteps
  <2>2. CASE journal' = journal
    BY <1>6, <2>1, <2>2, <1>a, <1>b, <1>c
       DEF BackupReady, Wrote, Moved, Noted, Rest, loop, PhaseAtPc, phase,
           Phases, EntryPcs, LoopPcs, UndoPcs
  <2>3. CASE journal' # journal
    BY <1>6, <2>1, <2>3, <1>a, <1>b, <1>c
       DEF BackupReady, Wrote, Moved, Noted, Rest, loop, PhaseAtPc, phase,
           Phases, EntryPcs, LoopPcs, UndoPcs
  <2> QED
    BY <2>2, <2>3
<1>7. ASSUME StartApplying PROVE PhaseAtPc'
  <2>1. Wrote("APPLYING", 0, "check")
    BY <1>7, RecordingSteps
  <2>2. CASE journal' = journal
    BY <1>7, <2>1, <2>2, <1>a, <1>b, <1>c
       DEF StartApplying, Wrote, Moved, Noted, Rest, loop, PhaseAtPc, phase,
           Phases, EntryPcs, LoopPcs, UndoPcs
  <2>3. CASE journal' # journal
    BY <1>7, <2>1, <2>3, <1>a, <1>b, <1>c
       DEF StartApplying, Wrote, Moved, Noted, Rest, loop, PhaseAtPc, phase,
           Phases, EntryPcs, LoopPcs, UndoPcs
  <2> QED
    BY <2>2, <2>3
<1>8. ASSUME ApplyPending PROVE PhaseAtPc'
  <2>1. \/ Wrote("apply effect pending", cur,
                IF cur = Owner THEN "mkdir" ELSE "open")
       \/ Moved("rolling")
    BY <1>8, RecordingSteps
  <2>2. CASE journal' = journal
    BY <1>8, <2>1, <2>2, <1>a, <1>b, <1>c
       DEF ApplyPending, Wrote, Moved, Noted, GoTo, Rest, PhaseAtPc, phase,
           Phases, EntryPcs, LoopPcs, UndoPcs
  <2>3. CASE journal' # journal
    BY <1>8, <2>1, <2>3, <1>a, <1>b, <1>c
       DEF ApplyPending, Wrote, Moved, Noted, GoTo, Rest, PhaseAtPc, phase,
           Phases, EntryPcs, LoopPcs, UndoPcs
  <2> QED
    BY <2>2, <2>3
<1>9. ASSUME MakeParent PROVE PhaseAtPc'
  BY <1>9, <1>a, <1>b, <1>c
     DEF MakeParent, GoTo, Rest, PhaseAtPc, phase, Phases, EntryPcs, LoopPcs,
         UndoPcs
<1>10. ASSUME OpenLeaf PROVE PhaseAtPc'
  BY <1>10, <1>a, <1>b, <1>c
     DEF OpenLeaf, GoTo, Rest, PhaseAtPc, phase, Phases, EntryPcs, LoopPcs,
         UndoPcs
<1>11. ASSUME RunLeaf PROVE PhaseAtPc'
  <2>1. RunLeaf \/ LeafFails
    BY <1>11
  <2> QED
    BY <2>1, LeafMoves, <1>a, <1>b, <1>c DEF PhaseAtPc, phase
<1>12. ASSUME LeafReturns PROVE PhaseAtPc'
  BY <1>12, <1>a, <1>b, <1>c
     DEF LeafReturns, GoTo, Rest, loop, PhaseAtPc, phase, Phases, EntryPcs,
         LoopPcs, UndoPcs
<1>13. ASSUME Cleanup PROVE PhaseAtPc'
  BY <1>13, <1>a, <1>b, <1>c
     DEF Cleanup, TryRmdir, Rest, PhaseAtPc, phase, Phases, EntryPcs, LoopPcs,
         UndoPcs
<1>14. ASSUME CreatedParent PROVE PhaseAtPc'
  <2>1. Wrote("created parent", cur, "verify")
    BY <1>14, RecordingSteps
  <2>2. CASE journal' = journal
    BY <1>14, <2>1, <2>2, <1>a, <1>b, <1>c
       DEF CreatedParent, Wrote, Moved, Noted, Rest, PhaseAtPc, phase, Phases,
           EntryPcs, LoopPcs, UndoPcs
  <2>3. CASE journal' # journal
    BY <1>14, <2>1, <2>3, <1>a, <1>b, <1>c
       DEF CreatedParent, Wrote, Moved, Noted, Rest, PhaseAtPc, phase, Phases,
           EntryPcs, LoopPcs, UndoPcs
  <2> QED
    BY <2>2, <2>3
<1>15. ASSUME ApplyVerified PROVE PhaseAtPc'
  <2>1. \/ Wrote("apply effect verified", cur,
                IF cur = N THEN "final" ELSE "check")
       \/ Moved("rolling")
    BY <1>15, RecordingSteps
  <2>2. CASE journal' = journal
    BY <1>15, <2>1, <2>2, <1>a, <1>b, <1>c
       DEF ApplyVerified, Wrote, Moved, Noted, GiveUp, GoTo, Rest, PhaseAtPc,
           phase, Phases, EntryPcs, LoopPcs, UndoPcs
  <2>3. CASE journal' # journal
    BY <1>15, <2>1, <2>3, <1>a, <1>b, <1>c
       DEF ApplyVerified, Wrote, Moved, Noted, GiveUp, GoTo, Rest, PhaseAtPc,
           phase, Phases, EntryPcs, LoopPcs, UndoPcs
  <2> QED
    BY <2>2, <2>3
<1>16. ASSUME FinalVerification PROVE PhaseAtPc'
  BY <1>16, <1>a, <1>b, <1>c
     DEF FinalVerification, GoTo, Rest, loop, PhaseAtPc, phase, Phases,
         EntryPcs, LoopPcs, UndoPcs
<1>17. ASSUME RecheckChangeset PROVE PhaseAtPc'
  <2>1. Wrote("change set digest rechecked", 0, "reindex")
    BY <1>17, RecordingSteps
  <2>2. CASE journal' = journal
    BY <1>17, <2>1, <2>2, <1>a, <1>b, <1>c
       DEF RecheckChangeset, Wrote, Moved, Noted, GiveUp, GoTo, Rest, loop,
           PhaseAtPc, phase, Phases, EntryPcs, LoopPcs, UndoPcs
  <2>3. CASE journal' # journal
    BY <1>17, <2>1, <2>3, <1>a, <1>b, <1>c
       DEF RecheckChangeset, Wrote, Moved, Noted, GiveUp, GoTo, Rest, loop,
           PhaseAtPc, phase, Phases, EntryPcs, LoopPcs, UndoPcs
  <2> QED
    BY <2>2, <2>3
<1>18. ASSUME RecheckIndex PROVE PhaseAtPc'
  <2>1. Wrote("index digest rechecked", 0, "applied")
    BY <1>18, RecordingSteps
  <2>2. CASE journal' = journal
    BY <1>18, <2>1, <2>2, <1>a, <1>b, <1>c
       DEF RecheckIndex, Wrote, Moved, Noted, GiveUp, GoTo, Rest, loop,
           PhaseAtPc, phase, Phases, EntryPcs, LoopPcs, UndoPcs
  <2>3. CASE journal' # journal
    BY <1>18, <2>1, <2>3, <1>a, <1>b, <1>c
       DEF RecheckIndex, Wrote, Moved, Noted, GiveUp, GoTo, Rest, loop,
           PhaseAtPc, phase, Phases, EntryPcs, LoopPcs, UndoPcs
  <2> QED
    BY <2>2, <2>3
<1>19. ASSUME RecordApplied PROVE PhaseAtPc'
  <2>1. Wrote("APPLIED", 0, "returned")
    BY <1>19, RecordingSteps
  <2>2. CASE journal' = journal
    BY <1>19, <2>1, <2>2, <1>a, <1>b, <1>c
       DEF RecordApplied, Wrote, Moved, Noted, Rest, loop, PhaseAtPc, phase,
           Phases, EntryPcs, LoopPcs, UndoPcs
  <2>3. CASE journal' # journal
    BY <1>19, <2>1, <2>3, <1>a, <1>b, <1>c
       DEF RecordApplied, Wrote, Moved, Noted, Rest, loop, PhaseAtPc, phase,
           Phases, EntryPcs, LoopPcs, UndoPcs
  <2> QED
    BY <2>2, <2>3
<1>20. ASSUME StartRollback PROVE PhaseAtPc'
  <2>1. Wrote("ROLLING_BACK", 0, "rbcheck")
    BY <1>20, RecordingSteps
  <2>2. CASE journal' = journal
    BY <1>20, <2>1, <2>2, <1>a, <1>b, <1>c
       DEF StartRollback, Wrote, Moved, Noted, Rest, loop, PhaseAtPc, phase,
           Phases, EntryPcs, LoopPcs, UndoPcs
  <2>3. CASE journal' # journal
    BY <1>20, <2>1, <2>3, <1>a, <1>b, <1>c
       DEF StartRollback, Wrote, Moved, Noted, Rest, loop, PhaseAtPc, phase,
           Phases, EntryPcs, LoopPcs
  <2> QED
    BY <2>2, <2>3
<1>21. ASSUME RollbackDone PROVE PhaseAtPc'
  BY <1>21, <1>a, <1>b, <1>c
     DEF RollbackDone, GoTo, Rest, loop, PhaseAtPc, phase, Phases, EntryPcs,
         LoopPcs, UndoPcs
<1>22. ASSUME RollbackPending PROVE PhaseAtPc'
  <2>1. \/ Wrote("rollback effect pending", cur', "restore")
       \/ Wrote("rollback effect pending", cur', "rbverify")
       \/ /\ Logged(journal, "rollback effect pending", cur')
          /\ \/ Wrote("rollback effect verified", cur', "rbcheck")
             \/ Moved("restore")
       \/ Moved("rbcheck")
    BY <1>22, RecordingSteps
  <2>2. CASE journal' = journal
    BY <1>22, <2>1, <2>2, <1>a, <1>b, <1>c
       DEF RollbackPending, ApplyRollsBack, RecoverRollsBack, Wrote, Moved,
           Noted, GiveUp, GoTo, Rest, PhaseAtPc, phase, Phases, EntryPcs,
           LoopPcs, UndoPcs
  <2>3. CASE journal' # journal
    BY <1>22, <2>1, <2>3, <1>a, <1>b, <1>c
       DEF RollbackPending, ApplyRollsBack, RecoverRollsBack, Wrote, Moved,
           Noted, GiveUp, GoTo, Rest, PhaseAtPc, phase, Phases, EntryPcs,
           LoopPcs, UndoPcs
  <2> QED
    BY <2>2, <2>3
<1>23. ASSUME RestoreEntry PROVE PhaseAtPc'
  BY <1>23, <1>a, <1>b, <1>c
     DEF RestoreEntry, GoTo, Rest, PhaseAtPc, phase, Phases, EntryPcs, LoopPcs,
         UndoPcs
<1>24. ASSUME RemoveParent PROVE PhaseAtPc'
  BY <1>24, <1>a, <1>b, <1>c
     DEF RemoveParent, TryRmdir, Rest, loop, PhaseAtPc, phase, Phases,
         EntryPcs, LoopPcs, UndoPcs
<1>25. ASSUME RollbackVerified PROVE PhaseAtPc'
  <2>1. Wrote("rollback effect verified", cur, "rbcheck")
    BY <1>25, RecordingSteps
  <2>2. CASE journal' = journal
    BY <1>25, <2>1, <2>2, <1>a, <1>b, <1>c
       DEF RollbackVerified, Wrote, Moved, Noted, GiveUp, GoTo, Rest,
           PhaseAtPc, phase, Phases, EntryPcs, LoopPcs, UndoPcs
  <2>3. CASE journal' # journal
    BY <1>25, <2>1, <2>3, <1>a, <1>b, <1>c
       DEF RollbackVerified, Wrote, Moved, Noted, GiveUp, GoTo, Rest,
           PhaseAtPc, phase, Phases, EntryPcs, LoopPcs, UndoPcs
  <2> QED
    BY <2>2, <2>3
<1>26. ASSUME RollbackFinal PROVE PhaseAtPc'
  <2>1. Wrote("rollback index digest rechecked", 0, "rbdone")
    BY <1>26, RecordingSteps
  <2>2. CASE journal' = journal
    BY <1>26, <2>1, <2>2, <1>a, <1>b, <1>c
       DEF RollbackFinal, Wrote, Moved, Noted, GiveUp, GoTo, Rest, loop,
           PhaseAtPc, phase, Phases, EntryPcs, LoopPcs, UndoPcs
  <2>3. CASE journal' # journal
    BY <1>26, <2>1, <2>3, <1>a, <1>b, <1>c
       DEF RollbackFinal, Wrote, Moved, Noted, GiveUp, GoTo, Rest, loop,
           PhaseAtPc, phase, Phases, EntryPcs, LoopPcs, UndoPcs
  <2> QED
    BY <2>2, <2>3
<1>27. ASSUME RecordRolledBack PROVE PhaseAtPc'
  <2>1. Wrote("ROLLED_BACK", 0, "returned")
    BY <1>27, RecordingSteps
  <2>2. CASE journal' = journal
    BY <1>27, <2>1, <2>2, <1>a, <1>b, <1>c
       DEF RecordRolledBack, Wrote, Moved, Noted, Rest, loop, PhaseAtPc, phase,
           Phases, EntryPcs, LoopPcs, UndoPcs
  <2>3. CASE journal' # journal
    BY <1>27, <2>1, <2>3, <1>a, <1>b, <1>c
       DEF RecordRolledBack, Wrote, Moved, Noted, Rest, loop, PhaseAtPc, phase,
           Phases, EntryPcs, LoopPcs, UndoPcs
  <2> QED
    BY <2>2, <2>3
<1>28. ASSUME RequireRecovery PROVE PhaseAtPc'
  <2>1. \/ Noted("RECOVERY_REQUIRED", 0) /\ Counted /\ pc' = "returned"
       \/ Moved("returned")
    BY <1>28, RecordingSteps
  <2>2. CASE journal' = journal
    BY <1>28, <2>1, <2>2, <1>a, <1>b, <1>c
       DEF RequireRecovery, Wrote, Moved, Noted, GoTo, Rest, loop, PhaseAtPc,
           phase, Phases, EntryPcs, LoopPcs, UndoPcs
  <2>3. CASE journal' # journal
    BY <1>28, <2>1, <2>3, <1>a, <1>b, <1>c
       DEF RequireRecovery, Wrote, Moved, Noted, GoTo, Rest, loop, PhaseAtPc,
           phase, Phases, EntryPcs, LoopPcs, UndoPcs
  <2> QED
    BY <2>2, <2>3
<1>29. ASSUME Resolve PROVE PhaseAtPc'
  BY <1>29, ResolveMoves, <1>a, <1>b, <1>c
     DEF PhaseAtPc, phase, Phases, EntryPcs, LoopPcs, UndoPcs
<1>30. ASSUME Classify PROVE PhaseAtPc'
  BY <1>30, <1>a, <1>b, <1>c
     DEF Classify, Rest, PhaseAtPc, phase, Phases, EntryPcs, LoopPcs, UndoPcs
<1>31. ASSUME Recover PROVE PhaseAtPc'
  BY <1>31, <1>a, <1>b, <1>c
     DEF Recover, Report, Rest, PhaseAtPc, phase, Phases, EntryPcs, LoopPcs,
         UndoPcs
<1>32. ASSUME Replay PROVE PhaseAtPc'
  BY <1>32, <1>a, <1>b, <1>c
     DEF Replay, Report, Rest, loop, PhaseAtPc, phase, Phases, EntryPcs,
         LoopPcs, UndoPcs
<1>33. ASSUME Crash PROVE PhaseAtPc'
  BY <1>33, <1>a, <1>b, <1>c
     DEF Crash, PhaseAtPc, phase, Phases, EntryPcs, LoopPcs, UndoPcs
<1>34. ASSUME LeafFails PROVE PhaseAtPc'
  <2>1. RunLeaf \/ LeafFails
    BY <1>34
  <2> QED
    BY <2>1, LeafMoves, <1>a, <1>b, <1>c DEF PhaseAtPc, phase
<1>35. ASSUME ResolveFails PROVE PhaseAtPc'
  BY <1>35, <1>a, <1>b, <1>c
     DEF ResolveFails, Fault, Rest, loop, PhaseAtPc, phase, Phases, EntryPcs,
         LoopPcs, UndoPcs
<1>36. ASSUME MakeParentFails PROVE PhaseAtPc'
  BY <1>36, <1>a, <1>b, <1>c
     DEF MakeParentFails, Fault, Rest, PhaseAtPc, phase, Phases, EntryPcs,
         LoopPcs, UndoPcs
<1>37. ASSUME ReadFails PROVE PhaseAtPc'
  BY <1>37, <1>a, <1>b, <1>c
     DEF ReadFails, Fault, Rest, PhaseAtPc, phase, Phases, EntryPcs, LoopPcs,
         UndoPcs
<1>38. ASSUME VerifyReadFails PROVE PhaseAtPc'
  BY <1>38, <1>a, <1>b, <1>c
     DEF VerifyReadFails, Fault, Rest, PhaseAtPc, phase, Phases, EntryPcs,
         LoopPcs, UndoPcs
<1>39. ASSUME NEW e \in Entries, UserEdits(e) PROVE PhaseAtPc'
  BY <1>39, <1>a, <1>b, <1>c DEF UserEdits, Edit, loop, PhaseAtPc, phase
<1>40. ASSUME UserFillsDir PROVE PhaseAtPc'
  BY <1>40, <1>a, <1>b, <1>c DEF UserFillsDir, Edit, loop, PhaseAtPc, phase
<1>41. ASSUME NEW what \in {"index", "workspace"}, UserChanges(what)
       PROVE  PhaseAtPc'
  BY <1>41, <1>a, <1>b, <1>c DEF UserChanges, Edit, loop, PhaseAtPc, phase
<1>42. ASSUME UNCHANGED vars PROVE PhaseAtPc'
  BY <1>42, <1>a, <1>b, <1>c DEF vars, disks, budget, loop, PhaseAtPc, phase
<1> QED
  BY <1>1, <1>2, <1>3, <1>4, <1>5, <1>6, <1>7, <1>8, <1>9, <1>10, <1>11, <1>12,
     <1>13, <1>14, <1>15, <1>16, <1>17, <1>18, <1>19, <1>20, <1>21, <1>22,
     <1>23, <1>24, <1>25, <1>26, <1>27, <1>28, <1>29, <1>30, <1>31, <1>32,
     <1>33, <1>34, <1>35, <1>36, <1>37, <1>38, <1>39, <1>40, <1>41, <1>42
     DEF Next, ApplyStep, RollbackStep, Failure, User

-----------------------------------------------------------------------------
(* Every step keeps the log ahead.                                         *)

(* What a record needs for the order of the log to stand.                  *)
Follows(kind, x) ==
    /\ kind = "apply effect pending" => blobs = Entries
    /\ kind \in {"apply effect verified", "rollback effect pending"} =>
          Logged(journal, "apply effect pending", x)
    /\ kind = "rollback effect verified" =>
          Logged(journal, "rollback effect pending", x)

LEMMA OrderKept ==
  ASSUME LogOrder, NEW kind, NEW x, Noted(kind, x), Follows(kind, x),
         blobs = Entries => blobs' = Entries,
         \A e \in affected' \ affected :
            Logged(journal, "apply effect pending", e)
  PROVE  LogOrder'
<1>1. \A k, f : Logged(journal', k, f)
                  <=> Logged(journal, k, f) \/ (k = kind /\ f = x)
  BY DEF Noted
<1> QED
  BY <1>1 DEF LogOrder, Follows

(* Every step keeps the log ahead of what the coordinator does.             *)
LEMMA LogStep ==
  ASSUME CoreInv, [Next]_vars
  PROVE  LogAhead'
<1>a. LogOrder /\ LogAtPc /\ PhaseAtPc
  BY DEF CoreInv, LogAhead
<1>b. /\ cur \in Entries /\ affected \subseteq Entries /\ todo \subseteq affected
      /\ blobs \subseteq Entries
  BY DEF CoreInv, TypeOK
<1>c. N \in Nat /\ Entries = 1..N /\ 1 \in Entries
  BY EntriesAreNumbers DEF Entries
<1>1. ASSUME Begin PROVE LogAhead'
  BY <1>1, <1>a, <1>b
     DEF Begin, GoTo, loop, LogAhead, LogOrder, LogAtPc, PhaseAtPc, phase,
         Phases, EntryPcs, LoopPcs, UndoPcs, Publishing, Restoring
<1>2. ASSUME WritePlan PROVE LogAhead'
  BY <1>2, <1>a, <1>b
     DEF WritePlan, GoTo, Rest, loop, LogAhead, LogOrder, LogAtPc, PhaseAtPc,
         phase, Phases, EntryPcs, LoopPcs, UndoPcs, Publishing, Restoring
<1>3. ASSUME WriteHeader PROVE LogAhead'
  <2>1. Wrote("PREPARING", 0, "backup")
    BY <1>3, RecordingSteps
  <2>2. CASE journal' = journal
    BY <1>3, <2>1, <2>2, <1>a, <1>b, <1>c
       DEF WriteHeader, Wrote, Moved, Noted, GoTo, GiveUp, Rest, loop,
           LogAhead, LogOrder, LogAtPc, PhaseAtPc, phase, Phases, EntryPcs,
           LoopPcs, UndoPcs, Publishing, Restoring
  <2>3. CASE journal' # journal
    <3>1. Noted("PREPARING", 0) /\ pc' \in {"backup", "require"}
      BY <2>1, <2>3 DEF Wrote
    <3>2. /\ Follows("PREPARING", 0)
          /\ UNCHANGED <<blobs, affected, cur>>
      BY <1>3, <1>a DEF Follows, WriteHeader, GoTo, GiveUp, Rest, loop, LogAtPc
    <3>3. LogOrder'
      BY <1>a, <3>1, <3>2, OrderKept
    <3>4. LogAtPc'
      <4>1. cur' = 1
        BY <1>3, <1>a, <3>2 DEF WriteHeader, PhaseAtPc
      <4>2. 1..(cur' - 1) = {}
        BY <4>1
      <4> QED
        BY <3>1, <4>2 DEF LogAtPc, EntryPcs, Publishing, Restoring
    <3> QED
      BY <3>3, <3>4 DEF LogAhead
  <2> QED
    BY <2>2, <2>3
<1>4. ASSUME BackupPending PROVE LogAhead'
  <2>1. Wrote("backup pending", cur, "backup2")
    BY <1>4, RecordingSteps
  <2>2. CASE journal' = journal
    BY <1>4, <2>1, <2>2, <1>a, <1>b
       DEF BackupPending, Wrote, Moved, Noted, GoTo, GiveUp, Rest, loop,
           LogAhead, LogOrder, LogAtPc, PhaseAtPc, phase, Phases, EntryPcs,
           LoopPcs, UndoPcs, Publishing, Restoring
  <2>3. CASE journal' # journal
    <3>1. Noted("backup pending", cur) /\ pc' \in {"backup2", "require"}
      BY <2>1, <2>3 DEF Wrote
    <3>2. /\ Follows("backup pending", cur)
          /\ UNCHANGED <<blobs, affected, cur>>
      BY <1>4, <1>a
         DEF Follows, BackupPending, GoTo, GiveUp, Rest, loop, LogAtPc
    <3>3. LogOrder'
      BY <1>a, <3>1, <3>2, OrderKept
    <3>4. LogAtPc'
      BY <1>4, <1>a, <3>1, <3>2
         DEF BackupPending, Noted, LogAtPc, EntryPcs, Publishing, Restoring
    <3> QED
      BY <3>3, <3>4 DEF LogAhead
  <2> QED
    BY <2>2, <2>3
<1>5. ASSUME BackupVerified PROVE LogAhead'
  <2>1. Wrote("backup verified", cur, IF cur = N THEN "ready" ELSE "backup")
    BY <1>5, RecordingSteps
  <2>2. CASE journal' = journal
    BY <1>5, <2>1, <2>2, <1>a, <1>b, <1>c
       DEF BackupVerified, Wrote, Moved, Noted, GoTo, GiveUp, Rest, loop,
           LogAhead, LogOrder, LogAtPc, PhaseAtPc, phase, Phases, EntryPcs,
           LoopPcs, UndoPcs, Publishing, Restoring
  <2>3. CASE journal' # journal
    <3>1. Noted("backup verified", cur) /\ pc' \in {"backup", "ready", "require"}
      BY <2>1, <2>3 DEF Wrote
    <3>2. /\ Follows("backup verified", cur)
          /\ blobs' = blobs \cup {cur} /\ affected' = affected
          /\ cur' = IF cur = N THEN 1 ELSE cur + 1
      BY <1>5, <1>a, <2>3 DEF Follows, BackupVerified, GoTo, GiveUp, Rest
    <3>3. LogOrder'
      <4>1. blobs = Entries => blobs' = Entries
        BY <1>b, <3>2
      <4> QED
        BY <1>a, <3>1, <3>2, <4>1, OrderKept
    <3>4. LogAtPc'
      <4>1. 1..(cur - 1) \subseteq blobs
        BY <1>5, <1>a DEF LogAtPc, BackupVerified
      <4>2. pc' = "backup" => cur # N
        BY <2>1, <2>3 DEF Wrote
      <4>3. pc' = "ready" => cur = N
        BY <2>1, <2>3 DEF Wrote
      <4>0. 1..cur \subseteq blobs' /\ blobs' \subseteq Entries
        <5>0. cur \in Int
          BY <1>b, <1>c
        <5>1. cur \in Int /\ blobs' = blobs \cup {cur}
          BY <3>2, <5>0
        <5>2. \A e \in 1..cur : e = cur \/ e \in 1..(cur - 1)
          BY <5>1
        <5> QED
          BY <1>b, <4>1, <5>1
      <4>4. pc' = "backup" => 1..(cur' - 1) \subseteq blobs'
        <5>0. cur \in Int
          BY <1>b, <1>c
        <5>1. pc' = "backup" => cur' = cur + 1
          BY <3>2, <4>2
        <5>2. (cur + 1) - 1 = cur
          BY <5>0
        <5> QED
          BY <4>0, <5>1, <5>2
      <4>5. pc' = "ready" => blobs' = Entries
        BY <1>c, <4>0, <4>3
      <4> QED
        BY <3>1, <4>4, <4>5 DEF LogAtPc, EntryPcs, Publishing, Restoring
    <3> QED
      BY <3>3, <3>4 DEF LogAhead
  <2> QED
    BY <2>2, <2>3
<1>6. ASSUME BackupReady PROVE LogAhead'
  <2>1. Wrote("BACKUP_READY", 0, "applying")
    BY <1>6, RecordingSteps
  <2>2. CASE journal' = journal
    BY <1>6, <2>1, <2>2, <1>a, <1>b
       DEF BackupReady, Wrote, Moved, Noted, GoTo, GiveUp, Rest, loop,
           LogAhead, LogOrder, LogAtPc, PhaseAtPc, phase, Phases, EntryPcs,
           LoopPcs, UndoPcs, Publishing, Restoring
  <2>3. CASE journal' # journal
    <3>1. Noted("BACKUP_READY", 0) /\ pc' \in {"applying", "require"}
      BY <2>1, <2>3 DEF Wrote
    <3>2. /\ Follows("BACKUP_READY", 0)
          /\ UNCHANGED <<blobs, affected, cur>>
      BY <1>6, <1>a DEF Follows, BackupReady, GoTo, GiveUp, Rest, loop, LogAtPc
    <3>3. LogOrder'
      BY <1>a, <3>1, <3>2, OrderKept
    <3>4. LogAtPc'
      BY <1>6, <1>a, <3>1, <3>2
         DEF BackupReady, Noted, LogAtPc, EntryPcs, Publishing, Restoring
    <3> QED
      BY <3>3, <3>4 DEF LogAhead
  <2> QED
    BY <2>2, <2>3
<1>7. ASSUME StartApplying PROVE LogAhead'
  <2>1. Wrote("APPLYING", 0, "check")
    BY <1>7, RecordingSteps
  <2>2. CASE journal' = journal
    BY <1>7, <2>1, <2>2, <1>a, <1>b
       DEF StartApplying, Wrote, Moved, Noted, GoTo, GiveUp, Rest, loop,
           LogAhead, LogOrder, LogAtPc, PhaseAtPc, phase, Phases, EntryPcs,
           LoopPcs, UndoPcs, Publishing, Restoring
  <2>3. CASE journal' # journal
    <3>1. Noted("APPLYING", 0) /\ pc' \in {"check", "require"}
      BY <2>1, <2>3 DEF Wrote
    <3>2. /\ Follows("APPLYING", 0)
          /\ UNCHANGED <<blobs, affected, cur>>
      BY <1>7, <1>a
         DEF Follows, StartApplying, GoTo, GiveUp, Rest, loop, LogAtPc
    <3>3. LogOrder'
      BY <1>a, <3>1, <3>2, OrderKept
    <3>4. LogAtPc'
      BY <1>7, <1>a, <3>1, <3>2
         DEF StartApplying, Noted, LogAtPc, EntryPcs, Publishing, Restoring
    <3> QED
      BY <3>3, <3>4 DEF LogAhead
  <2> QED
    BY <2>2, <2>3
<1>8. ASSUME ApplyPending PROVE LogAhead'
  <2>1. \/ Wrote("apply effect pending", cur,
                IF cur = Owner THEN "mkdir" ELSE "open")
       \/ Moved("rolling")
    BY <1>8, RecordingSteps
  <2>2. CASE journal' = journal
    BY <1>8, <2>1, <2>2, <1>a, <1>b
       DEF ApplyPending, Wrote, Moved, Noted, GoTo, GiveUp, Rest, loop,
           LogAhead, LogOrder, LogAtPc, PhaseAtPc, phase, Phases, EntryPcs,
           LoopPcs, UndoPcs, Publishing, Restoring
  <2>3. CASE journal' # journal
    <3>1. Noted("apply effect pending", cur) /\ pc' \in {"mkdir", "open", "require"}
      BY <2>1, <2>3 DEF Wrote, Moved
    <3>2. /\ Follows("apply effect pending", cur)
          /\ UNCHANGED <<blobs, affected, cur>>
      BY <1>8, <1>a, <2>3
         DEF Follows, ApplyPending, GoTo, GiveUp, Rest, loop, LogAtPc
    <3>3. LogOrder'
      BY <1>a, <3>1, <3>2, OrderKept
    <3>4. LogAtPc'
      BY <2>1, <2>3, <3>1, <3>2 DEF LogAtPc, Noted, Wrote, Moved, Restoring
    <3> QED
      BY <3>3, <3>4 DEF LogAhead
  <2> QED
    BY <2>2, <2>3
<1>9. ASSUME MakeParent PROVE LogAhead'
  BY <1>9, <1>a, <1>b
     DEF MakeParent, GoTo, Rest, LogAhead, LogOrder, LogAtPc, PhaseAtPc, phase,
         Phases, EntryPcs, LoopPcs, UndoPcs, Publishing, Restoring
<1>10. ASSUME OpenLeaf PROVE LogAhead'
  BY <1>10, <1>a, <1>b
     DEF OpenLeaf, GoTo, Rest, LogAhead, LogOrder, LogAtPc, PhaseAtPc, phase,
         Phases, EntryPcs, LoopPcs, UndoPcs, Publishing, Restoring
<1>11. ASSUME RunLeaf PROVE LogAhead'
  <2>1. RunLeaf \/ LeafFails
    BY <1>11
  <2>2. UNCHANGED <<journal, pc, cur, blobs, affected>>
    BY <2>1, LeafMoves
  <2> QED
    BY <1>a, <2>2 DEF LogAhead, LogOrder, LogAtPc, Publishing, Restoring, phase
<1>12. ASSUME LeafReturns PROVE LogAhead'
  BY <1>12, <1>a, <1>b
     DEF LeafReturns, GoTo, Rest, loop, LogAhead, LogOrder, LogAtPc, PhaseAtPc,
         phase, Phases, EntryPcs, LoopPcs, UndoPcs, Publishing, Restoring
<1>13. ASSUME Cleanup PROVE LogAhead'
  BY <1>13, <1>a, <1>b
     DEF Cleanup, TryRmdir, Rest, LogAhead, LogOrder, LogAtPc, PhaseAtPc,
         phase, Phases, EntryPcs, LoopPcs, UndoPcs, Publishing, Restoring
<1>14. ASSUME CreatedParent PROVE LogAhead'
  <2>1. Wrote("created parent", cur, "verify")
    BY <1>14, RecordingSteps
  <2>2. CASE journal' = journal
    BY <1>14, <2>1, <2>2, <1>a, <1>b
       DEF CreatedParent, Wrote, Moved, Noted, GoTo, GiveUp, Rest, loop,
           LogAhead, LogOrder, LogAtPc, PhaseAtPc, phase, Phases, EntryPcs,
           LoopPcs, UndoPcs, Publishing, Restoring
  <2>3. CASE journal' # journal
    <3>1. Noted("created parent", cur) /\ pc' \in {"verify", "require"}
      BY <2>1, <2>3 DEF Wrote
    <3>2. /\ Follows("created parent", cur)
          /\ UNCHANGED <<blobs, affected, cur>>
      BY <1>14, <1>a DEF Follows, CreatedParent, GoTo
    <3>3. LogOrder'
      BY <1>a, <3>1, <3>2, OrderKept
    <3>4. LogAtPc'
      BY <1>14, <1>a, <3>1, <3>2
         DEF CreatedParent, Noted, LogAtPc, EntryPcs, Publishing, Restoring
    <3> QED
      BY <3>3, <3>4 DEF LogAhead
  <2> QED
    BY <2>2, <2>3
<1>15. ASSUME ApplyVerified PROVE LogAhead'
  <2>1. \/ Wrote("apply effect verified", cur,
                IF cur = N THEN "final" ELSE "check")
       \/ Moved("rolling")
    BY <1>15, RecordingSteps
  <2>2. CASE journal' = journal
    BY <1>15, <2>1, <2>2, <1>a, <1>b
       DEF ApplyVerified, Wrote, Moved, Noted, GoTo, GiveUp, Rest, loop,
           LogAhead, LogOrder, LogAtPc, PhaseAtPc, phase, Phases, EntryPcs,
           LoopPcs, UndoPcs, Publishing, Restoring
  <2>3. CASE journal' # journal
    <3>1. Noted("apply effect verified", cur) /\ pc' \in {"final", "check", "require"}
      BY <2>1, <2>3 DEF Wrote, Moved
    <3>2. /\ Follows("apply effect verified", cur)
          /\ affected' = affected \cup {cur} /\ blobs' = blobs
      BY <1>15, <1>a, <2>3
         DEF Follows, ApplyVerified, GoTo, GiveUp, Rest, loop, LogAtPc,
             PhaseAtPc, EntryPcs, Publishing
    <3>3. LogOrder'
      BY <1>a, <3>1, <3>2, OrderKept DEF Follows
    <3>4. LogAtPc'
      BY <1>a, <1>b, <3>1, <3>2
         DEF Follows, LogAtPc, LogOrder, EntryPcs, Publishing, Restoring
    <3> QED
      BY <3>3, <3>4 DEF LogAhead
  <2> QED
    BY <2>2, <2>3
<1>16. ASSUME FinalVerification PROVE LogAhead'
  BY <1>16, <1>a, <1>b
     DEF FinalVerification, GoTo, Rest, loop, LogAhead, LogOrder, LogAtPc,
         PhaseAtPc, phase, Phases, EntryPcs, LoopPcs, UndoPcs, Publishing,
         Restoring
<1>17. ASSUME RecheckChangeset PROVE LogAhead'
  <2>1. Wrote("change set digest rechecked", 0, "reindex")
    BY <1>17, RecordingSteps
  <2>2. CASE journal' = journal
    BY <1>17, <2>1, <2>2, <1>a, <1>b
       DEF RecheckChangeset, Wrote, Moved, Noted, GoTo, GiveUp, Rest, loop,
           LogAhead, LogOrder, LogAtPc, PhaseAtPc, phase, Phases, EntryPcs,
           LoopPcs, UndoPcs, Publishing, Restoring
  <2>3. CASE journal' # journal
    <3>1. Noted("change set digest rechecked", 0) /\ pc' \in {"reindex", "require"}
      BY <2>1, <2>3 DEF Wrote
    <3>2. /\ Follows("change set digest rechecked", 0)
          /\ UNCHANGED <<blobs, affected, cur>>
      BY <1>17, <1>a
         DEF Follows, RecheckChangeset, GoTo, GiveUp, Rest, loop, LogAtPc
    <3>3. LogOrder'
      BY <1>a, <3>1, <3>2, OrderKept
    <3>4. LogAtPc'
      BY <1>17, <1>a, <3>1, <3>2
         DEF RecheckChangeset, Noted, LogAtPc, EntryPcs, Publishing, Restoring
    <3> QED
      BY <3>3, <3>4 DEF LogAhead
  <2> QED
    BY <2>2, <2>3
<1>18. ASSUME RecheckIndex PROVE LogAhead'
  <2>1. Wrote("index digest rechecked", 0, "applied")
    BY <1>18, RecordingSteps
  <2>2. CASE journal' = journal
    BY <1>18, <2>1, <2>2, <1>a, <1>b
       DEF RecheckIndex, Wrote, Moved, Noted, GoTo, GiveUp, Rest, loop,
           LogAhead, LogOrder, LogAtPc, PhaseAtPc, phase, Phases, EntryPcs,
           LoopPcs, UndoPcs, Publishing, Restoring
  <2>3. CASE journal' # journal
    <3>1. Noted("index digest rechecked", 0) /\ pc' \in {"applied", "require"}
      BY <2>1, <2>3 DEF Wrote
    <3>2. /\ Follows("index digest rechecked", 0)
          /\ UNCHANGED <<blobs, affected, cur>>
      BY <1>18, <1>a
         DEF Follows, RecheckIndex, GoTo, GiveUp, Rest, loop, LogAtPc
    <3>3. LogOrder'
      BY <1>a, <3>1, <3>2, OrderKept
    <3>4. LogAtPc'
      BY <1>18, <1>a, <3>1, <3>2
         DEF RecheckIndex, Noted, LogAtPc, EntryPcs, Publishing, Restoring
    <3> QED
      BY <3>3, <3>4 DEF LogAhead
  <2> QED
    BY <2>2, <2>3
<1>19. ASSUME RecordApplied PROVE LogAhead'
  <2>1. Wrote("APPLIED", 0, "returned")
    BY <1>19, RecordingSteps
  <2>2. CASE journal' = journal
    BY <1>19, <2>1, <2>2, <1>a, <1>b
       DEF RecordApplied, Wrote, Moved, Noted, GoTo, GiveUp, Rest, loop,
           LogAhead, LogOrder, LogAtPc, PhaseAtPc, phase, Phases, EntryPcs,
           LoopPcs, UndoPcs, Publishing, Restoring
  <2>3. CASE journal' # journal
    <3>1. Noted("APPLIED", 0) /\ pc' \in {"returned", "require"}
      BY <2>1, <2>3 DEF Wrote
    <3>2. /\ Follows("APPLIED", 0)
          /\ UNCHANGED <<blobs, affected, cur>>
      BY <1>19, <1>a
         DEF Follows, RecordApplied, GoTo, GiveUp, Rest, loop, LogAtPc
    <3>3. LogOrder'
      BY <1>a, <3>1, <3>2, OrderKept
    <3>4. LogAtPc'
      BY <1>19, <1>a, <3>1, <3>2
         DEF RecordApplied, Noted, LogAtPc, EntryPcs, Publishing, Restoring
    <3> QED
      BY <3>3, <3>4 DEF LogAhead
  <2> QED
    BY <2>2, <2>3
<1>20. ASSUME StartRollback PROVE LogAhead'
  <2>1. Wrote("ROLLING_BACK", 0, "rbcheck")
    BY <1>20, RecordingSteps
  <2>2. CASE journal' = journal
    BY <1>20, <2>1, <2>2, <1>a, <1>b
       DEF StartRollback, Wrote, Moved, Noted, GoTo, GiveUp, Rest, loop,
           LogAhead, LogOrder, LogAtPc, PhaseAtPc, phase, Phases, EntryPcs,
           LoopPcs, UndoPcs, Publishing, Restoring
  <2>3. CASE journal' # journal
    <3>1. Noted("ROLLING_BACK", 0) /\ pc' \in {"rbcheck", "require"}
      BY <2>1, <2>3 DEF Wrote
    <3>2. /\ Follows("ROLLING_BACK", 0)
          /\ UNCHANGED <<blobs, affected, cur>>
      BY <1>20, <1>a
         DEF Follows, StartRollback, GoTo, GiveUp, Rest, loop, LogAtPc
    <3>3. LogOrder'
      BY <1>a, <3>1, <3>2, OrderKept
    <3>4. LogAtPc'
      BY <1>20, <1>a, <3>1, <3>2
         DEF StartRollback, Noted, LogAtPc, EntryPcs, Publishing, Restoring
    <3> QED
      BY <3>3, <3>4 DEF LogAhead
  <2> QED
    BY <2>2, <2>3
<1>21. ASSUME RollbackDone PROVE LogAhead'
  BY <1>21, <1>a, <1>b
     DEF RollbackDone, GoTo, Rest, loop, LogAhead, LogOrder, LogAtPc,
         PhaseAtPc, phase, Phases, EntryPcs, LoopPcs, UndoPcs, Publishing,
         Restoring
<1>22. ASSUME RollbackPending PROVE LogAhead'
  <2>1. \/ Wrote("rollback effect pending", cur', "restore")
          \/ Wrote("rollback effect pending", cur', "rbverify")
          \/ /\ Logged(journal, "rollback effect pending", cur')
             /\ \/ Wrote("rollback effect verified", cur', "rbcheck")
                \/ Moved("restore")
          \/ Moved("rbcheck")
    BY <1>22, RecordingSteps
  <2>2. /\ cur' \in affected /\ cur' \in Entries
        /\ UNCHANGED <<blobs, affected, at>> /\ pc = "rbcheck"
        /\ Logged(journal, "apply effect pending", cur')
    <3>1. cur' = Last(todo) /\ todo # {}
      BY <1>22 DEF RollbackPending
    <3>2. Last(todo) \in todo
      BY <1>b, <3>1, LastOfEntries
    <3> QED
      BY <1>22, <1>a, <1>b, <3>1, <3>2 DEF RollbackPending, LogOrder
  <2>3. CASE journal' = journal
    <3>1. /\ pc' \in {"require", "restore", "rbcheck"}
          /\ pc' = "restore" =>
                Logged(journal, "rollback effect pending", cur')
      BY <2>1, <2>3 DEF Wrote, Moved, Noted
    <3>2. LogOrder'
      BY <1>a, <2>2, <2>3 DEF LogOrder
    <3>3. LogAtPc'
      BY <1>a, <2>2, <2>3, <3>1 DEF LogAtPc, EntryPcs, Restoring
    <3> QED
      BY <3>2, <3>3 DEF LogAhead
  <2>4. CASE journal' # journal
    <3>1. PICK kind \in {"rollback effect pending", "rollback effect verified"} :
             /\ \A k, f : Logged(journal', k, f)
                            <=> \/ Logged(journal, k, f)
                                \/ k = kind /\ f = cur'
             /\ kind = "rollback effect verified" =>
                   /\ pc' \in {"rbcheck", "require"}
                   /\ Logged(journal, "rollback effect pending", cur')
             /\ pc' \in {"restore", "rbverify", "rbcheck", "require"}
      BY <2>1, <2>4 DEF Wrote, Moved, Noted
    <3>2. LogOrder'
      BY <1>a, <2>2, <3>1 DEF LogOrder
    <3>3. LogAtPc'
      BY <1>a, <2>2, <3>1 DEF LogAtPc
    <3> QED
      BY <3>2, <3>3 DEF LogAhead
  <2> QED
    BY <2>3, <2>4
<1>23. ASSUME RestoreEntry PROVE LogAhead'
  BY <1>23, <1>a, <1>b
     DEF RestoreEntry, GoTo, Rest, LogAhead, LogOrder, LogAtPc, PhaseAtPc,
         phase, Phases, EntryPcs, LoopPcs, UndoPcs, Publishing, Restoring
<1>24. ASSUME RemoveParent PROVE LogAhead'
  BY <1>24, <1>a, <1>b
     DEF RemoveParent, TryRmdir, Rest, loop, LogAhead, LogOrder, LogAtPc,
         PhaseAtPc, phase, Phases, EntryPcs, LoopPcs, UndoPcs, Publishing,
         Restoring
<1>25. ASSUME RollbackVerified PROVE LogAhead'
  <2>1. Wrote("rollback effect verified", cur, "rbcheck")
    BY <1>25, RecordingSteps
  <2>2. CASE journal' = journal
    BY <1>25, <2>1, <2>2, <1>a, <1>b
       DEF RollbackVerified, Wrote, Moved, Noted, GoTo, GiveUp, Rest, loop,
           LogAhead, LogOrder, LogAtPc, PhaseAtPc, phase, Phases, EntryPcs,
           LoopPcs, UndoPcs, Publishing, Restoring
  <2>3. CASE journal' # journal
    <3>1. Noted("rollback effect verified", cur) /\ pc' \in {"rbcheck", "require"}
      BY <2>1, <2>3 DEF Wrote
    <3>2. /\ Follows("rollback effect verified", cur)
          /\ UNCHANGED <<blobs, affected, cur>>
      BY <1>25, <1>a
         DEF Follows, RollbackVerified, GoTo, GiveUp, Rest, loop, LogAtPc,
             PhaseAtPc, EntryPcs, Publishing, Restoring
    <3>3. LogOrder'
      BY <1>a, <3>1, <3>2, OrderKept
    <3>4. LogAtPc'
      BY <1>25, <1>a, <3>1, <3>2
         DEF RollbackVerified, Noted, LogAtPc, EntryPcs, Publishing, Restoring
    <3> QED
      BY <3>3, <3>4 DEF LogAhead
  <2> QED
    BY <2>2, <2>3
<1>26. ASSUME RollbackFinal PROVE LogAhead'
  <2>1. Wrote("rollback index digest rechecked", 0, "rbdone")
    BY <1>26, RecordingSteps
  <2>2. CASE journal' = journal
    BY <1>26, <2>1, <2>2, <1>a, <1>b
       DEF RollbackFinal, Wrote, Moved, Noted, GoTo, GiveUp, Rest, loop,
           LogAhead, LogOrder, LogAtPc, PhaseAtPc, phase, Phases, EntryPcs,
           LoopPcs, UndoPcs, Publishing, Restoring
  <2>3. CASE journal' # journal
    <3>1. Noted("rollback index digest rechecked", 0) /\ pc' \in {"rbdone", "require"}
      BY <2>1, <2>3 DEF Wrote
    <3>2. /\ Follows("rollback index digest rechecked", 0)
          /\ UNCHANGED <<blobs, affected, cur>>
      BY <1>26, <1>a
         DEF Follows, RollbackFinal, GoTo, GiveUp, Rest, loop, LogAtPc
    <3>3. LogOrder'
      BY <1>a, <3>1, <3>2, OrderKept
    <3>4. LogAtPc'
      BY <1>26, <1>a, <3>1, <3>2
         DEF RollbackFinal, Noted, LogAtPc, EntryPcs, Publishing, Restoring
    <3> QED
      BY <3>3, <3>4 DEF LogAhead
  <2> QED
    BY <2>2, <2>3
<1>27. ASSUME RecordRolledBack PROVE LogAhead'
  <2>1. Wrote("ROLLED_BACK", 0, "returned")
    BY <1>27, RecordingSteps
  <2>2. CASE journal' = journal
    BY <1>27, <2>1, <2>2, <1>a, <1>b
       DEF RecordRolledBack, Wrote, Moved, Noted, GoTo, GiveUp, Rest, loop,
           LogAhead, LogOrder, LogAtPc, PhaseAtPc, phase, Phases, EntryPcs,
           LoopPcs, UndoPcs, Publishing, Restoring
  <2>3. CASE journal' # journal
    <3>1. Noted("ROLLED_BACK", 0) /\ pc' \in {"returned", "require"}
      BY <2>1, <2>3 DEF Wrote
    <3>2. /\ Follows("ROLLED_BACK", 0)
          /\ UNCHANGED <<blobs, affected, cur>>
      BY <1>27, <1>a
         DEF Follows, RecordRolledBack, GoTo, GiveUp, Rest, loop, LogAtPc
    <3>3. LogOrder'
      BY <1>a, <3>1, <3>2, OrderKept
    <3>4. LogAtPc'
      BY <1>27, <1>a, <3>1, <3>2
         DEF RecordRolledBack, Noted, LogAtPc, EntryPcs, Publishing, Restoring
    <3> QED
      BY <3>3, <3>4 DEF LogAhead
  <2> QED
    BY <2>2, <2>3
<1>28. ASSUME RequireRecovery PROVE LogAhead'
  <2>1. \/ Noted("RECOVERY_REQUIRED", 0) /\ Counted /\ pc' = "returned"
       \/ Moved("returned")
    BY <1>28, RecordingSteps
  <2>2. CASE journal' = journal
    BY <1>28, <2>1, <2>2, <1>a, <1>b
       DEF RequireRecovery, Wrote, Moved, Noted, GoTo, GiveUp, Rest, loop,
           LogAhead, LogOrder, LogAtPc, PhaseAtPc, phase, Phases, EntryPcs,
           LoopPcs, UndoPcs, Publishing, Restoring
  <2>3. CASE journal' # journal
    <3>1. Noted("RECOVERY_REQUIRED", 0) /\ pc' \in {"returned"}
      BY <2>1, <2>3 DEF Moved
    <3>2. /\ Follows("RECOVERY_REQUIRED", 0)
          /\ UNCHANGED <<blobs, affected, cur>>
      BY <1>28, <1>a
         DEF Follows, RequireRecovery, GoTo, GiveUp, Rest, loop, LogAtPc
    <3>3. LogOrder'
      BY <1>a, <3>1, <3>2, OrderKept
    <3>4. LogAtPc'
      BY <1>28, <1>a, <3>1, <3>2
         DEF RequireRecovery, Noted, LogAtPc, EntryPcs, Publishing, Restoring
    <3> QED
      BY <3>3, <3>4 DEF LogAhead
  <2> QED
    BY <2>2, <2>3
<1>29. ASSUME Resolve PROVE LogAhead'
  <2>1. /\ UNCHANGED <<journal, blobs, affected>>
        /\ pc' \in {"resolve", "classify", "require"}
    BY <1>29, ResolveMoves
  <2> QED
    BY <1>a, <2>1
       DEF LogAhead, LogOrder, LogAtPc, Publishing, Restoring, EntryPcs
<1>30. ASSUME Classify PROVE LogAhead'
  <2>1. affected' \subseteq {e \in Entries : NeedsRollback(e)} \/ affected' = affected
    BY <1>30 DEF Classify
  <2>2. \A e \in Entries : NeedsRollback(e) =>
           Logged(journal, "apply effect pending", e)
    BY <1>a DEF NeedsRollback, LogOrder
  <2>3. LogOrder'
    BY <1>30, <1>a, <2>1, <2>2 DEF Classify, LogOrder
  <2>4. LogAtPc'
    BY <1>30 DEF Classify, LogAtPc, EntryPcs, Publishing, Restoring
  <2> QED
    BY <2>3, <2>4 DEF LogAhead
<1>31. ASSUME Recover PROVE LogAhead'
  BY <1>31, <1>a, <1>b
     DEF Recover, Report, Rest, LogAhead, LogOrder, LogAtPc, PhaseAtPc, phase,
         Phases, EntryPcs, LoopPcs, UndoPcs, Publishing, Restoring
<1>32. ASSUME Replay PROVE LogAhead'
  BY <1>32, <1>a, <1>b
     DEF Replay, Report, Rest, loop, LogAhead, LogOrder, LogAtPc, PhaseAtPc,
         phase, Phases, EntryPcs, LoopPcs, UndoPcs, Publishing, Restoring
<1>33. ASSUME Crash PROVE LogAhead'
  BY <1>33, <1>a, <1>b
     DEF Crash, LogAhead, LogOrder, LogAtPc, PhaseAtPc, phase, Phases,
         EntryPcs, LoopPcs, UndoPcs, Publishing, Restoring
<1>34. ASSUME LeafFails PROVE LogAhead'
  <2>1. RunLeaf \/ LeafFails
    BY <1>34
  <2>2. UNCHANGED <<journal, pc, cur, blobs, affected>>
    BY <2>1, LeafMoves
  <2> QED
    BY <1>a, <2>2 DEF LogAhead, LogOrder, LogAtPc, Publishing, Restoring, phase
<1>35. ASSUME ResolveFails PROVE LogAhead'
  BY <1>35, <1>a, <1>b
     DEF ResolveFails, Fault, Rest, loop, LogAhead, LogOrder, LogAtPc,
         PhaseAtPc, phase, Phases, EntryPcs, LoopPcs, UndoPcs, Publishing,
         Restoring
<1>36. ASSUME MakeParentFails PROVE LogAhead'
  BY <1>36, <1>a, <1>b
     DEF MakeParentFails, Fault, Rest, LogAhead, LogOrder, LogAtPc, PhaseAtPc,
         phase, Phases, EntryPcs, LoopPcs, UndoPcs, Publishing, Restoring
<1>37. ASSUME ReadFails PROVE LogAhead'
  BY <1>37, <1>a, <1>b
     DEF ReadFails, Fault, Rest, LogAhead, LogOrder, LogAtPc, PhaseAtPc, phase,
         Phases, EntryPcs, LoopPcs, UndoPcs, Publishing, Restoring
<1>38. ASSUME VerifyReadFails PROVE LogAhead'
  BY <1>38, <1>a, <1>b
     DEF VerifyReadFails, Fault, Rest, LogAhead, LogOrder, LogAtPc, PhaseAtPc,
         phase, Phases, EntryPcs, LoopPcs, UndoPcs, Publishing, Restoring
<1>39. ASSUME NEW e \in Entries, UserEdits(e) PROVE LogAhead'
  <2>1. UNCHANGED <<journal, pc, cur, blobs, affected>>
    BY <1>39, EditMoves
  <2> QED
    BY <1>a, <2>1 DEF LogAhead, LogOrder, LogAtPc, Publishing, Restoring, phase
<1>40. ASSUME UserFillsDir PROVE LogAhead'
  BY <1>40, <1>a, <1>b
     DEF UserFillsDir, Edit, loop, LogAhead, LogOrder, LogAtPc, PhaseAtPc,
         phase, Phases, EntryPcs, LoopPcs, UndoPcs, Publishing, Restoring
<1>41. ASSUME NEW what \in {"index", "workspace"}, UserChanges(what)
       PROVE  LogAhead'
  BY <1>41, <1>a, <1>b
     DEF UserChanges, Edit, loop, LogAhead, LogOrder, LogAtPc, PhaseAtPc,
         phase, Phases, EntryPcs, LoopPcs, UndoPcs, Publishing, Restoring
<1>42. ASSUME UNCHANGED vars PROVE LogAhead'
  BY <1>42, <1>a, <1>b
     DEF vars, disks, budget, loop, LogAhead, LogOrder, LogAtPc, PhaseAtPc,
         phase, Phases, EntryPcs, LoopPcs, UndoPcs, Publishing, Restoring
<1> QED
  BY <1>1, <1>2, <1>3, <1>4, <1>5, <1>6, <1>7, <1>8, <1>9, <1>10, <1>11, <1>12,
     <1>13, <1>14, <1>15, <1>16, <1>17, <1>18, <1>19, <1>20, <1>21, <1>22,
     <1>23, <1>24, <1>25, <1>26, <1>27, <1>28, <1>29, <1>30, <1>31, <1>32,
     <1>33, <1>34, <1>35, <1>36, <1>37, <1>38, <1>39, <1>40, <1>41, <1>42
     DEF Next, ApplyStep, RollbackStep, Failure, User

-----------------------------------------------------------------------------
(* Write-ahead logging.                                                    *)

(* The steps that change what is in the target.                            *)
LEMMA TargetSteps ==
  ASSUME [Next]_vars
  PROVE  \/ UNCHANGED <<disk, dir>>
         \/ RunLeaf \/ LeafFails \/ Resolve
         \/ \E e \in Entries : UserEdits(e)
         \/ /\ UNCHANGED disk
            /\ \/ MakeParent \/ MakeParentFails \/ Cleanup \/ RemoveParent
               \/ UserFillsDir
<1>1. ASSUME Begin \/ Recover \/ Replay \/ UNCHANGED vars
      PROVE  UNCHANGED <<disk, dir>>
  BY <1>1 DEF Begin, Recover, Replay, vars, disks
<1>2. ASSUME ApplyStep
      PROVE  \/ UNCHANGED <<disk, dir>> \/ RunLeaf
             \/ UNCHANGED disk /\ (MakeParent \/ Cleanup)
  BY <1>2
     DEF ApplyStep, WritePlan, WriteHeader, BackupPending, BackupVerified,
         BackupReady, StartApplying, ApplyPending, MakeParent, OpenLeaf,
         LeafReturns, Cleanup, CreatedParent, ApplyVerified, FinalVerification,
         RecheckChangeset, RecheckIndex, RecordApplied
<1>3. ASSUME RollbackStep
      PROVE  \/ UNCHANGED <<disk, dir>> \/ Resolve
             \/ UNCHANGED disk /\ RemoveParent
  BY <1>3
     DEF RollbackStep, StartRollback, RollbackDone, RollbackPending,
         RestoreEntry, RemoveParent, RollbackVerified, RollbackFinal,
         RecordRolledBack, RequireRecovery, Classify
<1>4. ASSUME Failure
      PROVE  \/ UNCHANGED <<disk, dir>> \/ LeafFails
             \/ UNCHANGED disk /\ MakeParentFails
  BY <1>4
     DEF Failure, Crash, ResolveFails, MakeParentFails, ReadFails,
         VerifyReadFails
<1>5. ASSUME User
      PROVE  \/ UNCHANGED <<disk, dir>> \/ \E e \in Entries : UserEdits(e)
             \/ UNCHANGED disk /\ UserFillsDir
  BY <1>5 DEF User, UserFillsDir, UserChanges
<1> QED
  BY <1>1, <1>2, <1>3, <1>4, <1>5 DEF Next

(* Nothing is forgotten: no record leaves the log, no payload the          *)
(* transaction directory.                                                  *)
LEMMA LogGrows ==
  ASSUME CoreInv, [Next]_vars
  PROVE  /\ \A k, f : Logged(journal, k, f) => Logged(journal', k, f)
         /\ blobs = Entries => blobs' = Entries
<1>1. journal' = journal \/ \E kind, e : Noted(kind, e)
  BY RecordStep DEF Continues
<1>2. \A k, f : Logged(journal, k, f) => Logged(journal', k, f)
  BY <1>1 DEF Noted
<1>3. blobs' = blobs \/ blobs' = blobs \cup {cur}
  <2>1. ASSUME Begin \/ Recover \/ Replay \/ UNCHANGED vars
        PROVE  blobs' = blobs
    BY <2>1 DEF Begin, Recover, Replay, vars, disks
  <2>2. ASSUME ApplyStep
        PROVE  blobs' = blobs \/ blobs' = blobs \cup {cur}
    BY <2>2
       DEF ApplyStep, WritePlan, WriteHeader, BackupPending, BackupVerified,
           BackupReady, StartApplying, ApplyPending, MakeParent, OpenLeaf,
           RunLeaf, LeafReturns, Cleanup, CreatedParent, ApplyVerified,
           FinalVerification, RecheckChangeset, RecheckIndex, RecordApplied
  <2>3. ASSUME RollbackStep \/ Failure \/ User
        PROVE  blobs' = blobs
    BY <2>3
       DEF RollbackStep, StartRollback, RollbackDone, RollbackPending,
           RestoreEntry, RemoveParent, RollbackVerified, RollbackFinal,
           RecordRolledBack, RequireRecovery, Resolve, Classify, Failure,
           Crash, LeafFails, ResolveFails, MakeParentFails, ReadFails,
           VerifyReadFails, User, UserEdits, UserFillsDir, UserChanges
  <2> QED
    BY <2>1, <2>2, <2>3 DEF Next
<1>4. cur \in Entries
  BY DEF CoreInv, TypeOK
<1> QED
  BY <1>2, <1>3, <1>4

(* What a step puts into the target was announced in the log.              *)
LEMMA TouchStep ==
  ASSUME CoreInv, [Next]_vars, NEW e \in Entries, Touched(e)'
  PROVE  Touched(e) \/ Logged(journal, "apply effect pending", e)
<1>a. LogOrder /\ LogAtPc /\ PhaseAtPc /\ cur \in Entries
  BY DEF CoreInv, LogAhead, TypeOK
<1>1. CASE UNCHANGED <<disk, dir>>
  BY <1>1 DEF Touched, NoArtifacts
<1>2. CASE RunLeaf \/ LeafFails
  <2>1. /\ pc = "leaf" /\ UNCHANGED dir
        /\ \A f \in Entries \ {cur} : disk'[f] = disk[f]
    BY <1>2, LeafMoves
  <2>2. Logged(journal, "apply effect pending", cur)
    BY <1>a, <2>1 DEF LogOrder, LogAtPc, PhaseAtPc, Publishing, Restoring
  <2> QED
    BY <2>1, <2>2 DEF Touched, NoArtifacts
<1>3. CASE Resolve
  <2>1. /\ UNCHANGED dir
        /\ \A f \in Entries \ {cur} : disk'[f] = disk[f]
        /\ disk'[cur].quar # "absent" => disk[cur].quar # "absent"
        /\ disk'[cur].temp # NoTemp => disk[cur].temp # NoTemp
        /\ disk'[cur].name # disk[cur].name => disk[cur].quar # "absent"
    BY <1>3, ResolveMoves DEF Resolves
  <2> QED
    BY <2>1 DEF Touched, NoArtifacts
<1>4. CASE \E f \in Entries : UserEdits(f)
  <2>1. PICK f \in Entries : UserEdits(f)
    BY <1>4
  <2>2. /\ \A g \in Entries \ {f} : disk'[g] = disk[g]
        /\ disk'[f].name \in {"user", "absent"}
        /\ disk'[f].quar = disk[f].quar /\ disk'[f].temp = disk[f].temp
        /\ UNCHANGED dir
    BY <2>1, EditMoves
  <2> QED
    BY <2>2 DEF Touched, NoArtifacts
<1>5. CASE UNCHANGED disk /\ (MakeParent \/ MakeParentFails)
  <2>1. pc = "mkdir"
    BY <1>5 DEF MakeParent, MakeParentFails
  <2>2. cur = Owner /\ Logged(journal, "apply effect pending", Owner)
    BY <1>a, <2>1 DEF LogAtPc, Publishing, EntryPcs
  <2> QED
    BY <1>5, <2>2 DEF Touched, NoArtifacts
<1>6. CASE UNCHANGED disk /\ (Cleanup \/ RemoveParent \/ UserFillsDir)
  <2>1. dir' \in {"ours", "populated"} => dir \in {"ours", "populated"}
    BY <1>6 DEF Cleanup, RemoveParent, TryRmdir, UserFillsDir
  <2> QED
    BY <1>6, <2>1 DEF Touched, NoArtifacts
<1> QED
  BY <1>1, <1>2, <1>3, <1>4, <1>5, <1>6, TargetSteps

LEMMA WriteAheadStep ==
  ASSUME CoreInv, [Next]_vars
  PROVE  WriteAhead'
<1>1. ASSUME NEW e \in Entries, Touched(e)'
      PROVE  blobs' = Entries /\ Logged(journal', "apply effect pending", e)
  <2>1. Logged(journal, "apply effect pending", e)
    BY <1>1, TouchStep DEF CoreInv, WriteAhead
  <2>2. blobs = Entries
    BY <2>1 DEF CoreInv, LogAhead, LogOrder
  <2> QED
    BY <2>1, <2>2, LogGrows
<1> QED
  BY <1>1 DEF WriteAhead

-----------------------------------------------------------------------------
(* No torn leaf.                                                           *)

(* The steps that leave the coordinator inside a leaf effect.              *)
LEMMA LeafSteps ==
  ASSUME CoreInv, [Next]_vars, pc' = "leaf"
  PROVE  \/ RunLeaf \/ LeafFails \/ OpenLeaf \/ RestoreEntry
         \/ MakeParentFails \/ (ReadFails /\ pc = "open")
         \/ User \/ UNCHANGED vars
<1>1. /\ ~WriteHeader /\ ~BackupPending /\ ~BackupVerified /\ ~BackupReady
      /\ ~StartApplying /\ ~CreatedParent /\ ~RecheckChangeset
      /\ ~RecheckIndex /\ ~RecordApplied
  BY RecordingSteps DEF Wrote
<1>2. /\ ~StartRollback /\ ~RollbackVerified /\ ~RollbackFinal
      /\ ~RecordRolledBack /\ ~RequireRecovery
  BY RecordingSteps DEF Wrote, Moved
<1>3. ~ApplyPending /\ ~ApplyVerified /\ ~RollbackPending
  BY RecordingSteps DEF Wrote, Moved
<1>4. /\ ~Begin /\ ~Recover /\ ~Replay /\ ~Crash /\ ~ResolveFails
      /\ ~VerifyReadFails
  BY DEF Begin, GoTo, Recover, Replay, Report, Crash, ResolveFails,
         VerifyReadFails
<1>5. /\ ~WritePlan /\ ~MakeParent /\ ~LeafReturns /\ ~Cleanup
      /\ ~FinalVerification
  BY DEF WritePlan, MakeParent, LeafReturns, Cleanup, FinalVerification, GoTo
<1>6. ~RollbackDone /\ ~RemoveParent /\ ~Classify
  BY DEF RollbackDone, RemoveParent, Classify, GoTo
<1>7. ~Resolve
  <2>1. SUFFICES ASSUME Resolve PROVE FALSE
    OBVIOUS
  <2>2. pc' \in {"resolve", "classify", "require"}
    BY <2>1, ResolveMoves
  <2> QED
    BY <2>2
<1>8. ReadFails => pc = "open"
  BY DEF ReadFails
<1> QED
  BY <1>1, <1>2, <1>3, <1>4, <1>5, <1>6, <1>7, <1>8
     DEF Next, ApplyStep, RollbackStep, Failure

(* Every step leaves whole leaves, and publishes only complete files.      *)
LEMMA UntornStep ==
  ASSUME CoreInv, [Next]_vars
  PROVE  Untorn'
<1>a. cur \in Entries /\ PhaseAtPc /\ Untorn
  BY DEF CoreInv, TypeOK
<1>1. ASSUME NEW e \in Entries
      PROVE  Whole(disk'[e])
  <2>1. CASE UNCHANGED disk
    BY <1>a, <2>1 DEF Untorn
  <2>2. CASE RunLeaf \/ LeafFails
    BY <1>a, <2>2, LeafMoves DEF Untorn
  <2>3. CASE Resolve
    <3>1. /\ \A f \in Entries \ {cur} : disk'[f] = disk[f]
          /\ Whole(disk'[cur])
      BY <2>3, ResolveMoves DEF Resolves
    <3> QED
      BY <1>a, <3>1 DEF Untorn
  <2>4. ASSUME NEW f \in Entries, UserEdits(f)
        PROVE  Whole(disk'[e])
    <3>1. /\ \A g \in Entries \ {f} : disk'[g] = disk[g]
          /\ disk'[f].name \in {"user", "absent"}
          /\ disk'[f].quar = disk[f].quar
      BY <2>4, EditMoves
    <3> QED
      BY <1>a, <3>1 DEF Untorn, Whole
  <2> QED
    BY <2>1, <2>2, <2>3, <2>4, TargetSteps
<1>2. ASSUME pc' = "leaf"
      PROVE  Ready(disk'[cur'], at', Desired(cur)')
  <2>1. UNCHANGED <<journal, cur>> => Desired(cur)' = Desired(cur)
    BY DEF Desired, phase
  <2>2. CASE RunLeaf \/ LeafFails
    BY <2>1, <2>2, LeafMoves
  <2>3. CASE OpenLeaf
    <3>1. /\ UNCHANGED <<journal, cur>> /\ phase = "APPLYING"
          /\ \/ at' = "uncertain"
             \/ at' = LeafStart(disk[cur], Original(cur))
      BY <1>a, <2>3 DEF OpenLeaf, GoTo, PhaseAtPc, EntryPcs
    <3>2. at' = "create" => Original(cur) = "absent"
      BY <3>1 DEF LeafStart
    <3>3. Desired(cur) = New(cur)
      BY <3>1 DEF Desired
    <3>4. at' \in {"link", "create", "uncertain"}
      BY <3>1 DEF LeafStart
    <3> QED
      BY <1>a, <2>1, <3>1, <3>2, <3>3, <3>4, OriginalAndNew DEF Ready
  <2>4. CASE RestoreEntry
    <3>1. /\ UNCHANGED <<journal, cur>> /\ phase = "ROLLING_BACK"
          /\ at' = LeafStart(disk[cur], New(cur))
      BY <1>2, <1>a, <2>4 DEF RestoreEntry, GoTo, PhaseAtPc, UndoPcs
    <3>2. at' = "create" => New(cur) = "absent"
      BY <3>1 DEF LeafStart
    <3>3. Desired(cur) = Original(cur)
      BY <3>1 DEF Desired
    <3>4. at' \in {"link", "create", "uncertain"}
      BY <3>1 DEF LeafStart
    <3> QED
      BY <1>a, <2>1, <3>1, <3>2, <3>3, <3>4, OriginalAndNew DEF Ready
  <2>5. CASE MakeParentFails \/ (ReadFails /\ pc = "open")
    <3>1. at' = "failed"
      BY <2>5 DEF MakeParentFails, ReadFails
    <3> QED
      BY <3>1 DEF Ready
  <2>6. CASE User \/ UNCHANGED vars
    <3>1. UNCHANGED <<journal, pc, cur, at>>
      BY <2>6 DEF User, UserEdits, UserFillsDir, UserChanges, vars, disks, loop
    <3>2. disk'[cur].temp = disk[cur].temp
      <4>1. CASE UNCHANGED disk
        BY <4>1
      <4>2. ASSUME NEW f \in Entries, UserEdits(f)
            PROVE  disk'[cur].temp = disk[cur].temp
        BY <1>a, <4>2, EditMoves
      <4> QED
        BY <2>6, <4>1, <4>2 DEF User, UserFillsDir, UserChanges, vars, disks
    <3>3. Ready(disk[cur], at, Desired(cur))
      BY <1>2, <1>a, <3>1 DEF Untorn
    <3> QED
      BY <2>1, <3>1, <3>2, <3>3 DEF Ready
  <2> QED
    BY <1>2, <2>2, <2>3, <2>4, <2>5, <2>6, LeafSteps
<1> QED
  BY <1>1, <1>2 DEF Untorn

-----------------------------------------------------------------------------
(* Bystanders and outcomes.                                                *)

(* The entries the transaction is not working on, nor has worked on.       *)
Clear(e) ==
    \/ pc \in EarlyPcs
    \/ e \notin affected /\ (pc \in LoopPcs \cup UndoPcs \/ Restoring)
    \/ e \notin affected \cup {cur} /\ Publishing

(* What shows that an entry is: a look at its target, or the log.          *)
Cleared(e) ==
    /\ disk' = disk
    /\ \/ /\ pc \in {"verify", "cleanup"} /\ e = cur
          /\ disk[cur].name = Original(cur)
       \/ /\ pc = "classify" /\ ~NeedsRollback(e)
          /\ \A f \in Entries : Classifiable(f)
ClearsOnly == \A e \in Entries : Clear(e)' => Clear(e) \/ Cleared(e)

(* An entry comes to be clear only so.                                     *)
LEMMA ClearStep ==
  ASSUME CoreInv, [Next]_vars
  PROVE  ClearsOnly
<1>a. PhaseAtPc /\ cur \in Entries
  BY DEF CoreInv, TypeOK
<1>1. ASSUME Begin PROVE ClearsOnly
  BY <1>1, <1>a
     DEF Begin, GoTo, loop, ClearsOnly, Clear, PhaseAtPc, EarlyPcs, LoopPcs
<1>2. ASSUME WritePlan PROVE ClearsOnly
  BY <1>2, <1>a
     DEF WritePlan, GoTo, Rest, loop, ClearsOnly, Clear, PhaseAtPc, EarlyPcs,
         LoopPcs
<1>3. ASSUME WriteHeader PROVE ClearsOnly
  <2>1. Wrote("PREPARING", 0, "backup")
    BY <1>3, RecordingSteps
  <2> QED
    BY <1>3, <1>a, <2>1
       DEF WriteHeader, Wrote, Moved, Noted, Rest, loop, ClearsOnly, Clear,
           PhaseAtPc, EarlyPcs
<1>4. ASSUME BackupPending PROVE ClearsOnly
  <2>1. Wrote("backup pending", cur, "backup2")
    BY <1>4, RecordingSteps
  <2> QED
    BY <1>4, <1>a, <2>1
       DEF BackupPending, Wrote, Moved, Noted, Rest, loop, ClearsOnly, Clear,
           PhaseAtPc, EarlyPcs
<1>5. ASSUME BackupVerified PROVE ClearsOnly
  <2>1. Wrote("backup verified", cur, IF cur = N THEN "ready" ELSE "backup")
    BY <1>5, RecordingSteps
  <2> QED
    BY <1>5, <1>a, <2>1
       DEF BackupVerified, Wrote, Moved, Noted, GiveUp, GoTo, Rest, ClearsOnly,
           Clear, PhaseAtPc, EarlyPcs
<1>6. ASSUME BackupReady PROVE ClearsOnly
  <2>1. Wrote("BACKUP_READY", 0, "applying")
    BY <1>6, RecordingSteps
  <2> QED
    BY <1>6, <1>a, <2>1
       DEF BackupReady, Wrote, Moved, Noted, Rest, loop, ClearsOnly, Clear,
           PhaseAtPc, EarlyPcs
<1>7. ASSUME StartApplying PROVE ClearsOnly
  <2>1. Wrote("APPLYING", 0, "check")
    BY <1>7, RecordingSteps
  <2> QED
    BY <1>7, <1>a, <2>1
       DEF StartApplying, Wrote, Moved, Noted, Rest, loop, ClearsOnly, Clear,
           PhaseAtPc, EarlyPcs
<1>8. ASSUME ApplyPending PROVE ClearsOnly
  <2>1. \/ Wrote("apply effect pending", cur,
                IF cur = Owner THEN "mkdir" ELSE "open")
       \/ Moved("rolling")
    BY <1>8, RecordingSteps
  <2> QED
    BY <1>8, <1>a, <2>1
       DEF ApplyPending, Wrote, Moved, Noted, GoTo, Rest, ClearsOnly, Clear,
           PhaseAtPc, EarlyPcs, LoopPcs, UndoPcs, EntryPcs
<1>9. ASSUME MakeParent PROVE ClearsOnly
  BY <1>9, <1>a
     DEF MakeParent, GoTo, Rest, ClearsOnly, Clear, PhaseAtPc, EarlyPcs,
         LoopPcs, UndoPcs, EntryPcs, Restoring, Publishing
<1>10. ASSUME OpenLeaf PROVE ClearsOnly
  BY <1>10, <1>a
     DEF OpenLeaf, GoTo, Rest, ClearsOnly, Clear, PhaseAtPc, EarlyPcs, LoopPcs,
         UndoPcs, EntryPcs, Restoring, Publishing, phase
<1>11. ASSUME RunLeaf PROVE ClearsOnly
  <2>1. RunLeaf \/ LeafFails
    BY <1>11
  <2>2. UNCHANGED <<journal, pc, cur, affected>>
    BY <2>1, LeafMoves
  <2> QED
    BY <2>2 DEF ClearsOnly, Clear, Restoring, Publishing, phase
<1>12. ASSUME LeafReturns PROVE ClearsOnly
  BY <1>12, <1>a
     DEF LeafReturns, GoTo, Rest, loop, ClearsOnly, Clear, PhaseAtPc, EarlyPcs,
         LoopPcs, UndoPcs, EntryPcs, Restoring, Publishing
<1>13. ASSUME Cleanup PROVE ClearsOnly
  <2>1. /\ pc = "cleanup" /\ disk' = disk
        /\ pc' \in {"rolling", "require"}
        /\ affected \subseteq affected'
        /\ cur \notin affected' =>
              pc' = "require" \/ disk[cur].name = Original(cur)
    BY <1>13 DEF Cleanup, Matches
  <2> QED
    BY <2>1
       DEF ClearsOnly, Clear, Cleared, EarlyPcs, LoopPcs, UndoPcs, EntryPcs,
           Restoring, Publishing
<1>14. ASSUME CreatedParent PROVE ClearsOnly
  <2>1. Wrote("created parent", cur, "verify")
    BY <1>14, RecordingSteps
  <2> QED
    BY <1>14, <1>a, <2>1
       DEF CreatedParent, Wrote, Moved, Noted, Rest, ClearsOnly, Clear,
           PhaseAtPc, EarlyPcs, LoopPcs, UndoPcs, EntryPcs, Restoring,
           Publishing
<1>15. ASSUME ApplyVerified PROVE ClearsOnly
  <2>1. /\ pc = "verify" /\ disk' = disk
        /\ pc' \in {"final", "check", "rolling", "require"}
        /\ affected \subseteq affected'
        /\ cur \notin affected' =>
              pc' = "require" \/ disk[cur].name = Original(cur)
    <3>1. pc' \in {"final", "check", "rolling", "require"}
      BY <1>15, RecordingSteps DEF Wrote, Moved
    <3> QED
      BY <1>15, <3>1 DEF ApplyVerified, Matches, GoTo, GiveUp
  <2> QED
    BY <2>1
       DEF ClearsOnly, Clear, Cleared, EarlyPcs, LoopPcs, UndoPcs, EntryPcs,
           Restoring, Publishing
<1>16. ASSUME FinalVerification PROVE ClearsOnly
  BY <1>16, <1>a
     DEF FinalVerification, GoTo, Rest, loop, ClearsOnly, Clear, PhaseAtPc,
         EarlyPcs, LoopPcs
<1>17. ASSUME RecheckChangeset PROVE ClearsOnly
  <2>1. Wrote("change set digest rechecked", 0, "reindex")
    BY <1>17, RecordingSteps
  <2> QED
    BY <1>17, <1>a, <2>1
       DEF RecheckChangeset, Wrote, Moved, Noted, GiveUp, GoTo, Rest, loop,
           ClearsOnly, Clear, PhaseAtPc, EarlyPcs, LoopPcs, UndoPcs, EntryPcs
<1>18. ASSUME RecheckIndex PROVE ClearsOnly
  <2>1. Wrote("index digest rechecked", 0, "applied")
    BY <1>18, RecordingSteps
  <2> QED
    BY <1>18, <1>a, <2>1
       DEF RecheckIndex, Wrote, Moved, Noted, GiveUp, GoTo, Rest, loop,
           ClearsOnly, Clear, PhaseAtPc, EarlyPcs, LoopPcs, UndoPcs, EntryPcs
<1>19. ASSUME RecordApplied PROVE ClearsOnly
  <2>1. Wrote("APPLIED", 0, "returned")
    BY <1>19, RecordingSteps
  <2> QED
    BY <1>19, <1>a, <2>1
       DEF RecordApplied, Wrote, Moved, Noted, Rest, loop, ClearsOnly, Clear,
           PhaseAtPc, EarlyPcs, LoopPcs, UndoPcs, EntryPcs
<1>20. ASSUME StartRollback PROVE ClearsOnly
  <2>1. Wrote("ROLLING_BACK", 0, "rbcheck")
    BY <1>20, RecordingSteps
  <2> QED
    BY <1>20, <1>a, <2>1
       DEF StartRollback, Wrote, Moved, Noted, Rest, loop, ClearsOnly, Clear,
           PhaseAtPc, EarlyPcs, LoopPcs, UndoPcs, EntryPcs
<1>21. ASSUME RollbackDone PROVE ClearsOnly
  BY <1>21, <1>a
     DEF RollbackDone, GoTo, Rest, loop, ClearsOnly, Clear, PhaseAtPc,
         EarlyPcs, LoopPcs, UndoPcs, EntryPcs, Restoring
<1>22. ASSUME RollbackPending PROVE ClearsOnly
  <2>1. \/ Wrote("rollback effect pending", cur', "restore")
       \/ Wrote("rollback effect pending", cur', "rbverify")
       \/ /\ Logged(journal, "rollback effect pending", cur')
          /\ \/ Wrote("rollback effect verified", cur', "rbcheck")
             \/ Moved("restore")
       \/ Moved("rbcheck")
    BY <1>22, RecordingSteps
  <2> QED
    BY <1>22, <1>a, <2>1
       DEF RollbackPending, Wrote, Moved, Noted, Rest, ClearsOnly, Clear,
           PhaseAtPc, EarlyPcs, LoopPcs, UndoPcs, EntryPcs
<1>23. ASSUME RestoreEntry PROVE ClearsOnly
  BY <1>23, <1>a
     DEF RestoreEntry, GoTo, Rest, ClearsOnly, Clear, PhaseAtPc, EarlyPcs,
         LoopPcs, UndoPcs, EntryPcs, Restoring
<1>24. ASSUME RemoveParent PROVE ClearsOnly
  BY <1>24, <1>a
     DEF RemoveParent, TryRmdir, Rest, loop, ClearsOnly, Clear, PhaseAtPc,
         EarlyPcs, LoopPcs, UndoPcs, EntryPcs, Restoring
<1>25. ASSUME RollbackVerified PROVE ClearsOnly
  <2>1. Wrote("rollback effect verified", cur, "rbcheck")
    BY <1>25, RecordingSteps
  <2> QED
    BY <1>25, <1>a, <2>1
       DEF RollbackVerified, Wrote, Moved, Noted, GiveUp, GoTo, Rest,
           ClearsOnly, Clear, PhaseAtPc, EarlyPcs, LoopPcs, UndoPcs, EntryPcs
<1>26. ASSUME RollbackFinal PROVE ClearsOnly
  <2>1. Wrote("rollback index digest rechecked", 0, "rbdone")
    BY <1>26, RecordingSteps
  <2> QED
    BY <1>26, <1>a, <2>1
       DEF RollbackFinal, Wrote, Moved, Noted, GiveUp, GoTo, Rest, loop,
           ClearsOnly, Clear, PhaseAtPc, EarlyPcs, LoopPcs, UndoPcs, EntryPcs
<1>27. ASSUME RecordRolledBack PROVE ClearsOnly
  <2>1. Wrote("ROLLED_BACK", 0, "returned")
    BY <1>27, RecordingSteps
  <2> QED
    BY <1>27, <1>a, <2>1
       DEF RecordRolledBack, Wrote, Moved, Noted, Rest, loop, ClearsOnly,
           Clear, PhaseAtPc, EarlyPcs, LoopPcs, UndoPcs, EntryPcs
<1>28. ASSUME RequireRecovery PROVE ClearsOnly
  <2>1. \/ Noted("RECOVERY_REQUIRED", 0) /\ Counted /\ pc' = "returned"
       \/ Moved("returned")
    BY <1>28, RecordingSteps
  <2> QED
    BY <1>28, <1>a, <2>1
       DEF RequireRecovery, Wrote, Moved, Noted, GoTo, Rest, loop, ClearsOnly,
           Clear, PhaseAtPc, EarlyPcs, LoopPcs, UndoPcs, EntryPcs, Restoring,
           Publishing
<1>29. ASSUME Resolve PROVE ClearsOnly
  <2>1. pc' \in {"resolve", "classify", "require"}
    BY <1>29, ResolveMoves
  <2> QED
    BY <2>1
       DEF ClearsOnly, Clear, EarlyPcs, LoopPcs, UndoPcs, EntryPcs, Restoring,
           Publishing
<1>30. ASSUME Classify PROVE ClearsOnly
  <2>1. \/ pc' = "require"
        \/ /\ \A e \in Entries : Classifiable(e)
           /\ affected' = {e \in Entries : NeedsRollback(e)}
           /\ pc' \in {"rolling", "rbcheck"}
    BY <1>30 DEF Classify
  <2>2. pc = "classify" /\ disk' = disk
    BY <1>30 DEF Classify
  <2> QED
    BY <2>1, <2>2
       DEF ClearsOnly, Clear, Cleared, EarlyPcs, LoopPcs, UndoPcs, EntryPcs,
           Restoring, Publishing
<1>31. ASSUME Recover PROVE ClearsOnly
  BY <1>31, <1>a
     DEF Recover, Report, Rest, ClearsOnly, Clear, PhaseAtPc, EarlyPcs,
         LoopPcs, UndoPcs, EntryPcs, Restoring, Publishing
<1>32. ASSUME Replay PROVE ClearsOnly
  BY <1>32, <1>a
     DEF Replay, Report, Rest, loop, ClearsOnly, Clear, PhaseAtPc, EarlyPcs,
         LoopPcs, UndoPcs, EntryPcs, Restoring, Publishing
<1>33. ASSUME Crash PROVE ClearsOnly
  BY <1>33, <1>a
     DEF Crash, ClearsOnly, Clear, PhaseAtPc, EarlyPcs, LoopPcs, UndoPcs,
         EntryPcs, Restoring, Publishing
<1>34. ASSUME LeafFails PROVE ClearsOnly
  <2>1. RunLeaf \/ LeafFails
    BY <1>34
  <2>2. UNCHANGED <<journal, pc, cur, affected>>
    BY <2>1, LeafMoves
  <2> QED
    BY <2>2 DEF ClearsOnly, Clear, Restoring, Publishing, phase
<1>35. ASSUME ResolveFails PROVE ClearsOnly
  BY <1>35, <1>a
     DEF ResolveFails, Fault, Rest, loop, ClearsOnly, Clear, PhaseAtPc,
         EarlyPcs, LoopPcs, UndoPcs, EntryPcs, Restoring, Publishing
<1>36. ASSUME MakeParentFails PROVE ClearsOnly
  BY <1>36, <1>a
     DEF MakeParentFails, Fault, Rest, ClearsOnly, Clear, PhaseAtPc, EarlyPcs,
         LoopPcs, UndoPcs, EntryPcs, Restoring, Publishing, phase
<1>37. ASSUME ReadFails PROVE ClearsOnly
  BY <1>37, <1>a
     DEF ReadFails, Fault, Rest, ClearsOnly, Clear, PhaseAtPc, EarlyPcs,
         LoopPcs, UndoPcs, EntryPcs, Restoring, Publishing, phase
<1>38. ASSUME VerifyReadFails PROVE ClearsOnly
  <2>1. /\ pc = "verify" /\ disk' = disk
        /\ pc' \in {"rolling", "require"}
        /\ affected \subseteq affected'
        /\ cur \notin affected' =>
              pc' = "require" \/ disk[cur].name = Original(cur)
    BY <1>38 DEF VerifyReadFails, Matches
  <2> QED
    BY <2>1
       DEF ClearsOnly, Clear, Cleared, EarlyPcs, LoopPcs, UndoPcs, EntryPcs,
           Restoring, Publishing
<1>39. ASSUME NEW e \in Entries, UserEdits(e) PROVE ClearsOnly
  <2>1. UNCHANGED <<journal, pc, cur, affected>>
    BY <1>39, EditMoves
  <2> QED
    BY <2>1 DEF ClearsOnly, Clear, Restoring, Publishing, phase
<1>40. ASSUME UserFillsDir PROVE ClearsOnly
  BY <1>40, <1>a
     DEF UserFillsDir, Edit, loop, ClearsOnly, Clear, PhaseAtPc, EarlyPcs,
         LoopPcs, UndoPcs, EntryPcs, Restoring, Publishing, phase
<1>41. ASSUME NEW what \in {"index", "workspace"}, UserChanges(what)
       PROVE  ClearsOnly
  BY <1>41, <1>a
     DEF UserChanges, Edit, loop, ClearsOnly, Clear, PhaseAtPc, EarlyPcs,
         LoopPcs, UndoPcs, EntryPcs, Restoring, Publishing, phase
<1>42. ASSUME UNCHANGED vars PROVE ClearsOnly
  BY <1>42, <1>a
     DEF vars, disks, budget, loop, ClearsOnly, Clear, PhaseAtPc, EarlyPcs,
         LoopPcs, UndoPcs, EntryPcs, Restoring, Publishing, phase
<1> QED
  BY <1>1, <1>2, <1>3, <1>4, <1>5, <1>6, <1>7, <1>8, <1>9, <1>10, <1>11, <1>12,
     <1>13, <1>14, <1>15, <1>16, <1>17, <1>18, <1>19, <1>20, <1>21, <1>22,
     <1>23, <1>24, <1>25, <1>26, <1>27, <1>28, <1>29, <1>30, <1>31, <1>32,
     <1>33, <1>34, <1>35, <1>36, <1>37, <1>38, <1>39, <1>40, <1>41, <1>42
     DEF Next, ApplyStep, RollbackStep, Failure, User

(* Such an entry has its original target, and left no directory behind.    *)
LEMMA ClearedIsOriginal ==
  ASSUME CoreInv, NEW e \in Entries, Cleared(e)
  PROVE  /\ disk[e].name = Original(e)
         /\ pc = "classify" => ~ParentLeft(e)
<1>a. LogOrder
  BY DEF CoreInv, LogAhead
<1>1. CASE pc \in {"verify", "cleanup"}
  BY <1>1 DEF Cleared
<1>2. CASE pc = "classify"
  <2>1. Classifiable(e) /\ ~NeedsRollback(e)
    BY <1>2 DEF Cleared
  <2>2. Logged(journal, "rollback effect verified", e) =>
           Logged(journal, "rollback effect pending", e)
    BY <1>a DEF LogOrder
  <2>3. CASE Logged(journal, "rollback effect verified", e)
    BY <2>1, <2>2, <2>3 DEF Classifiable
  <2>4. CASE /\ ~Logged(journal, "rollback effect verified", e)
             /\ Logged(journal, "apply effect pending", e)
    BY <2>1, <2>4 DEF Classifiable, NeedsRollback
  <2>5. CASE /\ ~Logged(journal, "rollback effect verified", e)
             /\ ~Logged(journal, "apply effect pending", e)
    BY <1>a, <2>1, <2>5 DEF Classifiable, NeedsRollback
  <2> QED
    BY <2>3, <2>4, <2>5
<1> QED
  BY <1>1, <1>2 DEF Cleared

(* The edits of the user are only counted up.                              *)
LEMMA EditsGrow ==
  ASSUME CoreInv, [Next]_vars
  PROVE  edits \in Nat /\ (edits' = edits \/ edits' = edits + 1)
<1>1. edits \in Nat
  BY TransactionAssumption DEF CoreInv, TypeOK
<1>2. ASSUME Begin \/ Recover \/ Replay \/ UNCHANGED vars
      PROVE  edits' = edits
  BY <1>2 DEF Begin, Recover, Replay, vars, budget, Rest
<1>3. ASSUME ApplyStep
      PROVE  edits' = edits
  BY <1>3
     DEF ApplyStep, WritePlan, WriteHeader, BackupPending, BackupVerified,
         BackupReady, StartApplying, ApplyPending, MakeParent, OpenLeaf,
         RunLeaf, LeafReturns, Cleanup, CreatedParent, ApplyVerified,
         FinalVerification, RecheckChangeset, RecheckIndex, RecordApplied, Rest
<1>4. ASSUME RollbackStep \/ Failure
      PROVE  edits' = edits
  BY <1>4
     DEF RollbackStep, StartRollback, RollbackDone, RollbackPending,
         RestoreEntry, RemoveParent, RollbackVerified, RollbackFinal,
         RecordRolledBack, RequireRecovery, Resolve, Classify, Failure, Crash,
         LeafFails, ResolveFails, MakeParentFails, ReadFails, VerifyReadFails,
         Rest
<1>5. ASSUME User
      PROVE  edits' = edits + 1
  BY <1>5 DEF User, UserEdits, UserFillsDir, UserChanges, Edit
<1> QED
  BY <1>1, <1>2, <1>3, <1>4, <1>5 DEF Next

(* An entry that is spared stays so, unless a leaf effect or the           *)
(* resolution of its artifacts works on it.                                *)
LEMMA SparedStep ==
  ASSUME CoreInv, [Next]_vars, NEW e \in Entries, Spared(e), ~Resolve,
         RunLeaf \/ LeafFails => e # cur
  PROVE  Spared(e)'
<1>2. edits' = 0 => edits = 0
  BY EditsGrow
<1>3. CASE disk'[e] = disk[e]
  BY <1>2, <1>3 DEF Spared
<1>4. CASE RunLeaf \/ LeafFails
  BY <1>3, <1>4, LeafMoves
<1>5. ASSUME NEW f \in Entries, UserEdits(f)
      PROVE  Spared(e)'
  <2>1. CASE e = f
    <3>1. disk'[e].name \in {"user", "absent"} /\ edits' # 0
      BY <1>5, <2>1, EditMoves
    <3> QED
      BY <3>1 DEF Spared
  <2>2. CASE e # f
    BY <1>3, <1>5, <2>2, EditMoves
  <2> QED
    BY <2>1, <2>2
<1> QED
  BY <1>3, <1>4, <1>5, TargetSteps

(* No step disturbs a bystander.                                           *)
LEMMA BystandersStep ==
  ASSUME CoreInv, [Next]_vars
  PROVE  Bystanders'
<1>a. \A e \in Entries : Clear(e) => Spared(e)
  BY DEF CoreInv, Bystanders, Clear
<1>1. ASSUME NEW e \in Entries, Clear(e)'
      PROVE  Spared(e)'
  <2>1. Clear(e) \/ (disk[e].name = Original(e) /\ disk' = disk)
    BY <1>1, ClearStep, ClearedIsOriginal DEF ClearsOnly, Cleared
  <2>2. CASE disk[e].name = Original(e) /\ disk' = disk
    BY <2>2, OriginalAndNew DEF Spared
  <2>3. CASE Spared(e) /\ Clear(e)
    <3>1. ~Resolve
      <4>1. SUFFICES ASSUME Resolve PROVE FALSE
        OBVIOUS
      <4>2. pc' \in {"resolve", "classify", "require"}
        BY <4>1, ResolveMoves
      <4> QED
        BY <1>1, <4>2
           DEF Clear, EarlyPcs, LoopPcs, UndoPcs, EntryPcs, Restoring,
               Publishing
    <3>2. RunLeaf \/ LeafFails => e # cur
      <4>1. SUFFICES ASSUME RunLeaf \/ LeafFails PROVE e # cur
        OBVIOUS
      <4>2. pc = "leaf"
        BY <4>1 DEF RunLeaf, LeafFails
      <4>3. Restoring => cur \in affected
        BY DEF CoreInv, LogAhead, LogAtPc
      <4> QED
        BY <2>3, <4>2, <4>3 DEF Clear, EarlyPcs, LoopPcs, UndoPcs, Publishing
    <3> QED
      BY <2>3, <3>1, <3>2, SparedStep
  <2> QED
    BY <1>a, <2>1, <2>2, <2>3
<1>2. /\ pc' \in EarlyPcs => \A e \in Entries : Clear(e)'
      /\ pc' \in LoopPcs \cup UndoPcs \/ Restoring' =>
            \A e \in Entries \ affected' : Clear(e)'
      /\ Publishing' => \A e \in Entries \ (affected' \cup {cur'}) : Clear(e)'
  BY DEF Clear
<1> QED
  BY <1>1, <1>2 DEF Bystanders

(* How the coordinator comes to announce an outcome.                       *)
Announces ==
    /\ pc' = "rbdone" =>
          \/ pc = "rbdone"
          \/ /\ pc = "rbfinal" /\ UNCHANGED <<disk, dir>>
             /\ VerifyRestored(affected) /\ TransactionArtifactsAbsent
             /\ CreatedParentsRestored(affected)
    /\ phase' = "ROLLED_BACK" => phase = "ROLLED_BACK" \/ pc = "rbdone"
    /\ pc' \in {"recheck", "reindex", "applied"} =>
          \/ pc \in {"recheck", "reindex", "applied"}
          \/ disk' = disk /\ VerifyApplied /\ TransactionArtifactsAbsent
    /\ phase' = "APPLIED" => phase = "APPLIED" \/ pc = "applied"

(* Every step announces an outcome only so.                                *)
LEMMA AnnounceStep ==
  ASSUME CoreInv, [Next]_vars
  PROVE  Announces
<1>1. ASSUME Begin PROVE Announces
  BY <1>1 DEF Begin, GoTo, loop, Announces, phase
<1>2. ASSUME WritePlan PROVE Announces
  BY <1>2 DEF WritePlan, GoTo, Rest, loop, Announces, phase
<1>3. ASSUME WriteHeader PROVE Announces
  <2>1. Wrote("PREPARING", 0, "backup")
    BY <1>3, RecordingSteps
  <2> QED
    BY <1>3, <2>1
       DEF WriteHeader, Wrote, Moved, Noted, Phases, Rest, loop, Announces,
           phase
<1>4. ASSUME BackupPending PROVE Announces
  <2>1. Wrote("backup pending", cur, "backup2")
    BY <1>4, RecordingSteps
  <2> QED
    BY <1>4, <2>1
       DEF BackupPending, Wrote, Moved, Noted, Phases, Rest, loop, Announces,
           phase
<1>5. ASSUME BackupVerified PROVE Announces
  <2>1. Wrote("backup verified", cur, IF cur = N THEN "ready" ELSE "backup")
    BY <1>5, RecordingSteps
  <2> QED
    BY <1>5, <2>1
       DEF BackupVerified, Wrote, Moved, Noted, Phases, GiveUp, GoTo, Rest,
           Announces, phase
<1>6. ASSUME BackupReady PROVE Announces
  <2>1. Wrote("BACKUP_READY", 0, "applying")
    BY <1>6, RecordingSteps
  <2> QED
    BY <1>6, <2>1
       DEF BackupReady, Wrote, Moved, Noted, Phases, Rest, loop, Announces,
           phase
<1>7. ASSUME StartApplying PROVE Announces
  <2>1. Wrote("APPLYING", 0, "check")
    BY <1>7, RecordingSteps
  <2> QED
    BY <1>7, <2>1
       DEF StartApplying, Wrote, Moved, Noted, Phases, Rest, loop, Announces,
           phase
<1>8. ASSUME ApplyPending PROVE Announces
  <2>1. \/ Wrote("apply effect pending", cur,
                IF cur = Owner THEN "mkdir" ELSE "open")
       \/ Moved("rolling")
    BY <1>8, RecordingSteps
  <2> QED
    BY <1>8, <2>1
       DEF ApplyPending, Wrote, Moved, Noted, Phases, GoTo, Rest, Announces,
           phase
<1>9. ASSUME MakeParent PROVE Announces
  BY <1>9 DEF MakeParent, GoTo, Rest, Announces, phase
<1>10. ASSUME OpenLeaf PROVE Announces
  BY <1>10 DEF OpenLeaf, GoTo, Rest, Announces, phase
<1>11. ASSUME RunLeaf PROVE Announces
  <2>1. RunLeaf \/ LeafFails
    BY <1>11
  <2>2. UNCHANGED <<journal, pc>>
    BY <2>1, LeafMoves
  <2> QED
    BY <2>2 DEF Announces, phase
<1>12. ASSUME LeafReturns PROVE Announces
  BY <1>12 DEF LeafReturns, GoTo, Rest, loop, Announces, phase
<1>13. ASSUME Cleanup PROVE Announces
  BY <1>13 DEF Cleanup, TryRmdir, Rest, Announces, phase
<1>14. ASSUME CreatedParent PROVE Announces
  <2>1. Wrote("created parent", cur, "verify")
    BY <1>14, RecordingSteps
  <2> QED
    BY <1>14, <2>1
       DEF CreatedParent, Wrote, Moved, Noted, Phases, Rest, Announces, phase
<1>15. ASSUME ApplyVerified PROVE Announces
  <2>1. \/ Wrote("apply effect verified", cur,
                IF cur = N THEN "final" ELSE "check")
       \/ Moved("rolling")
    BY <1>15, RecordingSteps
  <2> QED
    BY <1>15, <2>1
       DEF ApplyVerified, Wrote, Moved, Noted, Phases, GiveUp, GoTo, Rest,
           Announces, phase
<1>16. ASSUME FinalVerification PROVE Announces
  BY <1>16 DEF FinalVerification, GoTo, Rest, loop, Announces, phase
<1>17. ASSUME RecheckChangeset PROVE Announces
  <2>1. Wrote("change set digest rechecked", 0, "reindex")
    BY <1>17, RecordingSteps
  <2> QED
    BY <1>17, <2>1
       DEF RecheckChangeset, Wrote, Moved, Noted, Phases, GiveUp, GoTo, Rest,
           loop, Announces, phase
<1>18. ASSUME RecheckIndex PROVE Announces
  <2>1. Wrote("index digest rechecked", 0, "applied")
    BY <1>18, RecordingSteps
  <2> QED
    BY <1>18, <2>1
       DEF RecheckIndex, Wrote, Moved, Noted, Phases, GiveUp, GoTo, Rest, loop,
           Announces, phase
<1>19. ASSUME RecordApplied PROVE Announces
  <2>1. Wrote("APPLIED", 0, "returned")
    BY <1>19, RecordingSteps
  <2> QED
    BY <1>19, <2>1
       DEF RecordApplied, Wrote, Moved, Noted, Phases, Rest, loop, Announces,
           phase
<1>20. ASSUME StartRollback PROVE Announces
  <2>1. Wrote("ROLLING_BACK", 0, "rbcheck")
    BY <1>20, RecordingSteps
  <2> QED
    BY <1>20, <2>1
       DEF StartRollback, Wrote, Moved, Noted, Phases, Rest, loop, Announces,
           phase
<1>21. ASSUME RollbackDone PROVE Announces
  BY <1>21 DEF RollbackDone, GoTo, Rest, loop, Announces, phase
<1>22. ASSUME RollbackPending PROVE Announces
  <2>1. \/ Wrote("rollback effect pending", cur', "restore")
       \/ Wrote("rollback effect pending", cur', "rbverify")
       \/ /\ Logged(journal, "rollback effect pending", cur')
          /\ \/ Wrote("rollback effect verified", cur', "rbcheck")
             \/ Moved("restore")
       \/ Moved("rbcheck")
    BY <1>22, RecordingSteps
  <2> QED
    BY <1>22, <2>1
       DEF RollbackPending, Wrote, Moved, Noted, Phases, Rest, Announces, phase
<1>23. ASSUME RestoreEntry PROVE Announces
  BY <1>23 DEF RestoreEntry, GoTo, Rest, Announces, phase
<1>24. ASSUME RemoveParent PROVE Announces
  BY <1>24 DEF RemoveParent, TryRmdir, Rest, loop, Announces, phase
<1>25. ASSUME RollbackVerified PROVE Announces
  <2>1. Wrote("rollback effect verified", cur, "rbcheck")
    BY <1>25, RecordingSteps
  <2> QED
    BY <1>25, <2>1
       DEF RollbackVerified, Wrote, Moved, Noted, Phases, GiveUp, GoTo, Rest,
           Announces, phase
<1>26. ASSUME RollbackFinal PROVE Announces
  <2>1. Wrote("rollback index digest rechecked", 0, "rbdone")
    BY <1>26, RecordingSteps
  <2> QED
    BY <1>26, <2>1
       DEF RollbackFinal, Wrote, Moved, Noted, Phases, GiveUp, GoTo, Rest,
           loop, Announces, phase
<1>27. ASSUME RecordRolledBack PROVE Announces
  <2>1. Wrote("ROLLED_BACK", 0, "returned")
    BY <1>27, RecordingSteps
  <2> QED
    BY <1>27, <2>1
       DEF RecordRolledBack, Wrote, Moved, Noted, Phases, Rest, loop,
           Announces, phase
<1>28. ASSUME RequireRecovery PROVE Announces
  <2>1. \/ Noted("RECOVERY_REQUIRED", 0) /\ Counted /\ pc' = "returned"
       \/ Moved("returned")
    BY <1>28, RecordingSteps
  <2> QED
    BY <1>28, <2>1
       DEF RequireRecovery, Wrote, Moved, Noted, Phases, GoTo, Rest, loop,
           Announces, phase
<1>29. ASSUME Resolve PROVE Announces
  <2>1. journal' = journal /\ pc' \in {"resolve", "classify", "require"}
    BY <1>29, ResolveMoves
  <2> QED
    BY <2>1 DEF Announces, phase
<1>30. ASSUME Classify PROVE Announces
  BY <1>30 DEF Classify, Announces, phase
<1>31. ASSUME Recover PROVE Announces
  BY <1>31 DEF Recover, Report, Rest, Announces, phase
<1>32. ASSUME Replay PROVE Announces
  BY <1>32 DEF Replay, Report, Rest, loop, Announces, phase
<1>33. ASSUME Crash PROVE Announces
  BY <1>33 DEF Crash, Announces, phase
<1>34. ASSUME LeafFails PROVE Announces
  <2>1. RunLeaf \/ LeafFails
    BY <1>34
  <2>2. UNCHANGED <<journal, pc>>
    BY <2>1, LeafMoves
  <2> QED
    BY <2>2 DEF Announces, phase
<1>35. ASSUME ResolveFails PROVE Announces
  BY <1>35 DEF ResolveFails, Fault, Rest, loop, Announces, phase
<1>36. ASSUME MakeParentFails PROVE Announces
  BY <1>36 DEF MakeParentFails, Fault, Rest, Announces, phase
<1>37. ASSUME ReadFails PROVE Announces
  BY <1>37 DEF ReadFails, Fault, Rest, Announces, phase
<1>38. ASSUME VerifyReadFails PROVE Announces
  BY <1>38 DEF VerifyReadFails, Fault, Rest, Announces, phase
<1>39. ASSUME NEW e \in Entries, UserEdits(e) PROVE Announces
  <2>1. UNCHANGED <<journal, pc>>
    BY <1>39, EditMoves
  <2> QED
    BY <2>1 DEF Announces, phase
<1>40. ASSUME UserFillsDir PROVE Announces
  BY <1>40 DEF UserFillsDir, Edit, loop, Announces, phase
<1>41. ASSUME NEW what \in {"index", "workspace"}, UserChanges(what)
       PROVE  Announces
  BY <1>41 DEF UserChanges, Edit, loop, Announces, phase
<1>42. ASSUME UNCHANGED vars PROVE Announces
  BY <1>42 DEF vars, disks, budget, loop, Announces, phase
<1> QED
  BY <1>1, <1>2, <1>3, <1>4, <1>5, <1>6, <1>7, <1>8, <1>9, <1>10, <1>11, <1>12,
     <1>13, <1>14, <1>15, <1>16, <1>17, <1>18, <1>19, <1>20, <1>21, <1>22,
     <1>23, <1>24, <1>25, <1>26, <1>27, <1>28, <1>29, <1>30, <1>31, <1>32,
     <1>33, <1>34, <1>35, <1>36, <1>37, <1>38, <1>39, <1>40, <1>41, <1>42
     DEF Next, ApplyStep, RollbackStep, Failure, User

(* A leaf that holds its content and nothing beside it is clean.           *)
LEMMA CleanLeaf ==
  ASSUME TypeOK, NEW e \in Entries, NoArtifacts(e)
  PROVE  disk[e] = Clean(disk[e].name)
<1>1. disk[e] \in Leaf
  BY DEF TypeOK
<1>2. disk[e] = LeafOf(disk[e].name, "absent", NoTemp)
  BY <1>1, LeafParts DEF NoArtifacts
<1> QED
  BY <1>2 DEF LeafOf, Clean

(* Every step keeps the promise of an outcome.                             *)
LEMMA OutcomesStep ==
  ASSUME CoreInv, [Next]_vars
  PROVE  Outcomes'
<1>a. TypeOK /\ PhaseAtPc /\ Announces
  BY AnnounceStep DEF CoreInv
<1>1. ASSUME pc \in {"rbdone", "recheck", "reindex", "applied"}
                \/ phase \in {"ROLLED_BACK", "APPLIED"}
      PROVE  ~RunLeaf /\ ~LeafFails /\ ~Resolve
  BY <1>1, <1>a DEF RunLeaf, LeafFails, Resolve, PhaseAtPc
<1>2. ASSUME pc' = "rbdone" \/ phase' = "ROLLED_BACK", NEW e \in Entries
      PROVE  Spared(e)' /\ NoArtifacts(e)'
  <2>1. CASE pc = "rbdone" \/ phase = "ROLLED_BACK"
    <3>1. Spared(e) /\ NoArtifacts(e)
      BY <2>1 DEF CoreInv, Outcomes
    <3>2. ~RunLeaf /\ ~LeafFails /\ ~Resolve
      BY <1>1, <2>1
    <3>3. Spared(e)'
      BY <3>1, <3>2, SparedStep
    <3>4. NoArtifacts(e)'
      <4>1. CASE UNCHANGED disk
        BY <3>1, <4>1 DEF NoArtifacts
      <4>2. ASSUME NEW f \in Entries, UserEdits(f)
            PROVE  NoArtifacts(e)'
        <5>1. /\ \A g \in Entries \ {f} : disk'[g] = disk[g]
              /\ disk'[f].quar = disk[f].quar /\ disk'[f].temp = disk[f].temp
          BY <4>2, EditMoves
        <5> QED
          BY <3>1, <5>1 DEF NoArtifacts
      <4> QED
        BY <3>2, <4>1, <4>2, TargetSteps
    <3> QED
      BY <3>3, <3>4
  <2>2. CASE /\ pc = "rbfinal" /\ disk' = disk
             /\ VerifyRestored(affected) /\ TransactionArtifactsAbsent
    <3>1. NoArtifacts(e)'
      BY <2>2 DEF TransactionArtifactsAbsent, NoArtifacts
    <3>2. CASE e \in affected
      <4>1. disk'[e].name = Original(e)
        BY <2>2, <3>2 DEF VerifyRestored, Matches
      <4> QED
        BY <3>1, <4>1, OriginalAndNew DEF Spared
    <3>3. CASE e \notin affected
      <4>1. Spared(e)
        BY <2>2, <3>3 DEF CoreInv, Bystanders, UndoPcs
      <4>2. ~RunLeaf /\ ~LeafFails /\ ~Resolve
        BY <2>2 DEF RunLeaf, LeafFails, Resolve
      <4> QED
        BY <3>1, <4>1, <4>2, SparedStep
    <3> QED
      BY <3>2, <3>3
  <2> QED
    BY <1>2, <1>a, <2>1, <2>2 DEF Announces
<1>3. ASSUME pc' \in {"recheck", "reindex", "applied"} \/ phase' = "APPLIED",
             edits' = 0
      PROVE  AllNew'
  <2>1. \A f \in Entries : ~UserEdits(f)
    BY <1>3, EditMoves
  <2>2. CASE pc \in {"recheck", "reindex", "applied"} \/ phase = "APPLIED"
    <3>1. UNCHANGED disk
      BY <1>1, <2>1, <2>2, TargetSteps
    <3>2. edits = 0
      BY <1>3, EditsGrow
    <3>3. AllNew
      BY <2>2, <3>2 DEF CoreInv, Outcomes
    <3> QED
      BY <3>1, <3>3 DEF AllNew
  <2>3. CASE disk' = disk /\ VerifyApplied /\ TransactionArtifactsAbsent
    <3>1. ASSUME NEW e \in Entries PROVE disk[e] = Clean(New(e))
      <4>1. disk[e].name = New(e) /\ NoArtifacts(e)
        BY <2>3 DEF VerifyApplied, TransactionArtifactsAbsent, Matches
      <4> QED
        BY <1>a, <4>1, CleanLeaf
    <3> QED
      BY <2>3, <3>1 DEF AllNew
  <2> QED
    BY <1>3, <1>a, <2>2, <2>3 DEF Announces
<1> QED
  BY <1>2, <1>3 DEF Outcomes

-----------------------------------------------------------------------------
(* The theorems about safety.                                              *)

(* At the beginning nothing has happened.                                  *)
LEMMA CoreInitially ==
  ASSUME Init
  PROVE  CoreInv
<1>a. N \in Nat /\ 1 \in Entries /\ 0 \in Nat
      /\ 0 \in 0..MaxCrashes /\ 0 \in 0..MaxFaults /\ 0 \in 0..MaxEdits
  BY EntriesAreNumbers, TransactionAssumption
<1>1. \A e \in Entries : disk[e] = Clean(Original(e))
  BY DEF Init
<1>2. ASSUME NEW e \in Entries
      PROVE  /\ disk[e] \in Leaf /\ disk[e].name = Original(e)
             /\ disk[e].name \in {"absent", "old"} /\ NoArtifacts(e)
             /\ Whole(disk[e])
  <2>0. disk[e] = LeafOf(Original(e), "absent", NoTemp)
    BY <1>1 DEF Clean, LeafOf
  <2>1. /\ disk[e].name = Original(e) /\ disk[e].quar = "absent"
        /\ disk[e].temp = NoTemp
    BY <2>0, LeafFields
  <2>2. Original(e) \in {"absent", "old"}
    BY OriginalAndNew
  <2>3. Original(e) \in Contents /\ "absent" \in Contents
        /\ NoTemp \in [{"old", "new"} -> Contents]
    BY <2>2 DEF Contents, NoTemp
  <2>4. disk[e] \in Leaf
    BY <2>0, <2>3, LeafFields
  <2> QED
    BY <2>1, <2>2, <2>4 DEF NoArtifacts, Whole
<1>3. TypeOK
  <2>1. disk \in [Entries -> Leaf]
    BY <1>2 DEF Init
  <2>2. journal \in Seq(JournalRecord)
    BY DEF Init
  <2> QED
    BY <1>a, <2>1, <2>2 DEF Init, TypeOK, Pcs
<1>4. journal = <<>> /\ Len(journal) = 0
  BY DEF Init
<1>5. ValidRecordSequence(journal)
  BY <1>4 DEF ValidRecordSequence
<1>6. phase = "NONE"
  <2>1. journal \in Seq(JournalRecord) /\ 0 \in 0..Len(journal)
    BY <1>3, <1>4 DEF TypeOK
  <2>2. \/ PhaseUpTo(journal, 0) = "NONE"
        \/ \E i \in 1..0 : journal[i].kind = PhaseUpTo(journal, 0)
    BY <2>1, PhaseReached
  <2>3. PhaseUpTo(journal, 0) = "NONE"
    BY <2>2
  <2> QED
    BY <1>4, <2>3 DEF phase, LatestPhase
<1>7. PhasesInOrder(journal) /\ \A k, e : ~Logged(journal, k, e)
  BY <1>4, <1>6 DEF phase, PhasesInOrder, Logged
<1>8. PhaseAtPc
  BY <1>6 DEF Init, PhaseAtPc, LoopPcs, EntryPcs, UndoPcs
<1>9. LogAhead
  BY <1>7
     DEF Init, LogAhead, LogOrder, LogAtPc, Publishing, Restoring, EntryPcs
<1>10. WriteAhead
  BY <1>2 DEF Init, WriteAhead, Touched
<1>11. Untorn
  BY <1>2 DEF Init, Untorn
<1>12. Bystanders
  BY <1>2 DEF Init, Bystanders, Spared
<1>13. Outcomes
  BY <1>6 DEF Init, Outcomes
<1> QED
  BY <1>3, <1>5, <1>7, <1>8, <1>9, <1>10, <1>11, <1>12, <1>13 DEF CoreInv

(* Every step of the transaction, of its recovery, of the file system and  *)
(* of the user keeps the invariant.                                        *)
LEMMA CoreKept ==
  ASSUME CoreInv, [Next]_vars
  PROVE  CoreInv'
BY TypesStep, JournalStep, PhaseStep, LogStep, WriteAheadStep, UntornStep,
   BystandersStep, OutcomesStep
   DEF CoreInv

THEOREM CoreInvariant == Spec => []CoreInv
<1>1. Init => CoreInv
  BY CoreInitially
<1>2. CoreInv /\ [Next]_vars => CoreInv'
  BY CoreKept
<1> QED
  BY <1>1, <1>2, PTL DEF Spec

(* Every variable keeps its type, and the journal that crashes, failures   *)
(* and retries leave behind is one a later start accepts: every record     *)
(* _record wrote passes _validate_record_sequence.                         *)
THEOREM TransactionIsWellFormed == Spec => []WellFormed
<1>1. Spec => []CoreInv
  BY CoreInvariant
<1>2. CoreInv => WellFormed
  BY DEF CoreInv, WellFormed, JournalReadable
<1> QED
  BY <1>1, <1>2, PTL

(* Nothing of the transaction is in the target before every backup is      *)
(* stored and the pending record of the entry is in the journal.           *)
THEOREM LogIsWrittenAhead == Spec => []WriteAhead
<1>1. Spec => []CoreInv
  BY CoreInvariant
<1>2. CoreInv => WriteAhead
  BY DEF CoreInv
<1> QED
  BY <1>1, <1>2, PTL

(* A transaction is all or nothing, for every number of entries, crashes,  *)
(* failing system calls and edits: no target is ever torn, ROLLED_BACK     *)
(* leaves no file of ours behind, and short of user edits APPLIED means    *)
(* that every target is new, ROLLED_BACK that every one is as before.      *)
THEOREM TransactionIsAllOrNothing == Spec => []AllOrNothing
<1>1. Spec => []CoreInv
  BY CoreInvariant
<1>2. ASSUME CoreInv PROVE AllOrNothing
  <2>1. NoTornTarget
    BY <1>2 DEF CoreInv, Untorn, Whole, NoTornTarget
  <2>2. NothingOfOursLeft
    BY <1>2 DEF CoreInv, Outcomes, Spared, NothingOfOursLeft
  <2>3. ASSUME edits = 0, phase = "APPLIED" PROVE AllNew
    BY <1>2, <2>3 DEF CoreInv, Outcomes
  <2>4. ASSUME edits = 0, phase = "ROLLED_BACK" PROVE AllOriginal
    <3>1. ASSUME NEW e \in Entries PROVE disk[e] = Clean(Original(e))
      <4>1. disk[e].name = Original(e) /\ NoArtifacts(e)
        BY <1>2, <2>4 DEF CoreInv, Outcomes, Spared
      <4> QED
        BY <1>2, <4>1, CleanLeaf DEF CoreInv
    <3> QED
      BY <3>1 DEF AllOriginal
  <2> QED
    BY <2>1, <2>2, <2>3, <2>4 DEF AllOrNothing
<1>3. CoreInv => AllOrNothing
  BY <1>2
<1> QED
  BY <1>1, <1>3, PTL

(* A file the user put under a target name survives the transaction,       *)
(* except in the window before os.unlink; a directory the user made or     *)
(* filled always does.                                                     *)
THEOREM UserContentIsKept == Spec => UserContentSurvives
<1> DEFINE Kept ==
      /\ \A e \in Entries :
           disk[e].name = "user" /\ disk'[e].name # "user" =>
             ByUser \/ (pc = "leaf" /\ at = "unlink" /\ cur = e)
      /\ dir \in {"populated", "foreign"} => dir' = dir
<1>1. ASSUME CoreInv, [Next]_vars PROVE Kept
  <2>1. ASSUME NEW e \in Entries,
               disk[e].name = "user", disk'[e].name # "user"
        PROVE  ByUser \/ (pc = "leaf" /\ at = "unlink" /\ cur = e)
    <3>1. ~UNCHANGED disk
      BY <2>1
    <3>2. CASE RunLeaf \/ LeafFails
      BY <1>1, <2>1, <3>2, LeafMoves
    <3>3. CASE Resolve
      <4>1. /\ \A f \in Entries \ {cur} : disk'[f] = disk[f]
            /\ disk[cur].name = "user" => disk'[cur].name = "user"
        BY <1>1, <3>3, ResolveMoves DEF Resolves
      <4> QED
        BY <2>1, <4>1
    <3>4. CASE \E f \in Entries : UserEdits(f)
      BY <1>1, <3>4, EditMoves DEF ByUser
    <3> QED
      BY <1>1, <3>1, <3>2, <3>3, <3>4, TargetSteps
  <2>2. ASSUME dir \in {"populated", "foreign"} PROVE dir' = dir
    <3>1. CASE RunLeaf \/ LeafFails
      BY <1>1, <3>1, LeafMoves
    <3>2. CASE Resolve
      BY <1>1, <3>2, ResolveMoves
    <3>3. CASE \E f \in Entries : UserEdits(f)
      BY <1>1, <3>3, EditMoves
    <3>4. CASE MakeParent \/ MakeParentFails \/ UserFillsDir
      BY <2>2, <3>4 DEF MakeParent, MakeParentFails, UserFillsDir
    <3>5. CASE Cleanup \/ RemoveParent
      BY <2>2, <3>5 DEF Cleanup, RemoveParent, TryRmdir, DirEmpty
    <3> QED
      BY <1>1, <3>1, <3>2, <3>3, <3>4, <3>5, TargetSteps
  <2> QED
    BY <2>1, <2>2
<1>2. Spec => []CoreInv
  BY CoreInvariant
<1>3. CoreInv /\ [Next]_vars => [Kept]_vars
  BY <1>1
<1> QED
  BY <1>2, <1>3, PTL DEF Spec, UserContentSurvives

-----------------------------------------------------------------------------
(* The course of a transaction when only the process dies.                 *)

(* No system call fails and the user changes nothing: only the process     *)
(* dies.                                                                   *)
CrashesOnly == MaxFaults = 0 /\ MaxEdits = 0

(* The leaf under a publish is on the way from the original to the new     *)
(* content.                                                                *)
TempOf(d, content) == [NoTemp EXCEPT ![d] = content]
LeafOnWay ==
    LET old == Original(cur)  new == New(cur) IN
    /\ at \in {"link", "verify", "unlink"} => old # "absent"
    /\ at \in {"create", "write", "publish", "untemp"} => new # "absent"
    /\ \/ at = "link" /\ disk[cur] = LeafOf(old, "absent", NoTemp)
       \/ at \in {"verify", "unlink"} /\ disk[cur] = LeafOf(old, old, NoTemp)
       \/ at = "create" /\ disk[cur] = LeafOf("absent", old, NoTemp)
       \/ /\ at = "write"
          /\ disk[cur] = LeafOf("absent", old, TempOf(new, "partial"))
       \/ at = "publish" /\ disk[cur] = LeafOf("absent", old, TempOf(new, new))
       \/ at = "untemp" /\ disk[cur] = LeafOf(new, old, TempOf(new, new))
       \/ at = "unquar" /\ disk[cur] = LeafOf(new, old, NoTemp)
       \/ at = "done" /\ disk[cur] = LeafOf(new, "absent", NoTemp)

(* What holds besides when only the process dies: a publish succeeds, and  *)
(* the missing directory is there only if its owner may have been touched. *)
OnCourse ==
    /\ changed = {}
    /\ Nested = {} => dir = "absent"
    /\ Nested # {} /\ Clear(Owner) => dir = "absent"
    /\ pc = "rbdone" \/ phase = "ROLLED_BACK" => dir = "absent"
    /\ pc \in EarlyPcs => AllOriginal
    /\ pc = "check" \/ Publishing =>
          \A e \in Entries : e > cur => disk[e] = Clean(Original(e))
    /\ pc \in {"check", "mkdir", "open"} => disk[cur] = Clean(Original(cur))
    /\ pc = "leaf" /\ phase = "APPLYING" => LeafOnWay
    /\ pc \in {"parent", "verify"} => disk[cur].name = New(cur)
    /\ pc # "cleanup"
    /\ pc = "require" /\ Readable => phase \notin {"APPLIED", "ROLLED_BACK"}

LEMMA Quiet ==
  ASSUME CoreInv, CrashesOnly
  PROVE  /\ edits = 0 /\ ~Fault /\ ~User
         /\ ~LeafFails /\ ~ResolveFails /\ ~MakeParentFails /\ ~ReadFails
         /\ ~VerifyReadFails
<1>1. edits = 0 /\ faults = 0
  BY DEF CoreInv, TypeOK, CrashesOnly
<1>2. ~Fault /\ ~Edit
  BY <1>1 DEF Fault, Edit, CrashesOnly
<1> QED
  BY <1>1, <1>2
     DEF User, UserEdits, UserFillsDir, UserChanges, LeafFails, ResolveFails,
         MakeParentFails, ReadFails, VerifyReadFails

(* What can happen between two runs of a coordinator.                      *)
LEMMA RestingSteps ==
  ASSUME [Next]_vars, pc \in {"require", "returned", "down"}
  PROVE  RequireRecovery \/ Recover \/ Replay \/ Crash \/ User \/ UNCHANGED vars
<1>1. ~Begin /\ ~ApplyStep
  BY DEF Begin, ApplyStep, WritePlan, WriteHeader, BackupPending,
         BackupVerified, BackupReady, StartApplying, ApplyPending, MakeParent,
         OpenLeaf, RunLeaf, LeafReturns, Cleanup, CreatedParent, ApplyVerified,
         FinalVerification, RecheckChangeset, RecheckIndex, RecordApplied
<1>2. RollbackStep => RequireRecovery
  BY DEF RollbackStep, StartRollback, RollbackDone, RollbackPending,
         RestoreEntry, RemoveParent, RollbackVerified, RollbackFinal,
         RecordRolledBack, Resolve, Classify
<1>3. Failure => Crash
  BY DEF Failure, LeafFails, ResolveFails, MakeParentFails, ReadFails,
         VerifyReadFails
<1> QED
  BY <1>1, <1>2, <1>3 DEF Next

LEMMA OneTemp ==
  ASSUME NEW d \in {"old", "new"}
  PROVE  /\ \A c : TempOf(d, c)[d] = c
         /\ \A c, v : [TempOf(d, c) EXCEPT ![d] = v] = TempOf(d, v)
         /\ TempOf(d, "absent") = NoTemp
  BY DEF TempOf, NoTemp

(* One system call of a publish takes its leaf one step further.           *)
LEMMA LeafOnWayStep ==
  ASSUME CoreInv, RunLeaf, phase = "APPLYING", LeafOnWay
  PROVE  LeafOnWay'
<1> DEFINE old == Original(cur)
           new == New(cur)
           l   == disk[cur]
           o   == LeafStep(l, at, old, new, cur \in Symlinks)
<1>1. cur \in Entries /\ l \in Leaf /\ disk \in [Entries -> Leaf]
  BY DEF CoreInv, TypeOK
<1>2. /\ old \in {"absent", "old"} /\ new \in {"absent", "new"}
  BY <1>1, OriginalAndNew
<1>3. /\ at \in {"link", "verify", "unlink"} => old # "absent"
      /\ at \in {"create", "write", "publish", "untemp"} => new # "absent"
      /\ \/ at = "link" /\ l = LeafOf(old, "absent", NoTemp)
         \/ at \in {"verify", "unlink"} /\ l = LeafOf(old, old, NoTemp)
         \/ at = "create" /\ l = LeafOf("absent", old, NoTemp)
         \/ at = "write" /\ l = LeafOf("absent", old, TempOf(new, "partial"))
         \/ at = "publish" /\ l = LeafOf("absent", old, TempOf(new, new))
         \/ at = "untemp" /\ l = LeafOf(new, old, TempOf(new, new))
         \/ at = "unquar" /\ l = LeafOf(new, old, NoTemp)
         \/ at = "done" /\ l = LeafOf(new, "absent", NoTemp)
  BY DEF LeafOnWay
<1>4. disk'[cur] = o.leaf /\ at' = o.at /\ cur' = cur /\ at # "done"
  <2>1. Displaced(cur) = old /\ Desired(cur) = new
    BY DEF Displaced, Desired
  <2> QED
    BY <1>1, <2>1 DEF RunLeaf, LeafEnds
<1>5. Original(cur)' = old /\ New(cur)' = new
  BY <1>4 DEF Original, New
<1>6. /\ \A v : [l EXCEPT !.name = v] = LeafOf(v, l.quar, l.temp)
      /\ \A v : [l EXCEPT !.quar = v] = LeafOf(l.name, v, l.temp)
      /\ \A d, v : [l EXCEPT !.temp[d] = v]
                     = LeafOf(l.name, l.quar, [l.temp EXCEPT ![d] = v])
  BY <1>1, LeafParts
<1>7. ASSUME NEW name, NEW quar, NEW temp, NEW next,
             o = Outcome(LeafOf(name, quar, temp), next)
      PROVE  disk'[cur] = LeafOf(name, quar, temp) /\ at' = next
  BY <1>4, <1>7, OutcomeParts
<1>8. /\ \A name, quar, temp : l = LeafOf(name, quar, temp) =>
           l.name = name /\ l.quar = quar /\ l.temp = temp
      /\ NoTemp["new"] = "absent"
  BY LeafFields DEF NoTemp
<1> HIDE DEF old, new, l
<1>a. ASSUME at = "link" PROVE LeafOnWay'
  <2>1. l = LeafOf(old, "absent", NoTemp)
    BY <1>3, <1>a
  <2>2. o = Outcome(LeafOf(old, old, NoTemp), "verify")
    BY <1>3, <1>6, <1>8, <1>a, <2>1 DEF LeafStep, Link
  <2> QED
    BY <1>3, <1>4, <1>5, <1>7, <1>a, <2>2 DEF LeafOnWay
<1>b. ASSUME at = "verify" PROVE LeafOnWay'
  <2>1. l = LeafOf(old, old, NoTemp)
    BY <1>3, <1>b
  <2>2. o = Outcome(LeafOf(old, old, NoTemp), "unlink")
    BY <1>8, <1>b, <2>1 DEF LeafStep, Verify
  <2> QED
    BY <1>3, <1>4, <1>5, <1>7, <1>b, <2>2 DEF LeafOnWay
<1>c. ASSUME at = "unlink" PROVE LeafOnWay'
  <2>1. l = LeafOf(old, old, NoTemp) /\ old # "absent"
    BY <1>3, <1>c
  <2>2. o = Outcome(LeafOf("absent", old, NoTemp),
                    IF new = "absent" THEN "unquar" ELSE "create")
    BY <1>6, <1>8, <1>c, <2>1 DEF LeafStep, Unlink
  <2> QED
    BY <1>3, <1>4, <1>5, <1>7, <1>c, <2>2 DEF LeafOnWay
<1>d. ASSUME at = "create" PROVE LeafOnWay'
  <2>1. l = LeafOf("absent", old, NoTemp) /\ new = "new"
    BY <1>2, <1>3, <1>d
  <2>2. CASE cur \in Symlinks
    <3>1. o = Outcome(LeafOf(new, old, NoTemp), "unquar")
      BY <1>6, <1>8, <1>d, <2>1, <2>2 DEF LeafStep, Create
    <3> QED
      BY <1>4, <1>5, <1>7, <3>1 DEF LeafOnWay
  <2>3. CASE cur \notin Symlinks
    <3>1. o = Outcome(LeafOf("absent", old, TempOf(new, "partial")), "write")
      BY <1>6, <1>8, <1>d, <2>1, <2>3 DEF LeafStep, Create, TempOf
    <3> QED
      BY <1>4, <1>5, <1>7, <2>1, <3>1 DEF LeafOnWay
  <2> QED
    BY <2>2, <2>3
<1>e. ASSUME at = "write" PROVE LeafOnWay'
  <2>1. l = LeafOf("absent", old, TempOf(new, "partial")) /\ new = "new"
    BY <1>2, <1>3, <1>e
  <2>2. [l.temp EXCEPT ![new] = new] = TempOf(new, new)
    BY <1>8, <2>1, OneTemp
  <2>3. o = Outcome(LeafOf("absent", old, TempOf(new, new)), "publish")
    BY <1>6, <1>8, <1>e, <2>1, <2>2 DEF LeafStep, Write
  <2> QED
    BY <1>4, <1>5, <1>7, <2>1, <2>3 DEF LeafOnWay
<1>f. ASSUME at = "publish" PROVE LeafOnWay'
  <2>1. l = LeafOf("absent", old, TempOf(new, new)) /\ new = "new"
    BY <1>2, <1>3, <1>f
  <2>2. l.temp[new] = new
    BY <1>8, <2>1, OneTemp
  <2>3. o = Outcome(LeafOf(new, old, TempOf(new, new)), "untemp")
    BY <1>6, <1>8, <1>f, <2>1, <2>2 DEF LeafStep, Publish
  <2> QED
    BY <1>4, <1>5, <1>7, <2>1, <2>3 DEF LeafOnWay
<1>g. ASSUME at = "untemp" PROVE LeafOnWay'
  <2>1. l = LeafOf(new, old, TempOf(new, new)) /\ new = "new"
    BY <1>2, <1>3, <1>g
  <2>2. [l.temp EXCEPT ![new] = "absent"] = NoTemp
    BY <1>8, <2>1, OneTemp
  <2>3. o = Outcome(LeafOf(new, old, NoTemp), "unquar")
    BY <1>6, <1>8, <1>g, <2>1, <2>2 DEF LeafStep, Untemp
  <2> QED
    BY <1>4, <1>5, <1>7, <2>3 DEF LeafOnWay
<1>h. ASSUME at = "unquar" PROVE LeafOnWay'
  <2>1. l = LeafOf(new, old, NoTemp)
    BY <1>3, <1>h
  <2>2. o = Outcome(LeafOf(new, "absent", NoTemp), "done")
    BY <1>6, <1>8, <1>h, <2>1 DEF LeafStep, Unquar
  <2> QED
    BY <1>4, <1>5, <1>7, <2>2 DEF LeafOnWay
<1> QED
  BY <1>3, <1>4, <1>a, <1>b, <1>c, <1>d, <1>e, <1>f, <1>g, <1>h

(* Where the coordinator can come from when it publishes.                  *)
Goes ==
    /\ pc' \in EarlyPcs => pc \in EarlyPcs
    /\ pc' = "check" => \/ pc = "applying"
                        \/ pc = "check" /\ cur' = cur
                        \/ pc = "verify" /\ cur' = cur + 1
    /\ pc' \in EntryPcs => cur' = cur /\ (pc = "check" \/ Publishing)
    /\ pc' = "mkdir" => pc \in {"check", "mkdir"}
    /\ pc' = "open" => pc \in {"check", "mkdir", "open"}
    /\ pc' \in {"parent", "verify"} =>
          pc \in {"parent", "verify"} \/ (Publishing /\ pc = "leaf" /\ at = "done")
    /\ pc' = "cleanup" =>
          \/ pc = "cleanup"
          \/ Publishing /\ pc = "leaf" /\ at \in LeafEnds \ {"done"}

(* Every step takes it only there.                                         *)
LEMMA GoesStep ==
  ASSUME CoreInv, [Next]_vars
  PROVE  Goes
<1>a. PhaseAtPc
  BY DEF CoreInv
<1>1. ASSUME Begin PROVE Goes
  BY <1>1, <1>a
     DEF Begin, GoTo, loop, Goes, PhaseAtPc, EarlyPcs, LoopPcs, UndoPcs,
         EntryPcs, Publishing
<1>2. ASSUME WritePlan PROVE Goes
  BY <1>2, <1>a
     DEF WritePlan, GoTo, Rest, loop, Goes, PhaseAtPc, EarlyPcs, LoopPcs,
         UndoPcs, EntryPcs, Publishing
<1>3. ASSUME WriteHeader PROVE Goes
  <2>1. Wrote("PREPARING", 0, "backup")
    BY <1>3, RecordingSteps
  <2> QED
    BY <1>3, <1>a, <2>1
       DEF WriteHeader, Wrote, Moved, Rest, loop, Goes, PhaseAtPc, EarlyPcs,
           LoopPcs, UndoPcs, EntryPcs, Publishing
<1>4. ASSUME BackupPending PROVE Goes
  <2>1. Wrote("backup pending", cur, "backup2")
    BY <1>4, RecordingSteps
  <2> QED
    BY <1>4, <1>a, <2>1
       DEF BackupPending, Wrote, Moved, Rest, loop, Goes, PhaseAtPc, EarlyPcs,
           LoopPcs, UndoPcs, EntryPcs, Publishing
<1>5. ASSUME BackupVerified PROVE Goes
  <2>1. Wrote("backup verified", cur, IF cur = N THEN "ready" ELSE "backup")
    BY <1>5, RecordingSteps
  <2> QED
    BY <1>5, <1>a, <2>1
       DEF BackupVerified, Wrote, Moved, GiveUp, GoTo, Rest, Goes, PhaseAtPc,
           EarlyPcs, LoopPcs, UndoPcs, EntryPcs
<1>6. ASSUME BackupReady PROVE Goes
  <2>1. Wrote("BACKUP_READY", 0, "applying")
    BY <1>6, RecordingSteps
  <2> QED
    BY <1>6, <1>a, <2>1
       DEF BackupReady, Wrote, Moved, Rest, loop, Goes, PhaseAtPc, EarlyPcs,
           LoopPcs, UndoPcs, EntryPcs, Publishing
<1>7. ASSUME StartApplying PROVE Goes
  <2>1. Wrote("APPLYING", 0, "check")
    BY <1>7, RecordingSteps
  <2> QED
    BY <1>7, <1>a, <2>1
       DEF StartApplying, Wrote, Moved, Rest, loop, Goes, PhaseAtPc, EarlyPcs,
           LoopPcs, UndoPcs, EntryPcs, Publishing
<1>8. ASSUME ApplyPending PROVE Goes
  <2>1. \/ Wrote("apply effect pending", cur,
                IF cur = Owner THEN "mkdir" ELSE "open")
       \/ Moved("rolling")
    BY <1>8, RecordingSteps
  <2> QED
    BY <1>8, <1>a, <2>1
       DEF ApplyPending, Wrote, Moved, GoTo, Rest, Goes, PhaseAtPc, EarlyPcs,
           LoopPcs
<1>9. ASSUME MakeParent PROVE Goes
  BY <1>9, <1>a
     DEF MakeParent, GoTo, Rest, Goes, PhaseAtPc, EarlyPcs, LoopPcs, UndoPcs,
         EntryPcs, Publishing
<1>10. ASSUME OpenLeaf PROVE Goes
  BY <1>10, <1>a
     DEF OpenLeaf, GoTo, Rest, Goes, PhaseAtPc, EarlyPcs, LoopPcs, UndoPcs,
         EntryPcs, Publishing
<1>11. ASSUME RunLeaf PROVE Goes
  <2>1. RunLeaf \/ LeafFails
    BY <1>11
  <2>2. pc = "leaf" /\ pc' = "leaf"
    BY <2>1, LeafMoves
  <2> QED
    BY <2>2 DEF Goes, EntryPcs
<1>12. ASSUME LeafReturns PROVE Goes
  BY <1>12, <1>a
     DEF LeafReturns, GoTo, Rest, loop, Goes, PhaseAtPc, EarlyPcs, LoopPcs,
         UndoPcs, EntryPcs, Publishing
<1>13. ASSUME Cleanup PROVE Goes
  BY <1>13, <1>a
     DEF Cleanup, TryRmdir, Rest, Goes, PhaseAtPc, EarlyPcs, LoopPcs, UndoPcs,
         EntryPcs, Publishing
<1>14. ASSUME CreatedParent PROVE Goes
  <2>1. Wrote("created parent", cur, "verify")
    BY <1>14, RecordingSteps
  <2> QED
    BY <1>14, <1>a, <2>1
       DEF CreatedParent, Wrote, Moved, Rest, Goes, PhaseAtPc, EarlyPcs,
           LoopPcs, UndoPcs, EntryPcs, Publishing
<1>15. ASSUME ApplyVerified PROVE Goes
  <2>1. \/ Wrote("apply effect verified", cur,
                IF cur = N THEN "final" ELSE "check")
       \/ Moved("rolling")
    BY <1>15, RecordingSteps
  <2> QED
    BY <1>15, <1>a, <2>1
       DEF ApplyVerified, Wrote, Moved, GiveUp, GoTo, Rest, Goes, PhaseAtPc,
           EarlyPcs, LoopPcs, UndoPcs, EntryPcs
<1>16. ASSUME FinalVerification PROVE Goes
  BY <1>16, <1>a
     DEF FinalVerification, GoTo, Rest, loop, Goes, PhaseAtPc, EarlyPcs,
         LoopPcs, UndoPcs, EntryPcs, Publishing
<1>17. ASSUME RecheckChangeset PROVE Goes
  <2>1. Wrote("change set digest rechecked", 0, "reindex")
    BY <1>17, RecordingSteps
  <2> QED
    BY <1>17, <1>a, <2>1
       DEF RecheckChangeset, Wrote, Moved, GiveUp, GoTo, Rest, loop, Goes,
           PhaseAtPc, EarlyPcs, LoopPcs, UndoPcs, EntryPcs
<1>18. ASSUME RecheckIndex PROVE Goes
  <2>1. Wrote("index digest rechecked", 0, "applied")
    BY <1>18, RecordingSteps
  <2> QED
    BY <1>18, <1>a, <2>1
       DEF RecheckIndex, Wrote, Moved, GiveUp, GoTo, Rest, loop, Goes,
           PhaseAtPc, EarlyPcs, LoopPcs, UndoPcs, EntryPcs
<1>19. ASSUME RecordApplied PROVE Goes
  <2>1. Wrote("APPLIED", 0, "returned")
    BY <1>19, RecordingSteps
  <2> QED
    BY <1>19, <1>a, <2>1
       DEF RecordApplied, Wrote, Moved, Rest, loop, Goes, PhaseAtPc, EarlyPcs,
           LoopPcs, UndoPcs, EntryPcs, Publishing
<1>20. ASSUME StartRollback PROVE Goes
  <2>1. Wrote("ROLLING_BACK", 0, "rbcheck")
    BY <1>20, RecordingSteps
  <2> QED
    BY <1>20, <1>a, <2>1
       DEF StartRollback, Wrote, Moved, Rest, loop, Goes, PhaseAtPc, EarlyPcs,
           LoopPcs, UndoPcs, EntryPcs, Publishing
<1>21. ASSUME RollbackDone PROVE Goes
  BY <1>21, <1>a
     DEF RollbackDone, GoTo, Rest, loop, Goes, PhaseAtPc, EarlyPcs, LoopPcs,
         UndoPcs, EntryPcs, Publishing
<1>22. ASSUME RollbackPending PROVE Goes
  <2>1. \/ Wrote("rollback effect pending", cur', "restore")
       \/ Wrote("rollback effect pending", cur', "rbverify")
       \/ /\ Logged(journal, "rollback effect pending", cur')
          /\ \/ Wrote("rollback effect verified", cur', "rbcheck")
             \/ Moved("restore")
       \/ Moved("rbcheck")
    BY <1>22, RecordingSteps
  <2> QED
    BY <1>22, <1>a, <2>1
       DEF RollbackPending, Wrote, Moved, Rest, Goes, PhaseAtPc, EarlyPcs,
           LoopPcs, UndoPcs, EntryPcs, Publishing
<1>23. ASSUME RestoreEntry PROVE Goes
  BY <1>23, <1>a
     DEF RestoreEntry, GoTo, Rest, Goes, PhaseAtPc, EarlyPcs, LoopPcs, UndoPcs,
         EntryPcs, Publishing
<1>24. ASSUME RemoveParent PROVE Goes
  BY <1>24, <1>a
     DEF RemoveParent, TryRmdir, Rest, loop, Goes, PhaseAtPc, EarlyPcs,
         LoopPcs, UndoPcs, EntryPcs, Publishing
<1>25. ASSUME RollbackVerified PROVE Goes
  <2>1. Wrote("rollback effect verified", cur, "rbcheck")
    BY <1>25, RecordingSteps
  <2> QED
    BY <1>25, <1>a, <2>1
       DEF RollbackVerified, Wrote, Moved, GiveUp, GoTo, Rest, Goes, PhaseAtPc,
           EarlyPcs, LoopPcs, UndoPcs, EntryPcs
<1>26. ASSUME RollbackFinal PROVE Goes
  <2>1. Wrote("rollback index digest rechecked", 0, "rbdone")
    BY <1>26, RecordingSteps
  <2> QED
    BY <1>26, <1>a, <2>1
       DEF RollbackFinal, Wrote, Moved, GiveUp, GoTo, Rest, loop, Goes,
           PhaseAtPc, EarlyPcs, LoopPcs, UndoPcs, EntryPcs
<1>27. ASSUME RecordRolledBack PROVE Goes
  <2>1. Wrote("ROLLED_BACK", 0, "returned")
    BY <1>27, RecordingSteps
  <2> QED
    BY <1>27, <1>a, <2>1
       DEF RecordRolledBack, Wrote, Moved, Rest, loop, Goes, PhaseAtPc,
           EarlyPcs, LoopPcs, UndoPcs, EntryPcs, Publishing
<1>28. ASSUME RequireRecovery PROVE Goes
  <2>1. \/ Noted("RECOVERY_REQUIRED", 0) /\ Counted /\ pc' = "returned"
       \/ Moved("returned")
    BY <1>28, RecordingSteps
  <2> QED
    BY <1>28, <1>a, <2>1
       DEF RequireRecovery, Wrote, Moved, GoTo, Rest, loop, Goes, PhaseAtPc,
           EarlyPcs, LoopPcs, UndoPcs, EntryPcs
<1>29. ASSUME Resolve PROVE Goes
  <2>1. pc' \in {"resolve", "classify", "require"}
    BY <1>29, ResolveMoves
  <2> QED
    BY <2>1 DEF Goes, EarlyPcs, EntryPcs
<1>30. ASSUME Classify PROVE Goes
  BY <1>30, <1>a
     DEF Classify, Rest, Goes, PhaseAtPc, EarlyPcs, LoopPcs, UndoPcs, EntryPcs,
         Publishing
<1>31. ASSUME Recover PROVE Goes
  BY <1>31, <1>a
     DEF Recover, Report, Rest, Goes, PhaseAtPc, EarlyPcs, LoopPcs, UndoPcs,
         EntryPcs, Publishing
<1>32. ASSUME Replay PROVE Goes
  BY <1>32, <1>a
     DEF Replay, Report, Rest, loop, Goes, PhaseAtPc, EarlyPcs, LoopPcs,
         UndoPcs, EntryPcs, Publishing
<1>33. ASSUME Crash PROVE Goes
  BY <1>33, <1>a
     DEF Crash, Goes, PhaseAtPc, EarlyPcs, LoopPcs, UndoPcs, EntryPcs,
         Publishing
<1>34. ASSUME LeafFails PROVE Goes
  <2>1. RunLeaf \/ LeafFails
    BY <1>34
  <2>2. pc = "leaf" /\ pc' = "leaf"
    BY <2>1, LeafMoves
  <2> QED
    BY <2>2 DEF Goes, EntryPcs
<1>35. ASSUME ResolveFails PROVE Goes
  BY <1>35, <1>a
     DEF ResolveFails, Fault, Rest, loop, Goes, PhaseAtPc, EarlyPcs, LoopPcs,
         UndoPcs, EntryPcs, Publishing
<1>36. ASSUME MakeParentFails PROVE Goes
  BY <1>36, <1>a
     DEF MakeParentFails, Fault, Rest, Goes, PhaseAtPc, EarlyPcs, LoopPcs,
         UndoPcs, EntryPcs, Publishing
<1>37. ASSUME ReadFails PROVE Goes
  BY <1>37, <1>a
     DEF ReadFails, Fault, Rest, Goes, PhaseAtPc, EarlyPcs, LoopPcs, UndoPcs,
         EntryPcs, Publishing
<1>38. ASSUME VerifyReadFails PROVE Goes
  BY <1>38, <1>a
     DEF VerifyReadFails, Fault, Rest, Goes, PhaseAtPc, EarlyPcs, LoopPcs,
         UndoPcs, EntryPcs, Publishing
<1>39. ASSUME NEW e \in Entries, UserEdits(e) PROVE Goes
  <2>1. UNCHANGED <<journal, pc, cur>>
    BY <1>39, EditMoves
  <2> QED
    BY <2>1 DEF Goes, Publishing
<1>40. ASSUME UserFillsDir PROVE Goes
  BY <1>40, <1>a
     DEF UserFillsDir, Edit, loop, Goes, PhaseAtPc, EarlyPcs, LoopPcs, UndoPcs,
         EntryPcs, Publishing
<1>41. ASSUME NEW what \in {"index", "workspace"}, UserChanges(what)
       PROVE  Goes
  BY <1>41, <1>a
     DEF UserChanges, Edit, loop, Goes, PhaseAtPc, EarlyPcs, LoopPcs, UndoPcs,
         EntryPcs, Publishing
<1>42. ASSUME UNCHANGED vars PROVE Goes
  BY <1>42, <1>a
     DEF vars, disks, budget, loop, Goes, PhaseAtPc, EarlyPcs, LoopPcs,
         UndoPcs, EntryPcs, Publishing
<1> QED
  BY <1>1, <1>2, <1>3, <1>4, <1>5, <1>6, <1>7, <1>8, <1>9, <1>10, <1>11, <1>12,
     <1>13, <1>14, <1>15, <1>16, <1>17, <1>18, <1>19, <1>20, <1>21, <1>22,
     <1>23, <1>24, <1>25, <1>26, <1>27, <1>28, <1>29, <1>30, <1>31, <1>32,
     <1>33, <1>34, <1>35, <1>36, <1>37, <1>38, <1>39, <1>40, <1>41, <1>42
     DEF Next, ApplyStep, RollbackStep, Failure, User

LEMMA CourseInitially ==
  ASSUME Init
  PROVE  OnCourse
<1>1. phase = "NONE"
  BY CoreInitially DEF CoreInv, PhaseAtPc, Init
<1> QED
  BY <1>1 DEF Init, OnCourse, AllOriginal

(* While only the process dies, the task workspace and the index stay as   *)
(* they are and the directory comes and goes with its owner.               *)
LEMMA ChangedStep ==
  ASSUME CoreInv, OnCourse, CrashesOnly, [Next]_vars
  PROVE  changed' = {}
<1>1. ASSUME Begin \/ Recover \/ Replay \/ UNCHANGED vars
      PROVE  changed' \in {{}, changed}
  BY <1>1 DEF Begin, Recover, Replay, vars, disks, Rest
<1>2. ASSUME ApplyStep
      PROVE  changed' = changed
  BY <1>2
     DEF ApplyStep, WritePlan, WriteHeader, BackupPending, BackupVerified,
         BackupReady, StartApplying, ApplyPending, MakeParent, OpenLeaf,
         RunLeaf, LeafReturns, Cleanup, CreatedParent, ApplyVerified,
         FinalVerification, RecheckChangeset, RecheckIndex, RecordApplied, Rest
<1>3. ASSUME RollbackStep \/ Failure
      PROVE  changed' = changed
  BY <1>3
     DEF RollbackStep, StartRollback, RollbackDone, RollbackPending,
         RestoreEntry, RemoveParent, RollbackVerified, RollbackFinal,
         RecordRolledBack, RequireRecovery, Resolve, Classify, Failure, Crash,
         LeafFails, ResolveFails, MakeParentFails, ReadFails, VerifyReadFails,
         Rest
<1> QED
  BY <1>1, <1>2, <1>3, Quiet DEF Next, OnCourse

LEMMA OwnerIsAnEntry ==
  ASSUME Nested # {}
  PROVE  Owner \in Entries /\ Owner \in Nested
<1>1. Nested \in SUBSET Nat /\ Nested \subseteq Entries
  BY JournalAssumption DEF Entries
<1>2. \E e \in Nested : \A f \in Nested : e <= f
  BY <1>1, Least
<1> QED
  BY <1>1, <1>2 DEF Owner

LEMMA DirStep ==
  ASSUME CoreInv, OnCourse, CrashesOnly, [Next]_vars
  PROVE  /\ Nested = {} => dir' = "absent"
         /\ Nested # {} /\ Clear(Owner)' => dir' = "absent"
         /\ pc' = "rbdone" \/ phase' = "ROLLED_BACK" => dir' = "absent"
<1>a. PhaseAtPc /\ LogAtPc /\ cur \in Entries
  BY DEF CoreInv, LogAhead, TypeOK
<1>b. /\ Nested = {} => dir = "absent"
      /\ Nested # {} /\ Clear(Owner) => dir = "absent"
      /\ pc = "rbdone" \/ phase = "ROLLED_BACK" => dir = "absent"
      /\ pc # "cleanup" /\ (pc = "verify" => disk[cur].name = New(cur))
  BY DEF OnCourse
<1>1. ASSUME dir = "absent", pc # "mkdir"
      PROVE  dir' = "absent"
  <2>1. CASE UNCHANGED dir
    BY <1>1, <2>1
  <2>2. CASE RunLeaf
    BY <1>1, <2>2, LeafMoves
  <2>3. CASE Resolve
    BY <1>1, <2>3, ResolveMoves
  <2>4. CASE MakeParent
    BY <1>1, <2>4 DEF MakeParent
  <2>5. CASE Cleanup \/ RemoveParent
    BY <1>1, <2>5 DEF Cleanup, RemoveParent, TryRmdir
  <2>6. ~UserFillsDir /\ ~(\E e \in Entries : UserEdits(e))
    BY Quiet DEF User
  <2> QED
    BY <2>1, <2>2, <2>3, <2>4, <2>5, <2>6, Quiet, TargetSteps
<1>2. ASSUME Nested = {} PROVE dir' = "absent"
  <2>1. pc # "mkdir"
    BY <1>2, <1>a, EntriesAreNumbers DEF LogAtPc, Owner
  <2> QED
    BY <1>1, <1>2, <1>b, <2>1
<1>3. ASSUME Nested # {}, Clear(Owner)' PROVE dir' = "absent"
  <2>0. Owner \in Entries
    BY <1>3, OwnerIsAnEntry
  <2>1. CASE Clear(Owner)
    <3>1. pc # "mkdir"
      BY <1>a, <2>1
         DEF LogAtPc, Clear, Publishing, Restoring, EntryPcs, EarlyPcs,
             LoopPcs, UndoPcs
    <3> QED
      BY <1>1, <1>3, <1>b, <2>1, <3>1
  <2>2. CASE Cleared(Owner)
    <3>1. disk[Owner].name = Original(Owner)
      BY <2>0, <2>2, ClearedIsOriginal
    <3>2. pc = "classify"
      BY <1>b, <2>0, <2>2, <3>1, OriginalAndNew DEF Cleared
    <3>3. dir = "absent"
      BY <2>0, <2>2, <3>2, ClearedIsOriginal DEF ParentLeft
    <3> QED
      BY <1>1, <3>2, <3>3
  <2> QED
    BY <1>3, <2>0, <2>1, <2>2, ClearStep DEF ClearsOnly
<1>4. ASSUME pc' = "rbdone" \/ phase' = "ROLLED_BACK" PROVE dir' = "absent"
  <2>1. CASE pc = "rbdone" \/ phase = "ROLLED_BACK"
    <3>1. pc # "mkdir"
      BY <1>a, <2>1 DEF PhaseAtPc, EntryPcs
    <3> QED
      BY <1>1, <1>b, <2>1, <3>1
  <2>2. CASE /\ pc = "rbfinal" /\ UNCHANGED <<disk, dir>>
             /\ CreatedParentsRestored(affected)
    <3>1. CASE Nested = {}
      BY <1>2, <3>1
    <3>2. CASE Nested # {}
      <4>1. CASE Owner \in affected
        BY <2>2, <4>1 DEF CreatedParentsRestored
      <4>2. CASE Owner \notin affected
        BY <1>b, <2>2, <3>2, <4>2 DEF Clear, UndoPcs
      <4> QED
        BY <4>1, <4>2
    <3> QED
      BY <3>1, <3>2
  <2> QED
    BY <1>4, <2>1, <2>2, AnnounceStep DEF Announces
<1> QED
  BY <1>2, <1>3, <1>4

(* Before an outcome is recorded nothing else happens but a crash.         *)
LEMMA OutcomeSteps ==
  ASSUME CoreInv, CrashesOnly, [Next]_vars, pc \in {"applied", "rbdone"},
         pc' = "require"
  PROVE  RecordApplied \/ RecordRolledBack
<1>1. ~Begin /\ ~Recover /\ ~Replay /\ ~UNCHANGED vars
  BY DEF Begin, Recover, Replay, vars
<1>2. ApplyStep => RecordApplied
  BY DEF ApplyStep, WritePlan, WriteHeader, BackupPending, BackupVerified,
         BackupReady, StartApplying, ApplyPending, MakeParent, OpenLeaf,
         RunLeaf, LeafReturns, Cleanup, CreatedParent, ApplyVerified,
         FinalVerification, RecheckChangeset, RecheckIndex
<1>3. RollbackStep => RecordRolledBack
  BY DEF RollbackStep, StartRollback, RollbackDone, RollbackPending,
         RestoreEntry, RemoveParent, RollbackVerified, RollbackFinal,
         RequireRecovery, Resolve, Classify
<1>4. ~Failure
  BY Quiet DEF Failure, Crash
<1> QED
  BY <1>1, <1>2, <1>3, <1>4, Quiet DEF Next

(* A coordinator that gives up does so before the outcome is recorded.     *)
LEMMA RequireStep ==
  ASSUME CoreInv, OnCourse, CrashesOnly, [Next]_vars,
         pc' = "require", Readable'
  PROVE  phase' \notin {"APPLIED", "ROLLED_BACK"}
<1>b. PhaseAtPc /\ changed = {} /\ edits = 0 /\ TypeOK
  BY Quiet DEF CoreInv, OnCourse
<1>1. ASSUME phase \in {"APPLIED", "ROLLED_BACK"}
      PROVE  FALSE
  <2>1. pc \in {"require", "returned", "down"}
    BY <1>1, <1>b DEF PhaseAtPc, TypeOK, Pcs, LoopPcs, EntryPcs, UndoPcs
  <2>2. CASE UNCHANGED vars
    BY <1>1, <2>2 DEF OnCourse, vars, disks, Readable
  <2>3. CASE RequireRecovery \/ Crash
    <3>1. CASE Crash
      BY <3>1 DEF Crash
    <3>2. CASE RequireRecovery
      BY <3>2, RecordingSteps DEF Moved
    <3> QED
      BY <2>3, <3>1, <3>2
  <2>4. CASE Recover \/ Replay
    <3>1. Readable
      BY <2>4 DEF Recover, Replay, Readable
    <3>2. CASE phase = "APPLIED"
      <4>1. AllNew
        BY <1>b, <3>2 DEF CoreInv, Outcomes
      <4>2. \A e \in Entries :
               disk[e].name = New(e) /\ disk[e].quar = "absent"
               /\ disk[e].temp = NoTemp
        <5>1. \A e \in Entries : disk[e] = LeafOf(New(e), "absent", NoTemp)
          BY <4>1 DEF AllNew, Clean, LeafOf
        <5> QED
          BY <5>1, LeafFields
      <4>3. AppliedHolds
        BY <1>b, <4>2
           DEF AppliedHolds, VerifyApplied, Matches,
               TransactionArtifactsAbsent, NoArtifacts
      <4> QED
        BY <2>4, <3>1, <3>2, <4>3 DEF Recover, Replay, Report
    <3>3. CASE phase = "ROLLED_BACK"
      <4>1. /\ \A e \in Entries : Spared(e) /\ NoArtifacts(e)
            /\ dir = "absent"
        BY <3>3 DEF CoreInv, Outcomes, OnCourse
      <4>2. RolledBackHolds
        BY <1>b, <4>1
           DEF RolledBackHolds, VerifyRestored, Matches, Spared,
               TransactionArtifactsAbsent, CreatedParentsRestored
      <4> QED
        BY <2>4, <3>1, <3>3, <4>2 DEF Recover, Replay, Report
    <3> QED
      BY <1>1, <3>2, <3>3
  <2> QED
    BY <2>1, <2>2, <2>3, <2>4, RestingSteps, Quiet
<1>2. ASSUME phase' \in {"APPLIED", "ROLLED_BACK"},
             phase \notin {"APPLIED", "ROLLED_BACK"}
      PROVE  FALSE
  <2>1. pc \in {"applied", "rbdone"}
    BY <1>2, AnnounceStep DEF Announces
  <2>2. RecordApplied \/ RecordRolledBack
    BY <2>1, OutcomeSteps
  <2>3. journal' = journal
    BY <2>2, Quiet DEF RecordApplied, RecordRolledBack, Record, RecordOr
  <2> QED
    BY <1>2, <2>3 DEF phase
<1> QED
  BY <1>1, <1>2

(* Every step stays on course.                                             *)
LEMMA CourseStep ==
  ASSUME CoreInv, OnCourse, CrashesOnly, [Next]_vars
  PROVE  OnCourse'
<1>a. /\ PhaseAtPc /\ cur \in Entries /\ Goes /\ TypeOK
      /\ disk \in [Entries -> Leaf]
  BY GoesStep DEF CoreInv, TypeOK
<1>b. \/ UNCHANGED disk \/ RunLeaf \/ Resolve
  BY TargetSteps, Quiet DEF User
<1>c. pc \notin {"leaf", "resolve"} => UNCHANGED disk
  BY <1>b DEF RunLeaf, Resolve
<1>1. ASSUME pc' \in EarlyPcs PROVE AllOriginal'
  <2>1. pc \in EarlyPcs
    BY <1>1, <1>a DEF Goes
  <2>2. UNCHANGED disk /\ AllOriginal
    BY <1>c, <2>1 DEF EarlyPcs, OnCourse
  <2> QED
    BY <2>2 DEF AllOriginal
<1>2. ASSUME pc' = "check" \/ Publishing', NEW e \in Entries, e > cur'
      PROVE  disk'[e] = Clean(Original(e))
  <2>1. cur \in Int /\ e \in Int
    BY <1>a, EntriesAreNumbers
  <2>2. CASE UNCHANGED disk /\ pc = "applying"
    BY <2>2 DEF OnCourse, EarlyPcs, AllOriginal
  <2>3. CASE UNCHANGED disk /\ (pc = "check" \/ Publishing) /\ e > cur
    BY <2>3 DEF OnCourse
  <2>4. CASE RunLeaf /\ Publishing
    <3>1. cur' = cur /\ disk'[e] = disk[e]
      BY <1>2, <2>1, <2>4, LeafMoves
    <3> QED
      BY <1>2, <2>4, <3>1 DEF OnCourse
  <2>5. CASE pc' = "check"
    <3>1. /\ pc \in {"applying", "check", "verify"} /\ (pc = "applying" \/ e > cur)
      BY <1>2, <1>a, <2>1, <2>5 DEF Goes
    <3> QED
      BY <1>c, <2>2, <2>3, <3>1 DEF Publishing, EntryPcs
  <2>6. CASE pc' \in EntryPcs
    <3>1. cur' = cur /\ (pc = "check" \/ Publishing)
      BY <1>a, <2>6 DEF Goes
    <3>2. ~Resolve
      BY <3>1 DEF Resolve, Publishing, EntryPcs
    <3>3. ~RunLeaf
      <4>1. SUFFICES ASSUME RunLeaf PROVE FALSE
        OBVIOUS
      <4>2. pc' = "leaf"
        BY <4>1, LeafMoves
      <4> QED
        BY <2>6, <4>2 DEF EntryPcs
    <3> QED
      BY <1>2, <1>b, <2>3, <3>1, <3>2, <3>3
  <2>7. CASE pc' = "leaf" /\ phase' = "APPLYING"
    <3>1. CASE RunLeaf
      <4>1. UNCHANGED <<journal, pc>>
        BY <3>1, LeafMoves
      <4>2. Publishing
        BY <2>7, <4>1 DEF Publishing, phase
      <4> QED
        BY <2>4, <3>1, <4>2
    <3>2. CASE OpenLeaf
      <4>1. pc = "open" /\ UNCHANGED <<disk, cur>>
        BY <3>2 DEF OpenLeaf
      <4> QED
        BY <1>2, <2>3, <4>1 DEF Publishing, EntryPcs
    <3>3. CASE RestoreEntry
      <4>1. phase = "ROLLING_BACK" /\ journal' = journal
        BY <1>a, <3>3 DEF RestoreEntry, PhaseAtPc, UndoPcs, GoTo
      <4> QED
        BY <2>7, <4>1 DEF phase
    <3>4. CASE UNCHANGED vars
      <4>1. UNCHANGED <<disk, cur, journal, pc>>
        BY <3>4 DEF vars, disks, loop
      <4>2. Publishing
        BY <2>7, <4>1 DEF Publishing, phase
      <4> QED
        BY <1>2, <2>3, <4>1, <4>2
    <3> QED
      BY <2>7, <3>1, <3>2, <3>3, <3>4, LeafSteps, Quiet
  <2> QED
    BY <1>2, <2>5, <2>6, <2>7 DEF Publishing
<1>3. ASSUME pc' \in {"check", "mkdir", "open"}
      PROVE  disk'[cur'] = Clean(Original(cur'))
  <2>1. CASE pc = "applying"
    <3>1. UNCHANGED disk /\ AllOriginal /\ cur' \in Entries
      BY <1>c, <2>1, TypesStep DEF OnCourse, EarlyPcs, TypeOK
    <3> QED
      BY <3>1 DEF AllOriginal
  <2>2. CASE pc \in {"check", "mkdir", "open"} /\ cur' = cur
    BY <1>c, <2>2 DEF OnCourse
  <2>3. CASE pc = "verify" /\ cur' = cur + 1
    <3>1. UNCHANGED disk /\ cur' \in Entries
      BY <1>c, <2>3, TypesStep DEF TypeOK
    <3>2. cur + 1 > cur
      BY <1>a, EntriesAreNumbers
    <3> QED
      BY <2>3, <3>1, <3>2 DEF OnCourse, Publishing, EntryPcs
  <2> QED
    BY <1>3, <1>a, <2>1, <2>2, <2>3 DEF Goes, EntryPcs
<1>4. ASSUME pc' = "leaf", phase' = "APPLYING" PROVE LeafOnWay'
  <2>1. CASE RunLeaf
    <3>1. UNCHANGED <<journal, pc>>
      BY <2>1, LeafMoves
    <3>2. phase = "APPLYING" /\ LeafOnWay
      BY <1>4, <3>1 DEF phase, OnCourse
    <3> QED
      BY <2>1, <3>2, LeafOnWayStep
  <2>2. CASE OpenLeaf
    <3>1. /\ disk[cur] = Clean(Original(cur)) /\ UNCHANGED <<disk, cur>>
          /\ at' = IF Matches(cur, Original(cur))
                     THEN LeafStart(disk[cur], Original(cur)) ELSE "uncertain"
      BY <2>2 DEF OpenLeaf, OnCourse
    <3>2. disk[cur] = LeafOf(Original(cur), "absent", NoTemp)
      BY <3>1 DEF Clean, LeafOf
    <3>3. disk[cur].name = Original(cur) /\ disk[cur].quar = "absent"
      BY <3>2, LeafFields
    <3>4. at' = IF Original(cur) # "absent" THEN "link" ELSE "create"
      BY <3>1, <3>3 DEF Matches, LeafStart
    <3>5. Original(cur) # "absent" \/ New(cur) # "absent"
      BY <1>a, OriginalAndNew
    <3>6. /\ disk'[cur'] = LeafOf(Original(cur), "absent", NoTemp)
          /\ Original(cur)' = Original(cur) /\ New(cur)' = New(cur)
      BY <3>1, <3>2
    <3> QED
      BY <3>4, <3>5, <3>6 DEF LeafOnWay
  <2>3. CASE RestoreEntry
    <3>1. phase = "ROLLING_BACK" /\ journal' = journal
      BY <1>a, <2>3 DEF RestoreEntry, PhaseAtPc, UndoPcs, GoTo
    <3> QED
      BY <1>4, <3>1 DEF phase
  <2>4. CASE UNCHANGED vars
    <3>1. UNCHANGED <<journal, disk, pc, cur, at>>
      BY <2>4 DEF vars, disks, loop
    <3>2. LeafOnWay
      BY <1>4, <3>1 DEF phase, OnCourse
    <3> QED
      BY <3>1, <3>2 DEF LeafOnWay
  <2> QED
    BY <1>4, <2>1, <2>2, <2>3, <2>4, LeafSteps, Quiet
<1>5. ASSUME pc' \in {"parent", "verify"}
      PROVE  disk'[cur'].name = New(cur')
  <2>1. cur' = cur
    BY <1>5, <1>a DEF Goes, EntryPcs
  <2>2. CASE pc \in {"parent", "verify"}
    BY <1>c, <2>1, <2>2 DEF OnCourse
  <2>3. CASE Publishing /\ pc = "leaf" /\ at = "done"
    <3>1. disk[cur] = LeafOf(New(cur), "absent", NoTemp)
      BY <2>3 DEF OnCourse, LeafOnWay, Publishing, EntryPcs
    <3>2. UNCHANGED disk
      BY <1>b, <2>3 DEF RunLeaf, Resolve, LeafEnds
    <3> QED
      BY <2>1, <3>1, <3>2, LeafFields
  <2> QED
    BY <1>5, <1>a, <2>2, <2>3 DEF Goes
<1>6. pc' # "cleanup"
  <2>1. SUFFICES ASSUME pc' = "cleanup" PROVE FALSE
    OBVIOUS
  <2>2. Publishing /\ pc = "leaf" /\ at \in LeafEnds \ {"done"}
    BY <1>a, <2>1 DEF Goes, OnCourse
  <2>3. LeafOnWay
    BY <2>2 DEF OnCourse, Publishing, EntryPcs
  <2> QED
    BY <2>2, <2>3 DEF LeafOnWay, LeafEnds
<1> QED
  BY <1>1, <1>2, <1>3, <1>4, <1>5, <1>6, ChangedStep, DirStep, RequireStep
     DEF OnCourse

-----------------------------------------------------------------------------
(* The refinement.                                                         *)

(* A step that writes a record leaves the target alone.                    *)
LEMMA RecordsAlone ==
  ASSUME CoreInv, CrashesOnly, [Next]_vars, journal' # journal
  PROVE  UNCHANGED <<disk, dir>>
<1>1. ~RunLeaf /\ ~Resolve
  BY LeafMoves, ResolveMoves
<1>2. ~MakeParent /\ ~Cleanup /\ ~RemoveParent
  BY DEF MakeParent, Cleanup, RemoveParent, GoTo
<1>3. ~UserFillsDir /\ ~(\E e \in Entries : UserEdits(e))
  BY Quiet DEF User
<1> QED
  BY <1>1, <1>2, <1>3, Quiet, TargetSteps

(* Once an outcome stands, the target rests; only the user is still told   *)
(* that recovery is required, and never of a transaction that ended.       *)
LEMMA OutcomeStands ==
  ASSUME CoreInv, OnCourse, CrashesOnly, [Next]_vars,
         phase \in {"APPLIED", "ROLLED_BACK", "RECOVERY_REQUIRED"}
  PROVE  UNCHANGED <<disk, dir>> /\ phase' = phase
<1>1. pc \in {"require", "returned", "down"}
  BY DEF CoreInv, TypeOK, Pcs, PhaseAtPc, LoopPcs, EntryPcs, UndoPcs
<1>2. RequireRecovery \/ Recover \/ Replay \/ Crash \/ UNCHANGED vars
  BY <1>1, RestingSteps, Quiet
<1>3. UNCHANGED <<disk, dir>>
  BY <1>2 DEF RequireRecovery, Recover, Replay, Crash, vars, disks
<1>4. CASE RequireRecovery
  <2>1. ~(Readable /\ phase # "RECOVERY_REQUIRED")
    BY <1>4 DEF RequireRecovery, OnCourse
  <2>2. journal' = journal
    BY <1>4, <2>1 DEF RequireRecovery, GoTo
  <2> QED
    BY <1>3, <2>2 DEF phase
<1>5. CASE Recover \/ Replay \/ Crash \/ UNCHANGED vars
  <2>1. journal' = journal
    BY <1>5 DEF Recover, Replay, Crash, vars, disks
  <2> QED
    BY <1>3, <2>1 DEF phase
<1> QED
  BY <1>2, <1>4, <1>5

LEMMA TargetIsOneOfThree ==
  /\ TargetState \in {"before", "between", "after"}
  /\ AllOriginal /\ dir = "absent" => TargetState = "before"
  /\ AllNew => TargetState = "after"
<1>1. AllNew => ~AllOriginal
  <2>1. SUFFICES ASSUME AllNew, AllOriginal PROVE FALSE
    OBVIOUS
  <2>2. /\ disk[1] = LeafOf(New(1), "absent", NoTemp)
        /\ disk[1] = LeafOf(Original(1), "absent", NoTemp)
    BY <2>1, EntriesAreNumbers DEF AllNew, AllOriginal, Clean, LeafOf
  <2>3. disk[1].name = New(1) /\ disk[1].name = Original(1)
    BY <2>2, LeafFields
  <2> QED
    BY <2>3, EntriesAreNumbers, OriginalAndNew
<1> QED
  BY <1>1 DEF TargetState

(* Every step is one of AtomicApply, or leaves what it shows as it is.     *)
LEMMA AtomicStep ==
  ASSUME CoreInv, OnCourse, CrashesOnly, [Next]_vars
  PROVE  Atomic!Next \/ UNCHANGED <<TargetState, OutcomeState>>
<1>1. CASE phase \in {"APPLIED", "ROLLED_BACK", "RECOVERY_REQUIRED"}
  <2>1. UNCHANGED <<disk, dir>> /\ phase' = phase
    BY <1>1, OutcomeStands
  <2>2. OutcomeState' = OutcomeState
    BY <2>1 DEF OutcomeState
  <2>3. TargetState' = TargetState
    BY <2>1 DEF TargetState, AllOriginal, AllNew
  <2> QED
    BY <2>2, <2>3
<1>2. CASE phase \notin {"APPLIED", "ROLLED_BACK", "RECOVERY_REQUIRED"}
  <2>0. OutcomeState = "open"
    BY <1>2 DEF OutcomeState
  <2>1. CASE phase' \notin {"APPLIED", "ROLLED_BACK", "RECOVERY_REQUIRED"}
    <3>1. OutcomeState' = "open"
      BY <2>1 DEF OutcomeState
    <3>2. TargetState' \in {"before", "between", "after"}
      BY DEF TargetState
    <3> QED
      BY <2>0, <3>1, <3>2 DEF Atomic!Next, Atomic!Work
  <2>2. CASE phase' \in {"APPLIED", "ROLLED_BACK", "RECOVERY_REQUIRED"}
    <3>1. journal' # journal
      BY <1>2, <2>2 DEF phase
    <3>2. UNCHANGED <<disk, dir>>
      BY <3>1, RecordsAlone
    <3>3. TargetState' = TargetState
      BY <3>2 DEF TargetState, AllOriginal, AllNew
    <3>4. CASE phase' = "APPLIED"
      <4>1. pc = "applied"
        BY <1>2, <3>4, AnnounceStep DEF Announces
      <4>2. AllNew
        BY <4>1, Quiet DEF CoreInv, Outcomes
      <4>3. OutcomeState' = "applied"
        BY <3>4 DEF OutcomeState
      <4> QED
        BY <2>0, <3>3, <4>2, <4>3, TargetIsOneOfThree
           DEF Atomic!Next, Atomic!Commit
    <3>5. CASE phase' = "ROLLED_BACK"
      <4>1. pc = "rbdone"
        BY <1>2, <3>5, AnnounceStep DEF Announces
      <4>2. \A e \in Entries : Spared(e) /\ NoArtifacts(e)
        BY <4>1 DEF CoreInv, Outcomes
      <4>3. AllOriginal
        BY <4>2, Quiet, CleanLeaf DEF AllOriginal, Spared, CoreInv
      <4>4. dir = "absent"
        BY <4>1 DEF OnCourse
      <4>5. OutcomeState' = "rolled back"
        BY <3>5 DEF OutcomeState
      <4> QED
        BY <2>0, <3>3, <4>3, <4>4, <4>5, TargetIsOneOfThree
           DEF Atomic!Next, Atomic!Abort
    <3>6. CASE phase' = "RECOVERY_REQUIRED"
      <4>1. OutcomeState' = "manual"
        BY <3>6 DEF OutcomeState
      <4> QED
        BY <2>0, <3>3, <4>1 DEF Atomic!Next, Atomic!Escalate
    <3> QED
      BY <2>2, <3>4, <3>5, <3>6
  <2> QED
    BY <2>1, <2>2
<1> QED
  BY <1>1, <1>2

(* The refinement, for crashes alone: whatever the plan and however often  *)
(* the process dies, the transaction looks like AtomicApply - applied only *)
(* when all of it is in the target, rolled back only when none of it is,   *)
(* and untouched once it has ended.                                        *)
THEOREM TransactionIsAtomic ==
  ASSUME MaxFaults = 0, MaxEdits = 0
  PROVE  Spec => ImplementsAtomicApply
<1>a. CrashesOnly
  BY DEF CrashesOnly
<1>1. Init => CoreInv /\ OnCourse
  BY CoreInitially, CourseInitially
<1>2. CoreInv /\ OnCourse /\ [Next]_vars => (CoreInv /\ OnCourse)'
  BY <1>a, CoreKept, CourseStep
<1>3. Init => Atomic!Init
  <2>1. SUFFICES ASSUME Init PROVE Atomic!Init
    OBVIOUS
  <2>2. AllOriginal /\ dir = "absent"
    BY <2>1 DEF Init, AllOriginal
  <2>3. phase = "NONE"
    BY <2>1, CoreInitially DEF CoreInv, PhaseAtPc, Init
  <2> QED
    BY <2>2, <2>3, TargetIsOneOfThree DEF Atomic!Init, OutcomeState
<1>4. CoreInv /\ OnCourse /\ [Next]_vars
        => [Atomic!Next]_<<TargetState, OutcomeState>>
  BY <1>a, AtomicStep
<1> QED
  BY <1>1, <1>2, <1>3, <1>4, PTL DEF Spec, ImplementsAtomicApply, Atomic!Spec
=============================================================================
