---------------------------- MODULE ApplyJournal ----------------------------
(***************************************************************************)
(* The append-only log of one apply transaction and the rules              *)
(* transaction/journal.py enforces on it.                                  *)
(*                                                                         *)
(* A record is abstracted to its kind and the plan entry it is about       *)
(* (0 for none).  The kind of a phase record is the phase; the kind of any *)
(* other record is its detail text, which determines stage and status.     *)
(* order is the position in the sequence.  The evidence digests that       *)
(* depend on the plan alone are left out; the two that can differ (change  *)
(* set, index) are compared by the action that writes the record.          *)
(***************************************************************************)
EXTENDS Integers, Sequences, FiniteSets

CONSTANTS
  N,        \* number of plan entries, applied in the order 1..N
  Nested    \* the entries whose parent directory does not exist beforehand

ASSUME JournalAssumption ==
  /\ N \in Nat \ {0}
  /\ Nested \subseteq 1..N

Entries == 1..N

(* created_parent_paths: the first entry below the missing directory owns  *)
(* its creation (0 if no directory is missing).                            *)
Owner == IF Nested = {} THEN 0
         ELSE CHOOSE e \in Nested : \A f \in Nested : e <= f

Phases == {"PREPARING", "BACKUP_READY", "APPLYING", "APPLIED",
           "ROLLING_BACK", "ROLLED_BACK", "RECOVERY_REQUIRED"}
BackupKinds   == {"backup pending", "backup verified"}
ApplyKinds    == {"apply effect pending", "apply effect verified"}
VerifyKinds   == {"change set digest rechecked", "index digest rechecked"}
RollbackKinds == {"rollback effect pending", "rollback effect verified"}
Kinds == Phases \cup BackupKinds \cup ApplyKinds \cup VerifyKinds
           \cup RollbackKinds
           \cup {"created parent", "rollback index digest rechecked"}
JournalRecord == [kind : Kinds, entry : 0..N]

Rec(kind, e) == [kind |-> kind, entry |-> e]
PhaseRec(phase) == Rec(phase, 0)

(* _PHASE_PREDECESSORS *)
Predecessors(phase) ==
  CASE phase = "PREPARING"         -> {}
    [] phase = "BACKUP_READY"      -> {"PREPARING"}
    [] phase = "APPLYING"          -> {"BACKUP_READY"}
    [] phase = "APPLIED"           -> {"APPLYING"}
    [] phase = "ROLLING_BACK"      -> {"APPLYING", "RECOVERY_REQUIRED"}
    [] phase = "ROLLED_BACK"       -> {"ROLLING_BACK"}
    [] phase = "RECOVERY_REQUIRED" -> Phases \ {"RECOVERY_REQUIRED"}

(* The phase reached by the first n records ("NONE" before any). *)
PhaseUpTo(j, n) ==
  LET at == {i \in 1..n : j[i].kind \in Phases}
  IN IF at = {} THEN "NONE"
     ELSE j[CHOOSE i \in at : \A k \in at : k <= i].kind

LatestPhase(j) == PhaseUpTo(j, Len(j))

Positions(j, kind, e) == {i \in 1..Len(j) : j[i] = Rec(kind, e)}
Logged(j, kind, e)    == \E i \in 1..Len(j) : j[i] = Rec(kind, e)
Once(j, kind, e)      == Cardinality(Positions(j, kind, e)) = 1
Place(j, kind, e)     == CHOOSE i \in 1..Len(j) : j[i] = Rec(kind, e)

(* One record of the first kind, then one of the second, before at. *)
Pair(j, first, second, e, at) ==
  /\ Once(j, first, e) /\ Once(j, second, e)
  /\ Place(j, first, e) < Place(j, second, e)
  /\ Place(j, second, e) < at

(* _validate_backup_evidence *)
BackupEvidence(j, at) ==
  \A e \in Entries : Pair(j, "backup pending", "backup verified", e, at)

(* _validate_applied_evidence *)
AppliedEvidence(j, at) ==
  /\ \A e \in Entries :
       /\ Pair(j, "apply effect pending", "apply effect verified", e, at)
       /\ e = Owner =>
            /\ Pair(j, "apply effect pending", "created parent", e, at)
            /\ Pair(j, "created parent", "apply effect verified", e, at)
  /\ \A kind \in VerifyKinds : \E i \in 1..(at - 1) : j[i] = Rec(kind, 0)

(* _validate_rolled_back_evidence: an entry whose apply step was verified  *)
(* has one rollback step after it, and the index was rechecked once.       *)
RolledBackEvidence(j, at) ==
  /\ \A e \in Entries :
       Logged(j, "apply effect verified", e) =>
         /\ Pair(j, "apply effect verified", "rollback effect pending", e, at)
         /\ Pair(j, "rollback effect pending", "rollback effect verified", e, at)
  /\ Cardinality({i \in Positions(j, "rollback index digest rechecked", 0) :
                    i < at}) = 1

(* _validate_nonphase_record *)
NonPhaseValid(phase, rec) ==
  \/ phase = "PREPARING" /\ rec.kind \in BackupKinds /\ rec.entry \in Entries
  \/ phase = "APPLYING" /\ rec.kind \in ApplyKinds /\ rec.entry \in Entries
  \/ phase = "APPLYING" /\ Nested # {} /\ rec = Rec("created parent", Owner)
  \/ phase = "APPLYING" /\ rec.kind \in VerifyKinds /\ rec.entry = 0
  \/ phase = "ROLLING_BACK" /\ rec.kind \in RollbackKinds /\ rec.entry \in Entries
  \/ phase = "ROLLING_BACK" /\ rec = Rec("rollback index digest rechecked", 0)

(* The evidence a phase record at position at needs. *)
PhaseEvidence(j, at) ==
  CASE j[at].kind = "BACKUP_READY" -> BackupEvidence(j, at)
    [] j[at].kind = "APPLIED"      -> AppliedEvidence(j, at)
    [] j[at].kind = "ROLLED_BACK"  -> RolledBackEvidence(j, at)
    [] OTHER                       -> TRUE

(* The first phase record opens the log. *)
PhaseValid(j, at) ==
  LET before == PhaseUpTo(j, at - 1) IN
  /\ j[at].entry = 0
  /\ IF before = "NONE"
       THEN at = 1 /\ j[at].kind \in {"PREPARING", "RECOVERY_REQUIRED"}
       ELSE before \in Predecessors(j[at].kind)
  /\ PhaseEvidence(j, at)

(* _validate_record_sequence, run on every read of the log. *)
ValidRecordSequence(j) ==
  \A at \in 1..Len(j) :
    IF j[at].kind \in Phases THEN PhaseValid(j, at)
                             ELSE NonPhaseValid(PhaseUpTo(j, at - 1), j[at])

(* What record() lets through: a phase record revalidates the whole log,   *)
(* any other record is checked against the current phase alone.            *)
Accepts(j, rec) ==
  IF rec.kind \in Phases THEN ValidRecordSequence(Append(j, rec))
                         ELSE NonPhaseValid(LatestPhase(j), rec)
=============================================================================
