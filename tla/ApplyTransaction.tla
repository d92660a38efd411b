-------------------------- MODULE ApplyTransaction --------------------------
(***************************************************************************)
(* One apply transaction: ApplyCoordinator.apply (transaction/apply.py)    *)
(* writes a change set back to the user's repository under a write-ahead   *)
(* journal, and RecoveryCoordinator.recover (transaction/recovery.py)      *)
(* finishes the job after a crash, while the user edits the repository and *)
(* the file system fails.                                                  *)
(*                                                                         *)
(* Durable state: the transaction directory (plan, journal, torn, blobs),  *)
(* the target leaves (disk) and the one missing parent directory (dir).    *)
(* Volatile state, lost in a crash: the program counter and the loop       *)
(* variables of the coordinator.  A crash is the death of the process: the *)
(* system calls it made have happened, in order.                           *)
(*                                                                         *)
(* Left out: the user replacing directories that existed beforehand        *)
(* (_plan_filesystem_identity_matches, named_chain_matches), and damage to *)
(* the blobs of the transaction directory, which nobody else writes.       *)
(*                                                                         *)
(* An operator Name_Slip is Name with a plausible slip: no specification   *)
(* uses it; putting it in Name's place must break a property.              *)
(***************************************************************************)
EXTENDS ApplyJournal, LeafEffect

CONSTANTS
  Op,          \* the operation of each entry
  Symlinks,    \* the entries that are symbolic links
  MaxCrashes,  \* bound: process crashes
  MaxFaults,   \* bound: failing system calls
  MaxEdits     \* bound: changes made by the user

ASSUME TransactionAssumption ==
  /\ Op \in [Entries -> {"create", "modify", "delete"}]
  /\ \A e \in Nested : Op[e] = "create"
  /\ Symlinks \subseteq Entries
  /\ {MaxCrashes, MaxFaults, MaxEdits} \subseteq Nat

VARIABLES
  plan,      \* "none", "dir" (directory made, no plan.json) or "ready"
  journal,   \* journal.jsonl
  torn,      \* journal.jsonl ends in an incomplete line
  blobs,     \* the entries whose payload and backup are stored and verified
  disk,      \* the target: entry -> Leaf
  dir,       \* the missing parent: "absent", "ours", "populated" (ours, with
             \* a file of the user in it) or "foreign" (made by the user)
  changed,   \* what the user changed besides: "index", "workspace"
  pc,        \* where the coordinator is
  who,       \* "apply" or "recover"
  cur,       \* the entry being worked on
  at,        \* the step of its leaf effect
  made,      \* this publish created the parent directory
  affected,  \* the entries to roll back
  todo,      \* those not yet rolled back
  result,    \* task_state of the last ApplyResult
  crashes, faults, edits

disks    == <<plan, journal, torn, blobs, disk, dir, changed>>
loop     == <<who, cur, at, made, affected, todo>>
budget   == <<crashes, faults, edits>>
vars     == <<disks, pc, loop, result, budget>>

Original(e) == IF Op[e] = "create" THEN "absent" ELSE "old"
New(e)      == IF Op[e] = "delete" THEN "absent" ELSE "new"
phase       == LatestPhase(journal)
Readable    == plan = "ready" /\ ~torn

(* The content the current leaf effect displaces and the one it writes. *)
Displaced(e) == IF phase = "ROLLING_BACK" THEN New(e) ELSE Original(e)
Desired(e)   == IF phase = "ROLLING_BACK" THEN Original(e) ELSE New(e)

Pcs == {"idle", "mkplan", "header", "backup", "backup2", "ready", "applying",
        "check", "mkdir", "open", "leaf", "cleanup", "parent", "verify",
        "final", "recheck", "reindex", "applied", "rolling", "rbcheck",
        "restore", "rmdir", "rbverify", "rbfinal", "rbdone", "require",
        "resolve", "classify", "returned", "down"}

TypeOK ==
  /\ plan \in {"none", "dir", "ready"}
  /\ journal \in Seq(JournalRecord)
  /\ torn \in BOOLEAN
  /\ blobs \subseteq Entries
  /\ disk \in [Entries -> Leaf]
  /\ dir \in {"absent", "ours", "populated", "foreign"}
  /\ changed \subseteq {"index", "workspace"}
  /\ pc \in Pcs
  /\ who \in {"apply", "recover"}
  /\ cur \in Entries
  /\ at \in {"none"} \cup EffectSteps \cup ResolveSteps \cup LeafEnds
  /\ made \in BOOLEAN
  /\ affected \subseteq Entries /\ todo \subseteq affected
  /\ result \in {"none", "COMPLETED", "FAILED", "RECOVERY_REQUIRED"}
  /\ crashes \in 0..MaxCrashes
  /\ faults \in 0..MaxFaults
  /\ edits \in 0..MaxEdits

Init ==
  /\ plan = "none" /\ journal = <<>> /\ torn = FALSE /\ blobs = {}
  /\ disk = [e \in Entries |-> Clean(Original(e))]
  /\ dir = "absent" /\ changed = {}
  /\ pc = "idle" /\ who = "apply" /\ cur = 1 /\ at = "none" /\ made = FALSE
  /\ affected = {} /\ todo = {}
  /\ result = "none"
  /\ crashes = 0 /\ faults = 0 /\ edits = 0

---------------------------------------------------------------------------
(* Observations of the target. *)
Matches(e, content) == disk[e].name = content
NoArtifacts(e) == disk[e].quar = "absent" /\ disk[e].temp = NoTemp
VerifyApplied  == \A e \in Entries : Matches(e, New(e))
VerifyRestored(S) == \A e \in S : Matches(e, Original(e))
TransactionArtifactsAbsent == \A e \in Entries : NoArtifacts(e)
CreatedParentsRestored(S) == Owner \in S => dir = "absent"
DirEmpty == /\ dir = "ours"
            /\ \A e \in Nested : Matches(e, "absent") /\ NoArtifacts(e)

(* A system call of the coordinator raises. *)
Fault == faults < MaxFaults /\ faults' = faults + 1

RecordOr_Unchecked(rec, next, onError) ==
  journal' = Append(journal, rec) /\ pc' = next /\ UNCHANGED <<torn, faults>>

(* journal.record(rec).  Refused unless the journal accepts it; a write    *)
(* that raises leaves no line, an incomplete line or, if only the flush    *)
(* failed, the whole line.                                                 *)
RecordOr(rec, next, onError) ==
  \/ /\ Accepts(journal, rec)
     /\ journal' = Append(journal, rec) /\ pc' = next
     /\ UNCHANGED <<torn, faults>>
  \/ /\ ~Accepts(journal, rec)
     /\ pc' = onError
     /\ UNCHANGED <<journal, torn, faults>>
  \/ /\ Accepts(journal, rec) /\ Fault
     /\ \/ journal' \in {journal, Append(journal, rec)} /\ UNCHANGED torn
        \/ torn' = TRUE /\ UNCHANGED journal
     /\ pc' = onError

(* Everywhere but in require_recovery itself, a failed record means that   *)
(* recovery is required.                                                   *)
Record(rec, next) == RecordOr(rec, next, "require")
GoTo(next)        == pc' = next /\ UNCHANGED <<journal, torn, faults>>
GiveUp            == GoTo("require")

(* _remove_created_parents: os.rmdir of a directory that is the            *)
(* transaction's; a directory the user filled is kept, errors are ignored. *)
TryRmdir(isOurs) ==
  \/ dir' = (IF isOurs /\ DirEmpty THEN "absent" ELSE dir) /\ UNCHANGED faults
  \/ isOurs /\ DirEmpty /\ Fault /\ UNCHANGED dir

(* The steps at which the coordinator writes a record. *)
RecordPcs == {"header", "backup", "backup2", "ready", "applying", "check",
              "parent", "verify", "recheck", "reindex", "applied", "rolling",
              "rbcheck", "rbverify", "rbfinal", "rbdone", "require"}

Rest == UNCHANGED <<changed, crashes, edits>>

(* apply() starts: no transaction of this id exists, the confirmation      *)
(* stands and detect_conflicts finds every target as the baseline has it.  *)
Begin ==
  /\ pc = "idle" /\ plan = "none"
  /\ \A e \in Entries : Matches(e, Original(e))
  /\ dir = "absent" /\ "workspace" \notin changed
  /\ GoTo("mkplan") /\ plan' = "dir" /\ changed' = {}
  /\ UNCHANGED <<blobs, disk, dir, loop, result, crashes, edits>>

WritePlan ==
  /\ pc = "mkplan"
  /\ plan' = "ready" /\ GoTo("header")
  /\ UNCHANGED <<blobs, disk, dir, loop, result>> /\ Rest

WriteHeader ==
  /\ pc = "header"
  /\ Record(PhaseRec("PREPARING"), "backup")
  /\ UNCHANGED <<plan, blobs, disk, dir, loop, result>> /\ Rest

BackupPending ==
  /\ pc = "backup"
  /\ Record(Rec("backup pending", cur), "backup2")
  /\ UNCHANGED <<plan, blobs, disk, dir, loop, result>> /\ Rest

BackupVerified_NoReset ==
  /\ pc = "backup2"
  /\ blobs' = blobs \cup {cur}
  /\ IF Matches(cur, Original(cur))
       THEN /\ Record(Rec("backup verified", cur),
                      IF cur = N THEN "ready" ELSE "backup")
            /\ cur' = cur + 1
       ELSE GiveUp /\ UNCHANGED cur
  /\ UNCHANGED <<plan, disk, dir, who, at, made, affected, todo, result>> /\ Rest

(* The backup is stored and the target is still what was backed up. *)
BackupVerified ==
  /\ pc = "backup2"
  /\ blobs' = blobs \cup {cur}
  /\ IF Matches(cur, Original(cur))
       THEN /\ Record(Rec("backup verified", cur),
                      IF cur = N THEN "ready" ELSE "backup")
            /\ cur' = IF cur = N THEN 1 ELSE cur + 1
       ELSE GiveUp /\ UNCHANGED cur
  /\ UNCHANGED <<plan, disk, dir, who, at, made, affected, todo, result>> /\ Rest

BackupReady ==
  /\ pc = "ready"
  /\ Record(PhaseRec("BACKUP_READY"), "applying")
  /\ UNCHANGED <<plan, blobs, disk, dir, loop, result>> /\ Rest

StartApplying ==
  /\ pc = "applying"
  /\ Record(PhaseRec("APPLYING"), "check")
  /\ UNCHANGED <<plan, blobs, disk, dir, loop, result>> /\ Rest

---------------------------------------------------------------------------
ApplyPending_NotLogged ==
  /\ pc = "check"
  /\ GoTo(IF cur = Owner THEN "mkdir" ELSE "open")
  /\ todo' = affected
  /\ UNCHANGED <<plan, blobs, disk, dir, who, cur, at, made, affected, result>>
  /\ Rest

(* The publish loop: an entry whose target changed stops it before any     *)
(* effect, and what was published is rolled back.                          *)
ApplyPending ==
  /\ pc = "check"
  /\ IF Matches(cur, Original(cur)) /\ (cur = Owner => dir = "absent")
       THEN Record(Rec("apply effect pending", cur),
                   IF cur = Owner THEN "mkdir" ELSE "open")
       ELSE GoTo("rolling")
  /\ todo' = affected
  /\ UNCHANGED <<plan, blobs, disk, dir, who, cur, at, made, affected, result>>
  /\ Rest

(* _open_parent_fd: a directory that appeared in the meantime is entered   *)
(* and is not counted as created.                                          *)
MakeParent ==
  /\ pc = "mkdir"
  /\ dir' = IF dir = "absent" THEN "ours" ELSE dir
  /\ made' = (dir = "absent")
  /\ GoTo("open")
  /\ UNCHANGED <<plan, blobs, disk, who, cur, at, affected, todo, result>>
  /\ Rest

(* The leaf is looked at once more through the opened parent. *)
OpenLeaf ==
  /\ pc = "open"
  /\ at' = IF Matches(cur, Original(cur)) THEN LeafStart(disk[cur], Original(cur))
                                          ELSE "uncertain"
  /\ GoTo("leaf")
  /\ UNCHANGED <<plan, blobs, disk, dir, who, cur, made, affected, todo, result>>
  /\ Rest

(* One system call of _conditional_leaf_effect, in apply or in rollback. *)
RunLeaf ==
  /\ pc = "leaf" /\ at \notin LeafEnds
  /\ LET o == LeafStep(disk[cur], at, Displaced(cur), Desired(cur),
                       cur \in Symlinks)
     IN disk' = [disk EXCEPT ![cur] = o.leaf] /\ at' = o.at
  /\ GoTo(pc)
  /\ UNCHANGED <<plan, blobs, dir, who, cur, made, affected, todo, result>>
  /\ Rest

LeafReturns ==
  /\ pc = "leaf" /\ at \in LeafEnds
  /\ GoTo(IF phase = "ROLLING_BACK" THEN IF at = "done" THEN "rmdir" ELSE "require"
          ELSE IF at = "done" THEN IF made THEN "parent" ELSE "verify"
          ELSE "cleanup")
  /\ UNCHANGED <<plan, blobs, disk, dir, loop, result>> /\ Rest

(* _publish_entry raised: the directories it made are removed if they are  *)
(* still empty (an error there is ignored).  An uncertain effect requires  *)
(* recovery; after a failed one the leaf decides what is rolled back.      *)
Cleanup ==
  /\ pc = "cleanup"
  /\ TryRmdir(made)
  /\ made' = FALSE
  /\ affected' = IF at = "failed" /\ Matches(cur, New(cur))
                   THEN affected \cup {cur} ELSE affected
  /\ todo' = affected'
  /\ pc' = IF at = "failed" /\ disk[cur].name \in {Original(cur), New(cur)}
             THEN "rolling" ELSE "require"
  /\ UNCHANGED <<plan, journal, torn, blobs, disk, who, cur, at, result>> /\ Rest

CreatedParent ==
  /\ pc = "parent"
  /\ Record(Rec("created parent", cur), "verify")
  /\ made' = FALSE
  /\ UNCHANGED <<plan, blobs, disk, dir, who, cur, at, affected, todo, result>> /\ Rest

ApplyVerified ==
  /\ pc = "verify"
  /\ IF Matches(cur, New(cur))
       THEN /\ affected' = affected \cup {cur}
            /\ Record(Rec("apply effect verified", cur),
                      IF cur = N THEN "final" ELSE "check")
            /\ cur' = IF cur = N THEN 1 ELSE cur + 1
       ELSE /\ IF Matches(cur, Original(cur)) THEN GoTo("rolling") ELSE GiveUp
            /\ UNCHANGED <<affected, cur>>
  /\ todo' = affected'
  /\ UNCHANGED <<plan, blobs, disk, dir, who, at, made, result>> /\ Rest

FinalVerification ==
  /\ pc = "final"
  /\ GoTo(IF VerifyApplied /\ TransactionArtifactsAbsent THEN "recheck" ELSE "rolling")
  /\ UNCHANGED <<plan, blobs, disk, dir, loop, result>> /\ Rest

(* The digest that was read becomes the evidence of the record, and the    *)
(* journal refuses evidence that is not the plan's.                        *)
RecheckChangeset ==
  /\ pc = "recheck"
  /\ IF "workspace" \in changed THEN GiveUp
     ELSE Record(Rec("change set digest rechecked", 0), "reindex")
  /\ UNCHANGED <<plan, blobs, disk, dir, loop, result>> /\ Rest

RecheckIndex ==
  /\ pc = "reindex"
  /\ IF "index" \in changed THEN GiveUp
     ELSE Record(Rec("index digest rechecked", 0), "applied")
  /\ UNCHANGED <<plan, blobs, disk, dir, loop, result>> /\ Rest

RecordApplied ==
  /\ pc = "applied"
  /\ Record(PhaseRec("APPLIED"), "returned")
  /\ result' = IF pc' = "returned" THEN "COMPLETED" ELSE result
  /\ UNCHANGED <<plan, blobs, disk, dir, loop>> /\ Rest

---------------------------------------------------------------------------
(* Rollback, by apply() after a failure or by recover() after a crash. *)
StartRollback ==
  /\ pc = "rolling"
  /\ Record(PhaseRec("ROLLING_BACK"), "rbcheck")
  /\ UNCHANGED <<plan, blobs, disk, dir, loop, result>> /\ Rest

Last(S) == CHOOSE e \in S : \A f \in S : f <= e
ParentLeft(e) == e = Owner /\ dir # "absent"
ParentLogged  == Logged(journal, "created parent", Owner)

(* _created_parent_cleanup_needed raises for a directory it cannot prove   *)
(* to be the transaction's.                                                *)
ParentUnproved(e) == ParentLeft(e) /\ (~ParentLogged \/ dir = "foreign")

RollbackDone ==
  /\ pc = "rbcheck" /\ todo = {}
  /\ GoTo("rbfinal")
  /\ UNCHANGED <<plan, blobs, disk, dir, loop, result>> /\ Rest

(* apply: the entry must be new, or original with a directory to remove or *)
(* nothing to do.                                                          *)
ApplyRollsBack(e) ==
  /\ IF disk[e].name \in {New(e), Original(e)}
       THEN Record(Rec("rollback effect pending", e),
                   IF Matches(e, New(e)) \/ ParentLeft(e) THEN "restore"
                                                          ELSE "rbverify")
       ELSE GiveUp
  /\ UNCHANGED todo

(* recover: an entry found restored needs no second effect, only the       *)
(* completion of a rollback step that was pending; a pending step is not   *)
(* announced twice.                                                        *)
RecoverRollsBack(e) ==
  LET pending  == Logged(journal, "rollback effect pending", e)
      restored == Matches(e, Original(e)) /\ ~ParentLeft(e)
  IN /\ CASE ParentUnproved(e) -> GiveUp
          [] restored /\ pending ->
               Record(Rec("rollback effect verified", e), "rbcheck")
          [] restored /\ ~pending -> GoTo("rbcheck")
          [] ~restored /\ pending /\ ~ParentUnproved(e) -> GoTo("restore")
          [] ~restored /\ ~pending /\ ~ParentUnproved(e) ->
               Record(Rec("rollback effect pending", e), "restore")
     /\ todo' = IF restored /\ pc' = "rbcheck" THEN todo \ {e} ELSE todo

RollbackPending ==
  /\ pc = "rbcheck" /\ todo # {}
  /\ cur' = Last(todo)
  /\ IF who = "apply" THEN ApplyRollsBack(Last(todo)) ELSE RecoverRollsBack(Last(todo))
  /\ UNCHANGED <<plan, blobs, disk, dir, who, at, made, affected, result>> /\ Rest

(* _restore_entry up to its leaf effect. *)
RestoreEntry ==
  LET noParent == cur \in Nested /\ dir = "absent"
      leaf     == ~noParent /\ Matches(cur, New(cur)) IN
  /\ pc = "restore"
  /\ GoTo(IF leaf THEN "leaf"
          ELSE IF ~noParent /\ Matches(cur, Original(cur)) THEN "rmdir"
          ELSE "require")
  /\ at' = IF leaf THEN LeafStart(disk[cur], New(cur)) ELSE at
  /\ UNCHANGED <<plan, blobs, disk, dir, who, cur, made, affected, todo, result>>
  /\ Rest

(* The directory goes with its owner, if the journal proves who made it. *)
RemoveParent ==
  /\ pc = "rmdir"
  /\ TryRmdir(cur = Owner /\ ParentLogged)
  /\ pc' = "rbverify"
  /\ UNCHANGED <<plan, journal, torn, blobs, disk, loop, result>> /\ Rest

RollbackVerified ==
  /\ pc = "rbverify"
  /\ IF Matches(cur, Original(cur))
       THEN /\ Record(Rec("rollback effect verified", cur), "rbcheck")
            /\ todo' = todo \ {cur}
       ELSE GiveUp /\ UNCHANGED todo
  /\ UNCHANGED <<plan, blobs, disk, dir, who, cur, at, made, affected, result>> /\ Rest

RollbackFinal ==
  /\ pc = "rbfinal"
  /\ IF /\ VerifyRestored(affected) /\ TransactionArtifactsAbsent
        /\ CreatedParentsRestored(affected) /\ "index" \notin changed
       THEN Record(Rec("rollback index digest rechecked", 0), "rbdone")
       ELSE GiveUp
  /\ UNCHANGED <<plan, blobs, disk, dir, loop, result>> /\ Rest

RecordRolledBack ==
  /\ pc = "rbdone"
  /\ Record(PhaseRec("ROLLED_BACK"), "returned")
  /\ result' = IF pc' = "returned" THEN "FAILED" ELSE result
  /\ UNCHANGED <<plan, blobs, disk, dir, loop>> /\ Rest

RequireRecovery_NotLogged ==
  /\ pc = "require"
  /\ GoTo("returned") /\ result' = "RECOVERY_REQUIRED"
  /\ UNCHANGED <<plan, blobs, disk, dir, loop>> /\ Rest

(* require_recovery, _recovery_required and _existing_recovery_result: the *)
(* phase is recorded unless it stands already or cannot be, and every      *)
(* error of doing so is swallowed.                                         *)
RequireRecovery ==
  /\ pc = "require"
  /\ IF Readable /\ phase # "RECOVERY_REQUIRED"
       THEN RecordOr(PhaseRec("RECOVERY_REQUIRED"), "returned", "returned")
       ELSE GoTo("returned")
  /\ result' = "RECOVERY_REQUIRED"
  /\ UNCHANGED <<plan, blobs, disk, dir, loop>> /\ Rest

---------------------------------------------------------------------------
(* The terminal checks of recover and of a replayed apply. *)
AppliedHolds ==
  VerifyApplied /\ TransactionArtifactsAbsent /\ "index" \notin changed
RolledBackHolds ==
  /\ VerifyRestored(Entries) /\ CreatedParentsRestored(Entries)
  /\ TransactionArtifactsAbsent /\ "index" \notin changed

(* A caller told the outcome of a finished transaction. *)
Report(outcome) == result' = outcome /\ pc' = "returned"

(* recover() after a restart; with a plan or a journal that cannot be read *)
(* it raises.                                                              *)
Recover ==
  /\ pc \in {"down", "returned"} /\ Readable
  /\ \/ /\ phase \in {"APPLYING", "ROLLING_BACK"}
        /\ pc' = "resolve" /\ UNCHANGED result
     \/ /\ phase = "APPLIED" /\ AppliedHolds /\ Report("COMPLETED")
     \/ /\ phase = "ROLLED_BACK" /\ RolledBackHolds /\ Report("FAILED")
     \/ /\ \/ phase \in {"NONE", "PREPARING", "BACKUP_READY", "RECOVERY_REQUIRED"}
           \/ phase = "APPLIED" /\ ~AppliedHolds
           \/ phase = "ROLLED_BACK" /\ ~RolledBackHolds
        /\ pc' = "require" /\ UNCHANGED result
  /\ who' = "recover" /\ cur' = 1 /\ at' = "rtemp" /\ made' = FALSE
  /\ affected' = {} /\ todo' = {}
  /\ UNCHANGED <<plan, journal, torn, blobs, disk, dir, faults>> /\ Rest

(* _resolve_transaction_artifacts, entry by entry. *)
Resolve ==
  /\ pc = "resolve"
  /\ LET absent == cur \in Nested /\ dir = "absent"
         o == IF absent THEN Outcome(disk[cur], "done")
              ELSE ResolveStep(disk[cur], at, Displaced(cur), Desired(cur))
     IN /\ disk' = [disk EXCEPT ![cur] = o.leaf]
        /\ CASE o.at = "uncertain" -> pc' = "require" /\ UNCHANGED <<cur, at>>
             [] o.at = "done" /\ cur < N -> cur' = cur + 1 /\ at' = "rtemp" /\ UNCHANGED pc
             [] o.at = "done" /\ cur = N -> pc' = "classify" /\ UNCHANGED <<cur, at>>
             [] o.at \in ResolveSteps -> at' = o.at /\ UNCHANGED <<pc, cur>>
  /\ UNCHANGED <<plan, journal, torn, blobs, dir, who, made, affected, todo, result, faults>>
  /\ Rest

(* What the journal says of an entry, latest step first, and the contents  *)
(* that agree with it.                                                     *)
Classifiable(e) ==
  LET name == disk[e].name IN
  /\ ~ParentUnproved(e)
  /\ CASE Logged(journal, "rollback effect verified", e) ->
            name = Original(e) /\ ~ParentLeft(e)
       [] /\ ~Logged(journal, "rollback effect verified", e)
          /\ Logged(journal, "rollback effect pending", e) ->
            name \in {Original(e), New(e)}
       [] /\ ~Logged(journal, "rollback effect pending", e)
          /\ Logged(journal, "apply effect verified", e) ->
            name = New(e)
       [] /\ ~Logged(journal, "rollback effect pending", e)
          /\ ~Logged(journal, "apply effect verified", e)
          /\ Logged(journal, "apply effect pending", e) ->
            name \in {Original(e), New(e)}
       [] OTHER -> name = Original(e) /\ ~ParentLeft(e)

NeedsRollback_VerifiedOnly(e) ==
  /\ ~Logged(journal, "rollback effect verified", e)
  /\ Logged(journal, "apply effect verified", e)

NeedsRollback_NewFileOnly(e) ==
  /\ ~Logged(journal, "rollback effect verified", e)
  /\ \/ Logged(journal, "rollback effect pending", e)
     \/ Logged(journal, "apply effect verified", e)
     \/ Logged(journal, "apply effect pending", e) /\ disk[e].name = "new"

NeedsRollback(e) ==
  /\ ~Logged(journal, "rollback effect verified", e)
  /\ \/ Logged(journal, "rollback effect pending", e)
     \/ Logged(journal, "apply effect verified", e)
     \/ /\ Logged(journal, "apply effect pending", e)
        /\ disk[e].name = New(e) \/ ParentLeft(e)

Classify ==
  /\ pc = "classify"
  /\ IF \A e \in Entries : Classifiable(e)
       THEN /\ affected' = {e \in Entries : NeedsRollback(e)}
            /\ todo' = affected'
            /\ pc' = IF phase = "APPLYING" THEN "rolling" ELSE "rbcheck"
       ELSE pc' = "require" /\ UNCHANGED <<affected, todo>>
  /\ UNCHANGED <<plan, journal, torn, blobs, disk, dir, who, cur, at, made, result, faults>>
  /\ Rest

(* apply() called again with the id of an existing transaction: it reports *)
(* a finished one, and requires recovery of any other.                     *)
Replay ==
  /\ pc \in {"down", "returned"} /\ plan # "none"
  /\ \/ Readable /\ phase = "APPLIED" /\ AppliedHolds /\ Report("COMPLETED")
     \/ Readable /\ phase = "ROLLED_BACK" /\ RolledBackHolds /\ Report("FAILED")
     \/ /\ ~(Readable /\ phase = "APPLIED" /\ AppliedHolds)
        /\ ~(Readable /\ phase = "ROLLED_BACK" /\ RolledBackHolds)
        /\ pc' = "require" /\ UNCHANGED result
  /\ UNCHANGED <<plan, journal, torn, blobs, disk, dir, loop, faults>> /\ Rest

---------------------------------------------------------------------------
(* The environment. *)
Crash ==
  /\ pc \notin {"idle", "down", "returned"}
  /\ crashes < MaxCrashes /\ crashes' = crashes + 1
  /\ torn' \in {torn} \cup (IF pc \in RecordPcs THEN {TRUE} ELSE {})
  /\ pc' = "down"
  /\ who' = "apply" /\ cur' = 1 /\ at' = "none" /\ made' = FALSE
  /\ affected' = {} /\ todo' = {}
  /\ UNCHANGED <<plan, journal, blobs, disk, dir, changed, result, faults, edits>>

LeafFails ==
  /\ pc = "leaf" /\ at \notin LeafEnds /\ Fault
  /\ \E o \in LeafFault(disk[cur], at, Displaced(cur), Desired(cur), cur \in Symlinks) :
       disk' = [disk EXCEPT ![cur] = o.leaf] /\ at' = o.at
  /\ UNCHANGED <<plan, journal, torn, blobs, dir, pc, who, cur, made, affected, todo, result>>
  /\ Rest

(* A system call of the artifact resolution raises. *)
ResolveFails ==
  /\ pc = "resolve" /\ Fault
  /\ pc' = "require"
  /\ UNCHANGED <<plan, journal, torn, blobs, disk, dir, loop, result>> /\ Rest

(* mkdir, or the flush or open after it, raises: a directory that was made *)
(* is not among the ones Cleanup removes.                                  *)
MakeParentFails ==
  /\ pc = "mkdir" /\ Fault
  /\ dir' \in {dir, IF dir = "absent" THEN "ours" ELSE dir}
  /\ at' = "failed" /\ pc' = "leaf"
  /\ UNCHANGED <<plan, journal, torn, blobs, disk, who, cur, made, affected, todo, result>>
  /\ Rest

(* A read of the target, of the change set or of the index raises: the     *)
(* publish loop rolls back, every other place requires recovery.           *)
ReadFails ==
  /\ Fault
  /\ \/ /\ pc \in {"check", "final", "recheck", "reindex"}
        /\ pc' = "rolling" /\ UNCHANGED at
     \/ /\ pc = "open"
        /\ pc' = "leaf" /\ at' = "failed"
     \/ /\ pc \in {"backup2", "classify", "restore", "rbcheck", "rbverify", "rbfinal"}
        /\ pc = "rbcheck" => todo # {}
        /\ pc' = "require" /\ UNCHANGED at
  /\ UNCHANGED <<plan, journal, torn, blobs, disk, dir, who, cur, made, affected, todo, result>>
  /\ Rest

(* The same for the snapshot that verifies a publish: a second snapshot    *)
(* decides, and an entry found new is rolled back without having been      *)
(* recorded as verified.                                                   *)
VerifyReadFails ==
  /\ pc = "verify" /\ Fault
  /\ affected' = IF Matches(cur, New(cur)) THEN affected \cup {cur} ELSE affected
  /\ todo' = affected'
  /\ pc' = IF disk[cur].name \in {Original(cur), New(cur)} THEN "rolling" ELSE "require"
  /\ UNCHANGED <<plan, journal, torn, blobs, disk, dir, who, cur, at, made, result>>
  /\ Rest

Edit == edits < MaxEdits /\ edits' = edits + 1 /\ UNCHANGED <<crashes, faults>>

(* The user replaces or deletes a target file. *)
UserEdits(e) ==
  /\ Edit
  /\ e \in Nested => dir # "absent"
  /\ \E content \in {"user", "absent"} \ {disk[e].name} :
       disk' = [disk EXCEPT ![e].name = content]
  /\ UNCHANGED <<plan, journal, torn, blobs, dir, changed, pc, loop, result>>

(* The user makes the missing directory, or puts a file of their own into  *)
(* the one the transaction made.                                           *)
UserFillsDir ==
  /\ Edit
  /\ \/ dir = "ours" /\ dir' = "populated"
     \/ Nested # {} /\ dir = "absent" /\ dir' = "foreign"
  /\ UNCHANGED <<plan, journal, torn, blobs, disk, changed, pc, loop, result>>

(* The user stages something, or the task workspace changes. *)
UserChanges(what) ==
  /\ Edit /\ what \notin changed /\ changed' = changed \cup {what}
  /\ UNCHANGED <<plan, journal, torn, blobs, disk, dir, pc, loop, result>>

ApplyStep ==
  \/ WritePlan \/ WriteHeader \/ BackupPending \/ BackupVerified
  \/ BackupReady \/ StartApplying \/ ApplyPending \/ MakeParent \/ OpenLeaf
  \/ RunLeaf \/ LeafReturns \/ Cleanup \/ CreatedParent \/ ApplyVerified
  \/ FinalVerification \/ RecheckChangeset \/ RecheckIndex \/ RecordApplied

RollbackStep ==
  \/ StartRollback \/ RollbackDone \/ RollbackPending \/ RestoreEntry
  \/ RemoveParent \/ RollbackVerified \/ RollbackFinal \/ RecordRolledBack
  \/ RequireRecovery \/ Resolve \/ Classify

Failure ==
  \/ Crash \/ LeafFails \/ ResolveFails \/ MakeParentFails \/ ReadFails
  \/ VerifyReadFails

User ==
  \/ \E e \in Entries : UserEdits(e)
  \/ UserFillsDir
  \/ \E what \in {"index", "workspace"} : UserChanges(what)

Next == Begin \/ ApplyStep \/ RollbackStep \/ Recover \/ Replay \/ Failure \/ User

Spec == Init /\ [][Next]_vars

(* A call that is running runs on: straight-line code and loops over the   *)
(* entries.  Nobody is bound to call apply or recover.                     *)
FairSpec == Spec /\ WF_vars(ApplyStep) /\ WF_vars(RollbackStep)

---------------------------------------------------------------------------
(* Write-ahead logging: nothing of the transaction is in the target before *)
(* every backup is stored and the pending record of that entry is in the   *)
(* journal.                                                                *)
Touched(e) ==
  \/ disk[e].name = "new" \/ ~NoArtifacts(e)
  \/ e = Owner /\ dir \in {"ours", "populated"}
WriteAhead ==
  \A e \in Entries :
    Touched(e) => blobs = Entries /\ Logged(journal, "apply effect pending", e)

(* A reader of the target never sees a file that is only partly written,   *)
(* whatever crashes, fails or is recovered.                                *)
NoTornTarget == \A e \in Entries : disk[e].name # "partial"

(* Even with user edits, ROLLED_BACK leaves no file the transaction wrote: *)
(* neither new content under a target name nor a temporary or quarantine.  *)
NothingOfOursLeft ==
  phase = "ROLLED_BACK" =>
    \A e \in Entries : disk[e].name # "new" /\ NoArtifacts(e)

(* A transaction is all or nothing.  No target is ever torn; a rollback    *)
(* leaves nothing of ours behind; and short of user edits APPLIED means    *)
(* that every target has its new content, ROLLED_BACK that every target    *)
(* has the one from before, and neither leaves a file of the transaction.  *)
AllNew      == \A e \in Entries : disk[e] = Clean(New(e))
AllOriginal == \A e \in Entries : disk[e] = Clean(Original(e))
AllOrNothing ==
  /\ NoTornTarget
  /\ NothingOfOursLeft
  /\ edits = 0 =>
       /\ phase = "APPLIED" => AllNew
       /\ phase = "ROLLED_BACK" => AllOriginal

(* The same as a refinement, for crashes alone: the transaction implements *)
(* AtomicApply, where the target is as before only if the directory the    *)
(* transaction made is gone too.                                           *)
TargetState ==
  IF AllOriginal /\ dir = "absent" THEN "before" ELSE IF AllNew THEN "after" ELSE "between"
OutcomeState ==
  CASE phase = "APPLIED"           -> "applied"
    [] phase = "ROLLED_BACK"       -> "rolled back"
    [] phase = "RECOVERY_REQUIRED" -> "manual"
    [] OTHER                       -> "open"
Atomic == INSTANCE AtomicApply WITH target <- TargetState, outcome <- OutcomeState
ImplementsAtomicApply == Atomic!Spec

(* The log the coordinators wrote is one that a later start accepts: no    *)
(* sequence of crashes and retries makes the journal unreadable to itself. *)
JournalReadable == ValidRecordSequence(journal)

(* What memory, disk and log hold is well formed: every variable keeps its *)
(* type, and the journal is one that a later start can read.               *)
WellFormed == TypeOK /\ JournalReadable

(* A file the user put under a target name is never removed or replaced by *)
(* the transaction, except in the window between the verification of the   *)
(* quarantine and os.unlink; a directory the user made or filled is never  *)
(* removed.                                                                *)
ByUser == edits' # edits
UserContentSurvives ==
  [][/\ \A e \in Entries :
          disk[e].name = "user" /\ disk'[e].name # "user" =>
            ByUser \/ (pc = "leaf" /\ at = "unlink" /\ cur = e)
     /\ dir \in {"populated", "foreign"} => dir' = dir]_vars

(* When every check of a rollback has passed, the journal takes the record *)
(* that ends it.                                                           *)
RollbackCanFinish ==
  pc = "rbdone" /\ RolledBackHolds => Accepts(journal, PhaseRec("ROLLED_BACK"))

(* Every call of apply and of recover, the ones after any number of        *)
(* crashes included, comes to its end if the process lives, and leaves the *)
(* transaction applied, rolled back, handed to the user, or with a plan or *)
(* journal that cannot be read.  Whether recover is ever called is up to   *)
(* the caller.                                                             *)
Settled == phase \in {"APPLIED", "ROLLED_BACK", "RECOVERY_REQUIRED"} \/ ~Readable
CallsSettle ==
  pc \notin {"idle", "down", "returned"} ~> pc = "down" \/ (pc = "returned" /\ Settled)
=============================================================================
