-------------------------- MODULE StartupRecovery --------------------------
(***************************************************************************)
(* What happens when the harness starts: the process lock                  *)
(* (persistence/process_lock.py), the scan of                              *)
(* application/startup_recovery.py, the store queries it reads and the     *)
(* authorities it calls - the execution lease, the journals on disk, the   *)
(* recovery coordinator.                                                   *)
(*                                                                         *)
(* A process can die between any two steps of the scan and of the service  *)
(* that follows it.  The service itself (who begins runs, applies, records *)
(* the result, finishes) is not in the repository; it is modelled by the   *)
(* order the stores ask for.  A lease and a transaction are here what the  *)
(* scan sees of them; modules ExecutionLease and ApplyTransaction hold     *)
(* their details.  Each task has one run and at most one transaction.      *)
(***************************************************************************)
EXTENDS Integers, Sequences, SequencesExt

CONSTANTS
    Processes,          \* serve processes on one data directory
    Tasks,              \* the order of task identities, a sequence
    None,               \* no process, no lease, no phase
    MaxHeartbeats       \* bound on the heartbeats of a lease

TaskSet == ToSet(Tasks)

ASSUME HeartbeatAssumption == MaxHeartbeats \in Nat

VARIABLES
    holder,             \* the process whose descriptor holds the flock
    pc,                 \* where each process is
    task,               \* rows of tasks and of the newest approval
    journal,            \* phase of each task's transaction directory
    observation,        \* apply_observations: the phase recorded, or None
    lease,              \* the open row of execution_leases, or None
    leaseIds,           \* the primary keys of execution_leases
    container,          \* tasks with a container still running
    scan                \* the local variables of a process's scan

vars == <<holder, pc, task, journal, observation, lease, leaseIds, container,
          scan>>
world == <<task, journal, observation, lease, leaseIds, container>>

-----------------------------------------------------------------------------
(* Data *)

TerminalStates == {"COMPLETED", "FAILED"}

TaskState == TerminalStates \cup
    {"READY_TO_EXECUTE", "EXECUTING", "APPLYING", "BLOCKED",
     "AWAITING_CLARIFICATION", "AWAITING_PLAN_APPROVAL"}

\* The newest approval row: none, waiting for the user ("pending"), bound to
\* an older plan, or no longer usable (consumed, revoked, expired).
ApprovalState == {"none", "pending", "stale", "dead"}

\* What a txn- directory shows: None if there is none, "BROKEN" before its
\* first phase record, otherwise the latest phase.
FinalPhases == {"APPLIED", "ROLLED_BACK"}
BlockingPhases ==
    {"PREPARING", "BACKUP_READY", "APPLYING", "ROLLING_BACK",
     "RECOVERY_REQUIRED"}

LeaseStatus == {"ACTIVE", "RECOVERY_PENDING"}

ExecutionLeaseId(t) == [kind |-> "run", task |-> t, revision |-> 0]

\* "recovery:" + sha256(task, run, revision of the pending lease)
RecoveryLeaseId(l) ==
    [kind |-> "recovery", task |-> l.task, revision |-> l.revision]

Lease ==
    [id : [kind : {"run", "recovery"}, task : TaskSet, revision : Nat],
     task : TaskSet, purpose : {"EXECUTION", "RECOVERY"}, status : LeaseStatus,
     revision : 1..MaxHeartbeats + 2, owner : Processes]

ASSUME NoneAssumption == None \notin Processes \cup Lease

NewLease(id, t, purpose, p) ==
    [id |-> id, task |-> t, purpose |-> purpose, status |-> "ACTIVE",
     revision |-> 1, owner |-> p]

\* What the report keeps of a RecoveryFinding.  DECISION tells delegated
\* recovery from what is left to the user.
Finding(kind, t, decision, blocks) ==
    [kind |-> kind, task |-> t, decision |-> decision, blocks |-> blocks]
Mismatch(t) == Finding("EVIDENCE_MISMATCH", t, "MANUAL_RECOVERY_REQUIRED", TRUE)

IdleScan ==
    [candidates |-> <<>>, journals |-> [t \in TaskSet |-> None],
     current |-> None, recovery |-> None, matched |-> {}, findings |-> {}]

Init ==
    /\ holder = None
    /\ pc = [p \in Processes |-> "down"]
    /\ task \in [TaskSet -> {[state |-> "READY_TO_EXECUTE", approval |-> "dead"],
                             [state |-> "AWAITING_PLAN_APPROVAL",
                              approval |-> "none"]}]
    /\ journal = [t \in TaskSet |-> None]
    /\ observation = [t \in TaskSet |-> None]
    /\ lease = None
    /\ leaseIds = {}
    /\ container = {}
    /\ scan = [p \in Processes |-> IdleScan]

Goto(p, label) == pc' = [pc EXCEPT ![p] = label]

Found(p, f) == [scan[p] EXCEPT !.findings = @ \cup {f}]

-----------------------------------------------------------------------------
(* Process lock *)

\* Mutant: the lock is taken shared.
AcquireLock_Shared(p) ==
    /\ pc[p] = "down"
    /\ holder' = p
    /\ Goto(p, "evidence")
    /\ scan' = [scan EXCEPT ![p] = IdleScan]
    /\ UNCHANGED world

\* ProcessLock.acquire: ACQUIRED
AcquireLock(p) ==
    /\ pc[p] = "down"
    /\ holder = None
    /\ holder' = p
    /\ Goto(p, "evidence")
    /\ scan' = [scan EXCEPT ![p] = IdleScan]
    /\ UNCHANGED world

\* ProcessLock.acquire: BUSY.  The scan reports and touches nothing.
DuplicateStartup(p) ==
    /\ pc[p] = "down"
    /\ holder \notin {None, p}
    /\ Goto(p, "halted")
    /\ scan' = [scan EXCEPT ![p] =
          [IdleScan EXCEPT
             !.findings = {Finding("DUPLICATE_STARTUP", None,
                                   "MANUAL_RECOVERY_REQUIRED", TRUE)}]]
    /\ UNCHANGED <<holder, world>>

\* The process ends, at any step; the kernel drops its lock, containers stay.
Die(p) ==
    /\ pc[p] # "down"
    /\ Goto(p, "down")
    /\ holder' = IF holder = p THEN None ELSE holder
    /\ scan' = [scan EXCEPT ![p] = IdleScan]
    /\ UNCHANGED world

-----------------------------------------------------------------------------
(* StartupRecovery.scan *)

\* startup_recovery_candidates: the tasks that are not terminal, in order,
\* each with the run of its open lease and its newest observation.  The query
\* supplies neither cleanup evidence nor a blocked reason.
Candidate(t) ==
    [task |-> t, state |-> task[t].state, approval |-> task[t].approval,
     hasRun |-> lease # None /\ lease.task = t,
     phase |-> observation[t], cleanup |-> FALSE, blockedReason |-> None]

StoredCandidates ==
    LET open(t) == task[t].state \notin TerminalStates
        nonterminal == SelectSeq(Tasks, open)
    IN  [i \in 1..Len(nonterminal) |-> Candidate(nonterminal[i])]

\* enumerate_apply_journals fails on a directory without a phase record.
EnumerationFails == \E t \in TaskSet : journal[t] = "BROKEN"

ReadEvidence(p) ==
    /\ pc[p] = "evidence"
    /\ IF EnumerationFails
       THEN /\ scan' = [scan EXCEPT ![p] = Found(p, Mismatch(
                  IF StoredCandidates = <<>> THEN None
                  ELSE Head(StoredCandidates).task))]
            /\ Goto(p, "halted")
       ELSE /\ scan' = [scan EXCEPT ![p].candidates = StoredCandidates,
                                    ![p].journals = journal]
            /\ Goto(p, "lease")
    /\ UNCHANGED <<holder, world>>

\* Mutant: the finding about a stale lease does not block.
ReviewLease_Informs(p) ==
    /\ pc[p] = "lease"
    /\ scan' = [scan EXCEPT ![p] =
          IF lease = None THEN scan[p]
          ELSE [Found(p, Finding("STALE_LEASE", lease.task,
                                 "REQUEST_RECOVERY_OWNERSHIP", FALSE))
                EXCEPT !.current = lease]]
    /\ Goto(p, IF lease = None THEN "containers"
               ELSE IF lease.status = "ACTIVE" THEN "expire" ELSE "takeover")
    /\ UNCHANGED <<holder, world>>

\* The open lease, whoever it belongs to, is a finding ...
ReviewLease(p) ==
    /\ pc[p] = "lease"
    /\ scan' = [scan EXCEPT ![p] =
          IF lease = None THEN scan[p]
          ELSE [Found(p, Finding("STALE_LEASE", lease.task,
                                 "REQUEST_RECOVERY_OWNERSHIP", TRUE))
                EXCEPT !.current = lease]]
    /\ Goto(p, IF lease = None THEN "containers"
               ELSE IF lease.status = "ACTIVE" THEN "expire" ELSE "takeover")
    /\ UNCHANGED <<holder, world>>

\* Mutant: an expired lease is released.
ExpireLease_FreesSlot(p) ==
    /\ pc[p] = "expire"
    /\ lease # None /\ lease.status = "ACTIVE"
    /\ lease' = None
    /\ scan' = [scan EXCEPT ![p].current = None]
    /\ Goto(p, "containers")
    /\ UNCHANGED <<holder, task, journal, observation, leaseIds, container>>

\* ... an ACTIVE one is marked expired, unless its heartbeat is too recent
\* (LeaseError, which the scan swallows) ...
ExpireLease(p) ==
    /\ pc[p] = "expire"
    /\ \/ /\ lease # None /\ lease.status = "ACTIVE"
          /\ lease' = [lease EXCEPT !.status = "RECOVERY_PENDING",
                                    !.revision = @ + 1]
          /\ scan' = [scan EXCEPT ![p].current = lease']
       \/ UNCHANGED <<lease, scan>>
    /\ Goto(p, "takeover")
    /\ UNCHANGED <<holder, task, journal, observation, leaseIds, container>>

\* (current.task_id, current.run_id) in candidate_by_task_run
OfCandidate(p, l) ==
    \E i \in DOMAIN scan[p].candidates :
        scan[p].candidates[i].task = l.task /\ scan[p].candidates[i].hasRun

\* acquire_recovery: a primary key that exists is refused, like the pending
\* lease's own.
FreshId(id) == id \notin leaseIds

\* ... and a RECOVERY_PENDING one is handed to a recovery lease of this
\* process, if the lease is that of a candidate.
TakeOverLease(p) ==
    /\ pc[p] = "takeover"
    /\ LET pending == scan[p].current
           id == RecoveryLeaseId(pending)
           fresh == NewLease(id, pending.task, "RECOVERY", p)
       IN IF /\ pending.status = "RECOVERY_PENDING"
             /\ OfCandidate(p, pending)
             /\ lease = pending
             /\ FreshId(id)
          THEN /\ lease' = fresh
               /\ leaseIds' = leaseIds \cup {id}
               /\ scan' = [scan EXCEPT ![p].recovery = fresh]
          ELSE UNCHANGED <<lease, leaseIds, scan>>
    /\ Goto(p, "containers")
    /\ UNCHANGED <<holder, task, journal, observation, container>>

\* Every container that still runs, whoever started it.
CheckContainers(p) ==
    /\ pc[p] = "containers"
    /\ scan' = [scan EXCEPT ![p].findings = @ \cup
          {Finding("RESIDUAL_CONTAINER", t, "MANUAL_RECOVERY_REQUIRED", TRUE) :
               t \in container}]
    /\ Goto(p, "candidates")
    /\ UNCHANGED <<holder, world>>

\* _waiting_finding: a task whose user is expected to act, or that none.
WaitingFinding(c) ==
    LET pause(blocks) == {Finding("SAFE_WAITING", c.task, "PAUSE", blocks)}
    IN  CASE c.approval = "stale" ->
                 {Finding("STALE_APPROVAL", c.task, "INVALIDATE_AUTHORIZATION",
                          TRUE)}
          [] c.approval # "stale" /\ c.state = "AWAITING_CLARIFICATION" ->
                 pause(FALSE)
          [] c.approval # "stale" /\ c.state = "AWAITING_PLAN_APPROVAL" ->
                 IF c.approval = "none" THEN pause(TRUE)
                 ELSE IF c.approval = "dead" \/ ~c.cleanup THEN {Mismatch(c.task)}
                 ELSE {Finding("SAFE_WAITING", c.task, "RELEASE_ALLOWED", FALSE)}
          [] c.approval # "stale" /\ c.state = "BLOCKED" ->
                 IF c.blockedReason = None THEN {Mismatch(c.task)}
                 ELSE pause(FALSE)
          [] OTHER -> {}

\* The journal of a candidate with an observation agrees with it.
EvidenceMatches(p, c) == scan[p].journals[c.task] = c.phase

JournalMissing(p) == \A t \in TaskSet : scan[p].journals[t] = None

\* Mutant: recovery is delegated whoever the open lease belongs to.
Delegated_AnyOwner(p, c) ==
    /\ lease # None /\ lease.task = c.task
    /\ scan[p].journals[c.task] \in BlockingPhases

\* recovery_lease of this scan covers the candidate's run
Delegated(p, c) ==
    /\ scan[p].recovery # None
    /\ scan[p].recovery.task = c.task
    /\ scan[p].journals[c.task] \in BlockingPhases

\* One iteration of the loop over the candidates.
CheckCandidate(p) ==
    /\ pc[p] = "candidates"
    /\ scan[p].candidates # <<>>
    /\ LET c == Head(scan[p].candidates)
           found == IF c.phase = None THEN WaitingFinding(c)
                    ELSE IF JournalMissing(p) THEN
                        {Finding("MISSING_JOURNAL", c.task,
                                 "MANUAL_RECOVERY_REQUIRED", TRUE)}
                    ELSE IF ~EvidenceMatches(p, c) THEN {Mismatch(c.task)}
                    ELSE {Finding("NONTERMINAL_APPLY", c.task,
                                  IF Delegated(p, c) THEN "DELEGATE_RECOVERY"
                                  ELSE "REQUEST_RECOVERY_OWNERSHIP",
                                  scan[p].journals[c.task] \in BlockingPhases)}
           known == c.phase # None /\ scan[p].journals[c.task] # None
           delegate == c.phase # None /\ EvidenceMatches(p, c) /\ Delegated(p, c)
       IN /\ scan' = [scan EXCEPT
                ![p].findings = @ \cup found,
                ![p].matched = IF known THEN @ \cup {c.task} ELSE @,
                ![p].candidates = IF delegate THEN @ ELSE Tail(@)]
          /\ Goto(p, IF delegate THEN "delegate" ELSE "candidates")
    /\ UNCHANGED <<holder, world>>

\* RecoveryCoordinator.recover, as ApplyTransaction details it.
RecoveredPhases(phase) ==
    IF phase \in {"APPLYING", "ROLLING_BACK"}
    THEN {"ROLLED_BACK", "RECOVERY_REQUIRED"} ELSE {"RECOVERY_REQUIRED"}

Delegate(p) ==
    /\ pc[p] = "delegate"
    /\ \E phase \in RecoveredPhases(journal[Head(scan[p].candidates).task]) :
          journal' = [journal EXCEPT ![Head(scan[p].candidates).task] = phase]
    /\ Goto(p, "observe")
    /\ UNCHANGED <<holder, task, observation, lease, leaseIds, container, scan>>

\* record_apply_observation: the transaction has its row already, or it were
\* no candidate for recovery; the new values differ from it in occurred_at at
\* least, and the PersistenceConflict leaves the scan.
RecordObservation(p) ==
    /\ pc[p] = "observe"
    /\ LET t == Head(scan[p].candidates).task
       IN IF observation[t] # None
          THEN /\ Goto(p, "raised")
               /\ UNCHANGED <<observation, scan>>
          ELSE /\ observation' = [observation EXCEPT ![t] = journal[t]]
               /\ scan' = [scan EXCEPT ![p].candidates = Tail(@)]
               /\ Goto(p, "candidates")
    /\ UNCHANGED <<holder, task, journal, lease, leaseIds, container>>

\* Journals that no candidate accounts for, then the report.
UnmatchedJournals(p) ==
    {t \in TaskSet : scan[p].journals[t] # None} \ scan[p].matched

Report(p) ==
    /\ pc[p] = "candidates"
    /\ scan[p].candidates = <<>>
    /\ LET findings == scan[p].findings \cup
              (IF UnmatchedJournals(p) = {} THEN {} ELSE {Mismatch(None)})
       IN /\ scan' = [scan EXCEPT ![p].findings = findings]
          /\ Goto(p, IF \E f \in findings : f.blocks THEN "halted"
                     ELSE "serving")
    /\ UNCHANGED <<holder, world>>

-----------------------------------------------------------------------------
(* The service while the report permits it, and what users, containers and   *)
(* operators do: not in the repository, in the order its stores ask for.     *)

MayExecute(p) == pc[p] = "serving"

Owns(p, t) ==
    /\ MayExecute(p) /\ lease # None
    /\ lease.owner = p /\ lease.task = t /\ lease.status = "ACTIVE"

SetState(t, state) == task' = [task EXCEPT ![t].state = state]

\* Not started, or ended for good.
Settled(t) == journal[t] \in FinalPhases \cup {None} /\ t \notin container

BeginRun(p, t) ==
    /\ MayExecute(p)
    /\ lease = None
    /\ task[t].state = "READY_TO_EXECUTE"
    /\ FreshId(ExecutionLeaseId(t))
    /\ lease' = NewLease(ExecutionLeaseId(t), t, "EXECUTION", p)
    /\ leaseIds' = leaseIds \cup {ExecutionLeaseId(t)}
    /\ SetState(t, "EXECUTING")
    /\ UNCHANGED <<holder, pc, journal, observation, container, scan>>

Heartbeat(p, t) ==
    /\ Owns(p, t)
    /\ lease.revision <= MaxHeartbeats
    /\ lease' = [lease EXCEPT !.revision = @ + 1]
    /\ UNCHANGED <<holder, pc, task, journal, observation, leaseIds, container,
                   scan>>

StartContainer(p, t) ==
    /\ Owns(p, t)
    /\ task[t].state = "EXECUTING"
    /\ container' = container \cup {t}
    /\ UNCHANGED <<holder, pc, task, journal, observation, lease, leaseIds, scan>>

StopContainer(t) ==
    /\ t \in container
    /\ container' = container \ {t}
    /\ UNCHANGED <<holder, pc, task, journal, observation, lease, leaseIds, scan>>

\* ApplyCoordinator refuses before it makes a journal: a result without a phase
RefuseApply(p, t) ==
    /\ Owns(p, t)
    /\ task[t].state = "EXECUTING"
    /\ t \notin container
    /\ observation' = [observation EXCEPT ![t] = "REFUSED"]
    /\ SetState(t, "BLOCKED")
    /\ UNCHANGED <<holder, pc, journal, lease, leaseIds, container, scan>>

BeginApply(p, t) ==
    /\ Owns(p, t)
    /\ task[t].state = "EXECUTING"
    /\ t \notin container
    /\ journal' = [journal EXCEPT ![t] = "BROKEN"]
    /\ SetState(t, "APPLYING")
    /\ UNCHANGED <<holder, pc, observation, lease, leaseIds, container, scan>>

\* The phases ApplyTransaction writes, one after the other.
NextPhases ==
    [BROKEN |-> {"PREPARING"},
     PREPARING |-> {"BACKUP_READY", "RECOVERY_REQUIRED"},
     BACKUP_READY |-> {"APPLYING", "RECOVERY_REQUIRED"},
     APPLYING |-> {"APPLIED", "ROLLING_BACK", "RECOVERY_REQUIRED"},
     ROLLING_BACK |-> {"ROLLED_BACK", "RECOVERY_REQUIRED"}]

AdvanceApply(p, t) ==
    /\ Owns(p, t)
    /\ journal[t] \in DOMAIN NextPhases
    /\ \E phase \in NextPhases[journal[t]] :
          journal' = [journal EXCEPT ![t] = phase]
    /\ UNCHANGED <<holder, pc, task, observation, lease, leaseIds, container,
                   scan>>

\* apply returned; its result is recorded ...
ObserveApply(p, t) ==
    /\ Owns(p, t)
    /\ journal[t] \in FinalPhases \cup {"RECOVERY_REQUIRED"}
    /\ observation[t] = None
    /\ observation' = [observation EXCEPT ![t] = journal[t]]
    /\ UNCHANGED <<holder, pc, task, journal, lease, leaseIds, container, scan>>

\* ... and the task takes the state the result names.
FinishTask(p, t) ==
    /\ Owns(p, t)
    /\ observation[t] \in FinalPhases
    /\ task[t].state = "APPLYING"
    /\ SetState(t, IF observation[t] = "APPLIED" THEN "COMPLETED" ELSE "FAILED")
    /\ UNCHANGED <<holder, pc, journal, observation, lease, leaseIds, container,
                   scan>>

\* The run stops for a reason or for the user.
Pause(p, t) ==
    /\ Owns(p, t)
    /\ task[t].state = "EXECUTING"
    /\ t \notin container
    /\ \E state \in {"BLOCKED", "AWAITING_CLARIFICATION"} : SetState(t, state)
    /\ UNCHANGED <<holder, pc, journal, observation, lease, leaseIds, container,
                   scan>>

ReleaseLease(p, t) ==
    /\ Owns(p, t)
    /\ task[t].state \notin {"EXECUTING", "APPLYING"}
    /\ Settled(t)
    /\ lease' = None
    /\ UNCHANGED <<holder, pc, task, journal, observation, leaseIds, container,
                   scan>>

\* A recovery requested of a halted process, which owns the recovery lease:
\* nothing of the run is left, the task fails and the lease is released.
FinishRecovery(p) ==
    /\ pc[p] \in {"halted", "raised"}
    /\ lease # None
    /\ lease.owner = p /\ lease.purpose = "RECOVERY"
    /\ Settled(lease.task)
    /\ lease' = None
    /\ IF task[lease.task].state \in {"EXECUTING", "APPLYING"}
       THEN SetState(lease.task, "FAILED") ELSE UNCHANGED task
    /\ UNCHANGED <<holder, pc, journal, observation, leaseIds, container, scan>>

\* Plan commands of the user, which need a running server and no lease.
Serves(p) == holder = p /\ pc[p] \in {"serving", "halted"}

RevisePlan(p, t) ==
    /\ Serves(p)
    /\ task[t] = [state |-> "READY_TO_EXECUTE", approval |-> "dead"]
    /\ task' = [task EXCEPT ![t] = [state |-> "AWAITING_PLAN_APPROVAL",
                                   approval |-> "stale"]]
    /\ UNCHANGED <<holder, pc, journal, observation, lease, leaseIds, container,
                   scan>>

ApprovalSteps == [none |-> {"pending"}, stale |-> {"pending"},
                  pending |-> {"dead"}, dead |-> {"pending"}]

\* An approval is recorded, or lapses ...
ChangeApproval(p, t) ==
    /\ Serves(p)
    /\ task[t].state = "AWAITING_PLAN_APPROVAL"
    /\ \E approval \in ApprovalSteps[task[t].approval] :
          task' = [task EXCEPT ![t].approval = approval]
    /\ UNCHANGED <<holder, pc, journal, observation, lease, leaseIds, container,
                   scan>>

\* ... or is consumed, and the task is ready.
ApprovePlan(p, t) ==
    /\ Serves(p)
    /\ task[t] = [state |-> "AWAITING_PLAN_APPROVAL", approval |-> "pending"]
    /\ task' = [task EXCEPT ![t] = [state |-> "READY_TO_EXECUTE",
                                   approval |-> "dead"]]
    /\ UNCHANGED <<holder, pc, journal, observation, lease, leaseIds, container,
                   scan>>

-----------------------------------------------------------------------------
ScanStep(p) ==
    \/ ReadEvidence(p) \/ ReviewLease(p) \/ ExpireLease(p) \/ TakeOverLease(p)
    \/ CheckContainers(p) \/ CheckCandidate(p) \/ Delegate(p)
    \/ RecordObservation(p) \/ Report(p)

Service(p, t) ==
    \/ BeginRun(p, t) \/ Heartbeat(p, t) \/ StartContainer(p, t)
    \/ RefuseApply(p, t) \/ BeginApply(p, t) \/ AdvanceApply(p, t)
    \/ ObserveApply(p, t) \/ FinishTask(p, t) \/ Pause(p, t)
    \/ ReleaseLease(p, t)

UserCommand(p, t) ==
    RevisePlan(p, t) \/ ChangeApproval(p, t) \/ ApprovePlan(p, t)

Next ==
    \/ \E p \in Processes :
          \/ AcquireLock(p) \/ DuplicateStartup(p) \/ Die(p) \/ ScanStep(p)
          \/ FinishRecovery(p)
          \/ \E t \in TaskSet : Service(p, t) \/ UserCommand(p, t)
    \/ \E t \in TaskSet : StopContainer(t)

Spec == Init /\ [][Next]_vars

-----------------------------------------------------------------------------
(* Properties *)

Labels == {"down", "evidence", "lease", "expire", "takeover", "containers",
           "candidates", "delegate", "observe", "serving", "halted", "raised"}

\* Every variable has its type, and no two processes are past the lock.
TypeOK ==
    /\ holder \in Processes \cup {None}
    /\ pc \in [Processes -> Labels]
    /\ \A p \in Processes : pc[p] \notin {"down", "halted"} => holder = p
    /\ task \in [TaskSet -> [state : TaskState, approval : ApprovalState]]
    /\ journal \in [TaskSet -> FinalPhases \cup BlockingPhases
                               \cup {None, "BROKEN"}]
    /\ observation \in [TaskSet -> FinalPhases
                               \cup {None, "REFUSED", "RECOVERY_REQUIRED"}]
    /\ container \subseteq TaskSet
    /\ lease \in Lease \cup {None}
    /\ lease # None => lease.id \in leaseIds

\* Whatever has died and whatever was scanned, a container that runs and a
\* transaction that is not final belong to the task of the open lease: the
\* slot never changes tasks over a run's remains (PST-020).
SlotGuardsRemains ==
    \A t \in TaskSet : ~Settled(t) => lease # None /\ lease.task = t

\* A process that serves has the slot for itself: no lease of another process,
\* no recovery and no stale lease is open next to it.
ServesAlone ==
    \A p \in Processes : MayExecute(p) /\ lease # None =>
        /\ lease.owner = p
        /\ lease.status = "ACTIVE"
        /\ lease.purpose = "EXECUTION"

\* recover runs only while the slot is held by an ACTIVE RECOVERY lease that
\* this process acquired for this task.
RecoveryUnderLease ==
    [][\A p \in Processes : pc[p] = "delegate" /\ pc'[p] = "observe" =>
          /\ lease # None
          /\ lease.owner = p
          /\ lease.task = Head(scan[p].candidates).task
          /\ lease.purpose = "RECOVERY" /\ lease.status = "ACTIVE"]_vars

\* What the documentation and tests say, and the code does not keep.

\* Tasks that ended or are ready, final transactions and nothing else: the
\* report permits execution (phase table of the SPEC).
FinalJournalsPermit ==
    [][\A p \in Processes :
          /\ pc[p] = "candidates"
          /\ lease = None
          /\ \A t \in TaskSet :
                /\ Settled(t)
                /\ task[t].state \in TerminalStates \cup {"READY_TO_EXECUTE"}
          => pc'[p] # "halted"]_vars

\* A write-back that was interrupted in phase APPLYING is completed or rolled
\* back by the startup that holds the recovery lease of its run.
InterruptedApplyIsRecovered ==
    \A p \in Processes : pc[p] = "halted" /\ scan[p].recovery # None =>
        journal[scan[p].recovery.task] # "APPLYING"
=============================================================================
