# A verification of the AI coding agent harness

TLA+ models of the harness in `src/src/coding_harness`, the TLC runs that check
them on small instances, and TLAPS proofs of what matters most for every
instance. All paths below are relative to `src/src/coding_harness/` unless they
start with `src/`; `PROJECT.json` maps every definition to the lines it stands
for.

Contents: [the system](#1-the-system) · [hard behaviours](#2-what-is-hard) ·
[modules](#3-modules-and-how-they-correspond-to-the-code) ·
[runs](#4-runs-bounds-and-what-they-show) · [fairness](#5-fairness) ·
[proofs](#6-what-is-proved) · [disagreements](#7-disagreements-between-code-and-documents) ·
[other observations](#8-observations-that-are-not-runs) ·
[not modelled](#9-what-is-not-modelled) · [plan](#10-plan)

## 1. The system

The harness lets a language model change a repository under control: the model
proposes structured actions, deterministic code decides, a copy of the
repository is changed in a workspace, and only an accepted change set is written
back to the user's repository. It is a library: the web service that calls its
parts in order is not in the repository. A model that needs that caller says so
and marks it external.

| component | state it keeps | operations | talks to | correct when |
|---|---|---|---|---|
| Execution lease (`persistence/lease.py`) | rows of `execution_leases`, audit rows | acquire, heartbeat, mark_expired, release, acquire_recovery | every client process, through SQLite | one open lease; a stale run keeps the slot until it was recovered; stale owners are fenced |
| Process lock (`persistence/process_lock.py`) | a `flock` | acquire, release | startup | one serving process |
| Apply journal (`transaction/journal.py`) | `plan.json`, `journal.jsonl`, blobs | create, record, load, enumerate | coordinator, recovery, startup | it accepts only sequences it will accept again when it loads them |
| Apply coordinator (`transaction/apply.py`) | the target repository | apply, replay | journal, file system, user | all or nothing; nothing before its log record; user content survives |
| Recovery coordinator (`transaction/recovery.py`) | the same | recover | journal, file system | comes to rest after any crash, also of itself |
| Conflict detection (`transaction/conflicts.py`) | none | detect_conflicts | apply | no write-back over a concurrent change |
| Startup recovery (`application/startup_recovery.py`) | findings, `apply_observations` | scan | lock, lease, store, journals, containers, recovery | nothing runs next to remains of a dead run |
| Task state machine (`domain/state_machine.py`) | none (pure) | transition | the store, through its caller | terminal is final; no way round the gates |
| SQLite store (`persistence/sqlite_store.py`) | tasks, audit, versions, approvals, confirmations, observations | one method per table operation | everybody | compare-and-swap; append-only histories |
| Approvals (`domain/approvals.py`, `application/governance.py`) | approval records | create, consume, revoke, activate_budget | the store | one approval, one side effect |
| Acceptance contract (`domain/acceptance.py`) | a versioned value with its history | evidence, confirm, approve | verifiers, the user | eligible only when earned and then approved |
| Budgets, policy (`domain/`) | none | check_before_effect, decide | governance | precedence and limits |
| Agent loop (`agent/loop.py`, `agent/stopping.py`) | rounds, calls, history, progress | run | provider, policy, tool, store, clock | stops, within limits, for the reason it gives |
| Actions, context (`agent/`) | none | parse, build | the loop | only closed actions; a context within its bytes |
| Provider gateway (`agent/provider.py`) | requests left, a lock | execute | credential provider, transport | the request budget is used up exactly |
| Container lifecycle (`sandbox/lifecycle.py`, `docker_cli.py`) | a container | execute | the docker engine | true evidence; nothing left behind |
| Doctor, preflight, profiles (`sandbox/`) | none | evaluate, select | — | pure decisions |
| Task workspace (`workspace/manifest.py`, `materialize.py`, `changeset.py`) | a copy of the repository, a manifest | build_baseline, materialize_workspace, compute_changeset | git, file system, user, agent | the baseline existed at one moment; the change set is the agent's |
| Ignored inputs (`workspace/ignored.py`) | one file per approval in the copy | materialize_ignored_input | file system | published whole or not at all; touches nothing of others |
| Synthetic git (`workspace/synthetic_git.py`) | anchor and index in memory | status, diff, stage, unstage | the copy | hides no change; all or nothing |
| Events, evidence, migrations (`persistence/`) | append-only log, schema | append, read after, run | SQLite | ordered, complete |
| Credentials, configuration | immutable snapshots | from_startup | provider | validated once |

How they interact:

- A run holds the **execution lease** from its first to its last effect. If its
  process dies, the heartbeat expires and the next startup, which alone holds the
  **process lock**, turns the stale lease into a recovery lease.
- A **task** moves by decisions of the state machine that are committed later,
  with the state (and optionally the revision) that was read before.
- Waiting states are left by **approvals**, which are consumed in memory and
  stored with a compare-and-swap on their revision.
- The **agent loop** turns one provider answer after the other into tool calls
  and feeds every result back; verification runs commands in **containers**.
- The tools work in a **task workspace**, a copy of a **baseline** of the
  repository, possibly with **ignored inputs** the user approved; the agent's
  git commands are answered by the **synthetic git** over that copy.
- The difference becomes a **change set**, which is offered once the
  **acceptance contract** is satisfied, confirmed by digest, and compared by
  **conflict detection** with what the user has by then.
- An accepted change set is **applied** under a write-ahead journal;
  **startup recovery** relates journals, leases and tasks to one another and
  delegates to the recovery coordinator.

## 2. What is hard

- *Processes that die at any step* of a write-back, of its recovery, or of the
  startup scan. (`ApplyTransaction`, `StartupRecovery`)
- *Late callers*: a slow owner of a lease, a commander with an old decision, a
  worker with an old approval record. (`ExecutionLease`, `TaskLifecycle`,
  `ApprovalStore`)
- *Transactions that are shorter than they look*: Python's `sqlite3` begins its
  transaction at the first write, so that a check before it is a step of its
  own. (`ApprovalStore`)
- *The user*, who edits the repository while it is read, compared or written.
  (`TaskWorkspace`, `ApplyTransaction`)
- *System calls that fail after they took effect*, and cleanups that fail too.
  (`LeafEffect`, `IgnoredInput`)
- *Snapshots that are read file by file.* (`TaskWorkspace`, `SyntheticGit`)
- *Answers that arrive late, twice or in another order.* (`AcceptanceContract`)
- *Threads that race for the last of a budget.* (`ProviderGateway`)
- *Timeouts that end the client and not the request.* (`ContainerLifecycle`)
- *Long legal sequences*: retries, blocks, revisions. (`TaskLifecycle`,
  `ApplyJournal`)
- *Coinciding limits.* (`AgentLoop`)

`PROJECT.json` lists each hazard at its line with the properties that cover it.

## 3. Modules, and how they correspond to the code

```
AtomicApply <--refines-- ApplyTransaction --EXTENDS--> ApplyJournal, LeafEffect
                         ApplyTransaction_proofs      MCApplyTransaction
ExecutionLease           ExecutionLease_proofs        MCExecutionLease
TaskLifecycle            TaskLifecycle_proofs         MCTaskLifecycle
ApprovalStore            ApprovalStore_proofs         MCApprovalStore
StartupRecovery          StartupRecovery_proofs       MCStartupRecovery
AgentLoop                Agent_proofs                 \
ProviderGateway          Agent_proofs                  } MCAgent
ContainerLifecycle       Agent_proofs                 /
TaskWorkspace            Workspace_proofs             \
IgnoredInput             Workspace_proofs              } MCWorkspace
SyntheticGit             Workspace_proofs              }
AcceptanceContract       AcceptanceContract_proofs    /
```

Every module is one component, except that `StartupRecovery` composes five
(lock, lease, store, journals and recovery coordinator, each reduced to what the
scan can see of it) and `TaskWorkspace` four (baseline, copy, change set,
conflict detection). `MCAgent` and `MCWorkspace` check several components in one
run: the components share no state, a behaviour is of one of them, and the
others stay as they start. The states of the parts add up instead of
multiplying. The modules that meet there tell their names apart by a prefix
(`InputInit`, `GitNext`, `boxVars`).

An operator `Name_Slip`, or one marked `Mutant:`, is `Name` with a plausible
mistake. No specification uses it: it stands in for `Name` when the sensitivity
of a property is tested, as `PROJECT.json` lists under `mutants`.

**ExecutionLease.** `leases` is the table, `audit` the rows written with it,
`view` the object each client holds. A method is one `BEGIN IMMEDIATE`
transaction and one action; a call whose checks fail rolls back and is a
stuttering step. `reply = FALSE` loses the answer of a committed call, `Skew`
lets the `now` of a caller lag behind.

**LeafEffect, ApplyJournal, ApplyTransaction, AtomicApply.** `LeafEffect` is
`_conditional_leaf_effect` with its handlers as a step function on what a
directory holds under the name, the quarantine name and the temporary names: one
step per system call. `ApplyJournal` has the records and every rule of
`_validate_record_sequence`. `ApplyTransaction` runs apply, rollback and recover
over both, with a program counter; `Crash` loses everything volatile. Durable is
what a system call has done: the models are of process death, not of loss of
power. `AtomicApply` is the promise: before, between or after, and once ended
nothing moves. Contents are abstracted to *whose* they are (old, new, user,
partial), entries have an index, one missing parent directory is modelled.

**TaskLifecycle.** `Transitions` is the decision table, `Decide` is
`StateMachine.transition`. `ReceiveCommand` reads the row and decides;
`CommitTransition` is `transition_task`. Between the two any other commander may
commit. One request with a fixed idempotency key (`request`) may be delivered
again and again; its record (`recorded`) is kept, if the commander lives, in a
step after the transition, as `transition_task` commits on its own and no table
of the store has such records. The caller that joins the two halves is external.
Commands may name the plan they expect; the contract, which `_versions_match`
compares in the same way, is left out, and a commander reads state, revision and
plan at one moment.

**ApprovalStore.** Each store operation is a check and an insert. A worker
loads, decides in memory (`Consume`, `Revoke`), writes, and acts if it was
permitted to.

**StartupRecovery.** One action per section of `scan`, in the order of the code,
with `Die` between any two. What a service does between two startups is external
and follows the order the stores ask for.

**AgentLoop.** One action per section of the body of `run`; every port may
return anything or raise. `BuiltContext` is `ContextBuilder.build` for the
history the loop passes, its last attempt.

**ProviderGateway.** `execute` by several threads: resolve and build, take the
lock, compare, read, write, release, send, judge the answer. Each is a step, so
that it is the lock that keeps them apart and not the model.

**ContainerLifecycle.** `execute` between two docker commands is `After…`,
`DockerCLI.run` is `Invoke` to `TimeOut`, the engine is external. The connection
to it may break before the engine has a request, before it has handled it or
before its answer is back; the command line then ends with an error.

**TaskWorkspace.** `build_baseline` reads the git state, the files and the git
state again, one file per step; `materialize_workspace` may fail or die with
part of the copy written; `compute_changeset` walks the copy (`walk`): it lists
the names one by one and then inspects each of those listed, and fails if one is
gone; `detect_conflicts` walks it again and then reads the targets one by one.
Between any two steps the user edits the repository and the agent the copy, the
steps of the walks and of the detection included; `meanwhile` has the paths
written to since the detection was called. A content stands for all that is compared of
an entry (digest, kind, mode, link target), a digest for what it is taken of.
`source` is the repository, `workspace` the copy, `tear` counts the edits of a
baseline that was never the repository as a whole.

**IgnoredInput.** One step per system call of `_publish_copy` and
`_cleanup_owned`, for calls that run at the same time or after a death. A file
is the inode of the call that made it, so that *whose* a name is can be said.
The temporary name is a hash of path and content and thus the same for all. The
cleanup is two steps for each name, the look (`Match…`) and the removal by name
(`Remove…`). The agent, which owns the workspace, makes, removes and replaces
directory, temporary file and target at any time (`OtherWrites`); `slipped` has
the names it changed between a look and the removal that follows it.

**SyntheticGit.** `operation` holds what a running status, diff, stage or
unstage has read so far; each file is a step, tools edit in between. One
operation runs at a time (the lock of the context).

**AcceptanceContract.** Verifiers and the user see a version and answer later;
`sent` keeps every answer, which may be delivered in any order and again. A
contract is a value; that its caller keeps the newest one is external, and that
it gives no identity to two versions is assumed.

## 4. Runs, bounds, and what they show

| run | instance | states | shows |
|---|---|---|---|
| lease | 3 leases, 2 clients, 2 runs, time 0..3, timeout 1, skew 1, renewals up to revision 2; symmetric | 412,253 | the slot is exclusive, stays with a stale run until a released RECOVERY lease, rows form a chain, expired owners are fenced |
| apply_crash | modify + two creates in a new directory; 3 crashes | 9,434 | refines `AtomicApply`; finished stays finished; every call of apply or recover settles |
| apply | modify, delete a symlink, create in a new directory; 2 crashes, 2 faults, 1 user edit | 614,113 | write-ahead, no torn target, all or nothing, the journal stays readable, a rollback leaves nothing of ours, user content survives but for one window |
| task_races | 2 commanders, 9 triggers, revision up to 7, 2 plans, a repeated request | 290,134 | audit follows task, terminal is final, approvals reach the plan they name, a repeated request is not applied on top of itself; over the whole table: no way round verification, offer and confirmation |
| startup | 2 processes, 2 tasks; symmetric, deadlock checked | 312,898 | the slot guards remains, a serving process is alone, recovery under its lease |
| approvals | 3 workers, 2 approvals with one key, 2 confirmations with one key, 2 plans, time 0..1; symmetric | 1,137,838 | one effect, none after a revocation, append-only, a confirmation reported as stored is the one its key names |
| agent | the loop: 2 investigations, 4 rounds, 4 calls, 3 equal observations; the gateway: 3 threads, 2 requests; the sandbox: 2 executions, requests that outlive their command possible | 85,970 | the loop stops, within limits, with a true reason, attempts are marked first and feedback arrives; the request budget is exact; evidence is true and execute ends |
| workspace | see below; symmetric | 1,373,342 | a baseline is a snapshot, the change set is the agent's, what is permitted is confirmed and replaces nothing new; inputs are published whole or not at all; status hides nothing; eligible is earned and approved |
| rollback_resume, startup_final_journal, startup_interrupted, approval_key | the smallest instance that shows it | | section 7 |

Why the bounds are enough:

- *Lease.* Three identities are the shortest chain in which an execution lease
  expires, its recovery expires as well and a third lease follows; two clients
  and runs give every pair of a stale and a current one. Revision 2 is one
  renewal, so that a stale revision exists; time 3 lets two timeouts pass.
- *Apply.* With three entries there is one finished, one in work and one
  untouched at the moment of a crash, and with two in the new directory one
  that owns it and one that does not. Three crashes hit apply, its recovery and
  the recovery of the recovery. In `apply` crashes, faults and edits meet: two
  faults include the failure of a handler, and one edit falls between any two
  steps of the transaction.
- *Tasks.* A race needs two commanders; the longest interesting path (plan,
  revise, plan, approve, with an old approval pending) has revision 7.
  `CompletedThroughGates` has no bound: it is the reachability relation of the
  decision function itself, for every trigger and reason.
- *Startup.* Two tasks let the slot change hands; two processes let one start
  while the other serves. The state space is finite without further bounds.
- *Approvals.* The third worker acts between the check and the write of two
  that race. More than two revisions of an approval cannot exist. With
  lifetime 1, time 1 is when an approval of time 0 has expired.
- *Agent.* Four rounds are one more than the three equal observations that stop
  the loop, so that each limit can be reached first. Three threads and two
  requests give a race for the last request while a third thread is refused.
- *Workspace.* A tracked, a new and an ignored file are the three kinds of path
  the code tells apart. Three edits during the capture are what it takes to
  tear a baseline (`TearingEdits`; with two the code always notices, with three
  it need not: section 8). The part `capture` has them, from any repository, and
  ends when the copy is made. What follows depends on the baseline alone, so that
  the part `workspace` starts as HEAD, with a file that is there and one that is
  not, and nobody edits during its capture. It goes on to the permission, with
  one edit of the user, to a content neither baseline nor agent has or to that
  of either; two edits of the agent are one before a path is listed or inspected
  and one after it, in either of the two walks. The two publication attempts are
  symmetric; one can die or clean up while the other goes on, or retry after it; two writes of the
  agent (`MaxOtherWrites`) take a name away and fill it again. Two files and a link to
  one of them show every pair of a staged, an unstaged and an edited file. Four
  contract versions are two answers, the approval's version and one more; three
  answers in flight can overtake each other and repeat.

`CHECK_DEADLOCK FALSE` stands where the system comes to an end: a bound is
reached, a run or an execution is over. The startup runs check deadlock.

## 5. Fairness

Liveness is claimed three times. In `agent` each part has the fairness of its
own specification and only while it is the part that runs.

- `CallsSettle` (apply): weak fairness of `ApplyStep` and `RollbackStep`: a
  process that runs a call of apply or recover goes on with it. Whether recover
  is ever called is up to the caller, and the only one in the repository does
  not call it when it should (`startup_interrupted`, section 7): there is no
  fairness of `Recover`, and the property is one of each call, that it returns
  with the transaction settled or is killed. Nothing is assumed of failures or
  the user.
- `LoopStops` (agent, as `RunReturns`): weak fairness of `Next`. `run` is one thread without waiting, and
  each port returns or raises (the provider has a request timeout, a tool runs
  under the limits of the sandbox).
- `ExecuteReturns` (agent, as `SandboxReturns`): weak fairness of `Invoke` and `TimeOut`. `subprocess.run`
  starts the command line and raises at its timeout at the latest. Nothing is
  assumed of the engine or the command.

The other properties are safety properties under `[][Next]_vars`.

## 6. What is proved

Every invariant and every action property of a passing run, and the refinement,
is also a theorem: the run shows it for a small instance, the theorem for every
value of the constants. TLAPS checks every proof to its last leaf; no fact is
assumed but the named assumptions on the constants in the modules themselves and
the hypotheses named here.

**ApplyTransaction_proofs**, for any number of entries with any operations,
nesting and symbolic links, and any numbers of deaths, faults and edits of the
user: `TransactionIsWellFormed` (WellFormed), `LogIsWrittenAhead` (WriteAhead),
`TransactionIsAllOrNothing` (AllOrNothing), `UserContentIsKept`
(UserContentSurvives). The four stand or fall together, by `CoreInvariant`:

- `WellFormed` asks that the journal is accepted by its own validation, which
  judges a record by those before it. That needs to know at each point of the
  program which phases the log has been through (`PhasesInOrder`, `PhaseAtPc`)
  and for which entries it holds which record (`LogAhead`): the program counter,
  the variable it iterates with and the log are three accounts of one thing.
- `WriteAhead` says what is under a name when the log does not mention it yet.
  It is kept through a leaf effect by what the directory may hold at each system
  call of it, which is a fact about `LeafEffect` alone (`LeafStepKeeps`,
  `ResolveStepKeeps`, `LeafFaultKeeps`), and used by the composition once.
- `AllOrNothing` needs that a rollback which claims to be finished has gone over
  everything that was begun (`Outcomes`: what the last check saw is still so, or
  the user edited since), and that entries nobody began are as the user left
  them (`Bystanders`).
- `UserContentSurvives` needs that no name or quarantine is partly written
  (`Untorn`).

`TransactionIsAtomic` (ImplementsAtomicApply), when the process dies any number
of times but nothing else fails and nobody else writes (`MaxFaults = 0`,
`MaxEdits = 0`): every step of the detailed transaction is one of `AtomicApply`
or a stutter. With faults or edits a transaction may also stop with a recovery
required and a part of the entries written; then it is the invariants above that
say what may be there. The refinement adds `OnCourse`: when only the process
dies, the missing directory is there only if its owner was begun, entries ahead
of the current one are untouched, and a leaf effect that was begun is on its way
and never has to be cleaned up. Assumptions: `JournalAssumption`,
`TransactionAssumption`.

**StartupRecovery_proofs**, for any number of deaths, startups and heartbeats and
any bounds: `RowsCorrect` (TypeOK), `SlotIsItsOwn` (ServesAlone),
`RemainsAreGuarded` (SlotGuardsRemains), `RecoveryIsCovered`
(RecoveryUnderLease). The scan decides by rows it has read earlier. `StartupInv`
says what they are still worth where it acts: a slot it found empty is empty and
one it found taken is a finding that blocks (`SlotAsRead`); the lease it took for
a recovery is the open one until it reports (`RecoveryHeld`). Assumptions:
`HeartbeatAssumption`, `NoneAssumption`.

**ExecutionLease_proofs**, for any identities, clients, runs, timeout and skew:
`TypeCorrect`, `SlotExclusive` (OneOpenSlot), `StaleRunIsRecovered`
(StaleRunKeepsSlot), `RowsFormChains` (RowChain), `ExpiryFences`
(FencedAfterExpiry). `OneOpenSlot` is almost inductive. `StaleRunKeepsSlot` is
not: nothing in it says that an audit row about staleness belongs to a lease
that really left ACTIVE, or that a released lease remains released. `LeaseInv`
adds that (`AuditMatchesRows`), after which the step that matters is
`AcquireRecovery`: it closes the stale lease and opens one of the same run in
the same transaction. Assumption used: `LeaseAssumption`.

**ApprovalStore_proofs**, for any workers, approvals, confirmations, keys and
lifetimes: `TypeCorrect`, `OneEffect` (AtMostOneEffect), `RevocationHolds`
(RevokedNeverActs), `HistoryAppendOnly` (HistoryGrows), `ConfirmationStored`
(ConfirmedIsStored). That no two workers act is a property of three pieces of
state: what each worker holds, what is stored and what was done. `ApprovalInv`
states them: an approval has at most two rows (`Short`), a worker past its
write holds the row that is stored (`Local`), only one worker can be there for
an approval (`OneActor`), and an effect implies a stored consumption that nobody
is about to act on any more (`EffectsDecided`). The argument is that the primary
key (identity, revision) admits one second row. Assumptions used:
`KeyAssumption`, `NoneAssumption`, `LifetimeAssumption`.

**TaskLifecycle_proofs**, for any commanders, triggers and bounds, when the
commanders pass the revision they read (`CheckRevision`): `TypeCorrect`
(TypeOK), `ApprovalIsCurrent` (ApprovedPlanIsCurrent), `AuditChains`
(AuditFollowsTask). `TaskInv` adds what a pending decision is worth: one that
carries the current revision was made in the current state and for the current
plan (`Fresh`). Without `CheckRevision` that is false, by A-B-A (section 8),
which is why the assumption is in these theorems.
`RepeatsAreApart` (NotAppliedOnTop) needs no assumption. No row of the table but
`CONTINUE_INVESTIGATION` leads back to the state it starts from
(`RowsLeadAway`, `DecisionLeadsAway`), and all copies of a request expect the
same state, so that none of them fits as long as the task is where the first
copy left it (`Repeats`), record or no record.
`GatesAreMet` (CompletedThroughGates) needs no assumption. The property speaks of
paths of any length, as a fixed point that TLC computes; the proof names for each
gate the states that come before it (`Before`), shows row by row that a step of
the table from there stays there or enters the gate (`GateIsNext`), and takes the
shortest path that does otherwise (`AroundStaysBefore`).

**Agent_proofs**. The loop, for any limits and investigations: `TypeCorrect`,
`CallsAreRecorded` (AttemptsPersisted), `FeedbackIsCurrent`
(FeedbackReachesProvider), `LimitsAreKept` (LimitsHold). `LoopInv` relates the
counters to the position in the loop and the progress record to the sequence of
observations: its count is the length of the longest run of equal observations
at the end (`Counted`, lemma `StuckIsCounted`), which the loop never looks at as
a whole. Assumption used: `LimitsAssumption`. The gateway, for any finite set of threads and
any limit: `BudgetHolds` (BudgetIsExact). `GateInv` says that the thread that
holds the lock is the only one between compare and write (`OneInside`), so that
what it has read is still so (`ReadIsTrue`). Assumption: `GatewayAssumption`.

The containers, for any executions: `ExecutionsAreTyped` (BoxTypeOK), `EvidenceHolds`
(EvidenceIsTrue). `BoxInv` says for each point of `execute` what the engine may
hold: before start was sent nothing has run, so that a return without a cleanup
leaves a created container at most, which is there if the connection broke after
the engine had made it; after a removal that succeeded there is none unless the
create request outlived its command.

**Workspace_proofs**. The task workspace, for any order of paths, any contents,
targets and edits: `AgentIsToBlame` (ChangesAreTheAgents),
`PermissionIsConfirmed` (PermittedIsConfirmed), `UserWorkIsKept`
(NothingNewReplaced). `WorkspaceInv` says how far the copy is the baseline, up to
the position reached and from then on wherever nobody wrote (`Copied`); what a
walk that the agent may write into has listed and inspected is worth, at every
path not written to since it began (`WalkedTruly`); that the change set computed
again is that of the workspace at every path not written to since
`detect_conflicts` was called (`Found`); and, while the targets are read, that a
report which does not block is of the change set computed, confirmed and computed
again, with no conflict among the targets it is through with (`Compared`).
`BaselineIsOfOneMoment` (BaselineIsASnapshot), for `TearingEdits <= 3`: with two
edits of the user or fewer, wherever they fall, a baseline that is accepted is
what the repository was at one moment. (MCWorkspace reaches the third edit.) A
capture is judged at its end by what it read at many moments; `SnapshotInv`
explains all it has read so far by the last three states of the repository, in
the order of the passes (`Explained`). Two entries that cannot be of one moment
are then one that was read before the first edit and one read after the second
(`Torn`), and the first of them is noticed by the second pass, if it was there,
or by the candidates listed again, if it was not (`Noticed`). Assumption:
`WorkspaceAssumption`.
The ignored inputs, for any attempts: `PublicationHolds` (PublishedIsWhole),
`RefusalHolds` (DeniedLeavesNothing), `OwnFilesOnly` (OnlyItsOwn), for any number
of names the agent makes, removes or replaces. The cleanup looks at a name and
then removes by name. `InputInv` says what a look is worth until the removal:
what the attempt has seen is still there, or the agent changed the name in
between (`Looked`); where an inode of an attempt can be under which name without
a receipt (`Accounted`, `CleanedUp`); and that no step of another attempt
invalidates any of it (`Spared`, `OthersAreSpared`). Assumption: `DistinctNames`.
The synthetic git, for any files, links, contents and edits: `StatusIsComplete` (StatusHidesNothing), `IndexIsAtomic` (IndexMovesWhole).
`GitInv`: while no edit has happened since an operation began, what it has read
is what is there (`ReadIsCurrent`). Assumption: `LinksLeadToFiles`.

**AcceptanceContract_proofs**, for any conditions, keys and bounds:
`EligibleIsEarned` (EligibleIsApproved), `AnswersCountOnce`
(EachAnswerCountsOnce). `ContractInv`: the status of a condition is the verdict
of the last event about it (`Accurate`), a key is in one event, and an approved
contract is the one the user has seen (`ApprovedAsSeen`). Assumption:
`ConditionsOfOneKind`.

**Model-checked only**: liveness (`CallsSettle`, `RunReturns`,
`SandboxReturns`), because the prover does not do ENABLED, and with it fairness.
That three edits are enough to tear a baseline is a behaviour TLC finds, not a
theorem. `TypeOK` of the modules without such a theorem is stated for the reader;
the runs spend their properties on the others.

## 7. Disagreements between code and documents

Each is a run that TLC must find violated; `PROJECT.json` quotes the line.

| run | what happens |
|---|---|
| rollback_resume | A crash after the index recheck of a rollback: the resumed rollback writes a second recheck record and the journal then refuses `ROLLED_BACK`. |
| startup_final_journal | The journal of a completed task blocks every later startup. |
| startup_interrupted | An interrupted write-back has no observation, so its recovery is never delegated. |
| approval_key | Two approvals with one idempotency key and different digests are both recorded. |

## 8. Observations that are not runs

The models have the behaviours below; no run is made of them.

Where a document says otherwise:

- Apply: a file saved between the verification of the quarantine and `os.unlink`
  (`transaction/apply.py:440`) is deleted, against TXN-008; this is the window
  that `UserContentSurvives` leaves out. When the flush after `mkdir` fails
  (`apply.py:163`), the directory stays although `ROLLED_BACK` is recorded;
  `AllOrNothing` speaks of files only.
- Ignored inputs: one that was put into the task workspace is part of the change
  set (`workspace/changeset.py` walks the whole copy), conflict detection then
  finds an ignored path among the targets, or an unrelated one, and refuses: a
  task with an ignored input is never applied, unless the user deletes the
  source (WS-011, WS-016; in `TaskWorkspace` no state permits a change of `env`
  whose source is there). A crash leaves the temporary file, whose name is
  deterministic, so that every retry is denied (`workspace/ignored.py:1227`); a
  crash between the publication and the compare-and-swap of the intent makes it
  a `TARGET_CONFLICT`. A directory or file whose open or fstat fails right after
  it was made stays under `cleanup_complete`: `forgot` in `DeniedLeavesNothing`.
  Between the look at a name and its removal (`workspace/ignored.py:1098` to
  `1104`), and between `mkdir` and the open of what was made, the agent can put a
  file of its own there, which is then taken for the one of the attempt:
  `slipped` in `OnlyItsOwn`. An attempt that links the temporary name after the
  agent has removed its file may link that of another attempt, which then stays
  under the refusal of both.
- Synthetic git: a symlink nobody touched is reported as modified, because
  status reads through the link and the anchor holds its text
  (`workspace/synthetic_git.py:385`, WS-013); a dangling link makes every status
  fail.
- Baseline: three edits of the user during the capture can go unnoticed if one
  of them removes a file before the first pass and another brings it back
  (`workspace/manifest.py:502` repeats only the entries of the first pass); the
  baseline is then of no moment.
- Agent loop and gateway: an unavailable provider, a wrong credential and an
  exhausted request budget all raise, and `run` ends every exception with
  `INVALID_OR_OUT_OF_SCOPE`; AGT-014 (`src/SPEC.md:180`) asks for
  `PROVIDER_UNAVAILABLE` and `PROVIDER_CONFIGURATION_ERROR` and their states.
  The gateway reports an exhausted budget as a configuration error. Its budget
  is counted per object, from the full limit again after a restart.
- Tasks: the reason for which a task is blocked is kept nowhere, so that it does
  not restrict how the task goes on (`domain/state_machine.py:149`, PST-025).
- Startup: a lease without a heartbeat expires at revision 2, and so does its
  recovery lease; the second takeover asks for an identifier that exists and no
  later startup fares better (`application/startup_recovery.py:649`, PST-020).
  A delegated recovery ends the scan with `PersistenceConflict`, because its
  transaction has an observation already (`persistence/sqlite_store.py:908`).
  One blocked task stops all execution at the next startup, because candidates
  never carry the reason (`sqlite_store.py:1057`).
- Containers: a create request that the engine handles after `rm --force` leaves
  a container under `COMPLETE` (`sandbox/lifecycle.py:226`, SBX-011): the
  exception in `EvidenceIsTrue`. Output that does not decode ends `execute` before
  the cleanup (`sandbox/docker_cli.py:148`, SBX-010): action `Undecodable`.

Where no document decides:

- Apply: a change of the index or the workspace after the write-back is refused
  by `journal.record` and ends in `RECOVERY_REQUIRED`; `recover` never leaves
  that phase although `_PHASE_PREDECESSORS` would allow `ROLLING_BACK`. A crash
  in `PREPARING` or `BACKUP_READY` always ends there, and so does a replay of
  the command before recovery ran. `src/SPEC.md` B.3 reaches it from phases that
  are not terminal only, the code from `APPLIED` and `ROLLED_BACK` too.
- Change set: `compute_changeset` lists the workspace and then inspects it file
  by file while the agent may go on; what is written to a path after
  `detect_conflicts` was called may be in the change set it permits or not
  (`meanwhile` in `PermittedIsConfirmed`). `apply` reads source and workspace
  again before it writes (`transaction/apply.py:1231`, `1534`).
- Tasks: `StateMachine.transition` takes the idempotency record of the command
  from its caller, and nothing under `src/` keeps one; `transition_task` commits
  by itself. A request that is delivered again before its record is kept, or
  after it was lost, is applied again as soon as the task is back in the state
  it expects; `NotAppliedOnTop` says that this takes another transition, but
  for `CONTINUE_INVESTIGATION`, which leads back to where it starts from.
  Without `expected_revision` the commit compares the state alone and
  admits A-B-A; the store has no method that reads state and revision together.
  `BLOCKED` from `INVESTIGATING` can go on to `EXECUTING` without a plan
  approval unless the caller's `frozen_checks` include it. A caller that
  truthfully sets `uncertain_file_effect` cannot `REQUEST_RECOVERY`.
- Startup: candidates never carry cleanup evidence, so that every task that
  waits for a plan approval blocks the startup. A process that dies between a
  terminal state and the release of its lease leaves a lease nobody takes over.
  A refused apply leaves an observation without a journal and every later
  startup reports it.
- Approvals: `consume_approval` compares with a plan version the caller read
  earlier, and `update_approval` does not compare it, or the expiry, again.
- Acceptance and conflicts: `detect_conflicts` takes `acceptance_satisfied` from
  its caller, and nothing under `src/` compares the change-set digest a contract
  expects with the one that is applied. A confirmation with a used key is
  answered as accepted although nothing is applied.
- Agent loop: `RunLimits.repeated_failure_limit` is not used by the loop; only
  equal observations in a row count, so that two failures in turn never stop
  before the round limit. `run` starts from no progress each time.
- Containers: the inspections of SBX-010 and the stop, grace period, kill and
  recheck of SBX-011 are not in the code. A `docker create` whose connection
  breaks ends as `FAILED` with the cleanup `NOT_REQUIRED`
  (`sandbox/lifecycle.py:261`), although the engine may have made the container
  or make it later: it then stays, created and never started. That is why
  `NothingRan` admits it.

## 9. What is not modelled

- Byte formats, digests, canonical encodings, path syntax (the larger parts of
  `workspace/ignored.py` and `file_model.py`, `paths.py`, `agent/actions.py`,
  `config.py`, `credentials/`, the constructors of most dataclasses):
  conversions without control that tests reach.
- Pure decisions over a closed input (`domain/policy.py`, `domain/budgets.py`,
  `sandbox/doctor.py`, `preflight.py`, `profiles.py`): nothing interleaves, and
  the models that meet their answers take every answer.
- `activate_budget`: it compares what its caller passes and returns one of the
  values. Which version is current is kept nowhere, so that any race would be
  one of a caller that is not in the repository.
- Migrations and the event log: one SQLite transaction each; what could go wrong
  between two steps is SQLite's.
- git and the file system as such: git's answers are the state at one moment,
  directory entries appear and vanish one at a time. For the ignored inputs the
  agent makes, removes and replaces whole files and the directory; that it
  writes into a published file, or renames its directory away, is left out.
- Loss of power: `fsync` is a step that can fail, not one that separates durable
  from volatile data.
- Of the hazards in `PROJECT.json` four have no property; each entry says why.

## 10. Plan

Done, in this order: the lease and its proofs; the write-back and its refinement;
tasks; startup; approvals and their proofs; containers; the agent loop; task
workspace, ignored inputs, synthetic git and acceptance contract; the proofs of
tasks, loop, containers, inputs, synthetic git and contract; the provider gateway
and its proof; the proofs of the task workspace; the proofs of the startup, of the
write-back with its refinement, of the gates and of the baseline.

Still worth doing:

1. Proofs: a refinement of the write-back with faults and edits, for which
   `AtomicApply` has to say what a fault may leave behind.
2. Abstract specifications: a mutual exclusion for the lease, a single-use token
   for approvals.
3. One run from a baseline to a write-back, with `TaskWorkspace` in front of
   `ApplyTransaction`: today the second takes the change set of the first as
   given and both admit the user in between.
