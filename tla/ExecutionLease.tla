--------------------------- MODULE ExecutionLease ---------------------------
(***************************************************************************)
(* The persistent execution slot of persistence/lease.py: one SQLite table *)
(* of lease rows, of which at most one is open (ACTIVE or                  *)
(* RECOVERY_PENDING), and the clients that acquire, renew, expire, release *)
(* and take over leases.                                                   *)
(*                                                                         *)
(* Every service method is one BEGIN IMMEDIATE ... COMMIT transaction, so  *)
(* each is one atomic step on the table.  What is not atomic is the        *)
(* client: it acts on the ExecutionLease object an earlier call returned   *)
(* (view), which may be stale by the time it is used, and the reply to a   *)
(* committed call may be lost (reply = FALSE).  A call whose checks fail   *)
(* raises LeaseConflict and rolls back: it changes nothing and is a        *)
(* stuttering step.                                                        *)
(*                                                                         *)
(* A (task_id, run_id) pair is one element of Runs.  acquired_at and phase *)
(* are stored and never read by a decision, and are left out.              *)
(*                                                                         *)
(* An operator Name_Slip is Name with a plausible slip: no specification   *)
(* uses it; putting it in Name's place must break a property.              *)
(***************************************************************************)
EXTENDS Integers, FiniteSets

CONSTANTS
  LeaseIds,          \* values of lease_id
  Clients,           \* values of owner_identity, one per calling process
  Runs,              \* (task_id, run_id) pairs
  HeartbeatTimeout,  \* heartbeat_timeout of the service
  Skew,              \* how far behind the real time a caller's now may be
  MaxTime,           \* bound: the clock stops here
  MaxRevision        \* bound: no row is renewed beyond this revision

ASSUME LeaseAssumption ==
  /\ HeartbeatTimeout \in Nat \ {0}
  /\ Skew \in Nat
  /\ MaxTime \in Nat
  /\ MaxRevision \in Nat

VARIABLES
  leases,   \* the execution_leases table: lease_id -> row or NoRow
  audit,    \* the audit_events rows the service writes
  view,     \* the ExecutionLease object each client holds, or NoView
  clock     \* real time

leaseVars == <<leases, audit, view, clock>>

Purposes == {"EXECUTION", "RECOVERY"}
Statuses == {"ACTIVE", "RECOVERY_PENDING", "RELEASED"}
Row      == [run : Runs, owner : Clients, purpose : Purposes,
             last_progress_at : Nat, status : Statuses, revision : Nat \ {0}]
NoRow    == [status |-> "NONE"]
View     == [lease_id : LeaseIds, revision : Nat \ {0}]
NoView   == [revision |-> 0]
AuditKinds == {"EXECUTION_LEASE_STALE", "EXECUTION_LEASE_RELEASED",
               "EXECUTION_LEASE_RECOVERY_ACQUIRED"}
AuditEvents == [event_kind : AuditKinds, lease_id : LeaseIds]

Event(kind, id) == [event_kind |-> kind, lease_id |-> id]

TypeOK ==
  /\ leases \in [LeaseIds -> Row \cup {NoRow}]
  /\ audit \subseteq AuditEvents
  /\ view \in [Clients -> View \cup {NoView}]
  /\ clock \in Nat

Init ==
  /\ leases = [id \in LeaseIds |-> NoRow]
  /\ audit = {}
  /\ view = [c \in Clients |-> NoView]
  /\ clock = 0

---------------------------------------------------------------------------
(* The rows _open_lease selects. *)
IsOpen(row) == row.status \in {"ACTIVE", "RECOVERY_PENDING"}
OpenLeases_ActiveOnly == {id \in LeaseIds : leases[id].status = "ACTIVE"}
OpenLeases  == {id \in LeaseIds : IsOpen(leases[id])}

(* The values of now a caller may pass. *)
CallerTimes == {t \in 0..clock : clock - t <= Skew}

(* The caller keeps the lease the call returned, unless the reply is lost. *)
Returned(c, id, revision, reply) ==
  view' = IF reply
            THEN [view EXCEPT ![c] = [lease_id |-> id, revision |-> revision]]
            ELSE view

NewRow(run, c, purpose, now) ==
  [run |-> run, owner |-> c, purpose |-> purpose, last_progress_at |-> now,
   status |-> "ACTIVE", revision |-> 1]

(* The row an UPDATE of the service leaves: status and last_progress_at    *)
(* may change, the revision moves up by one.                               *)
Updated(row, status, progress) ==
  [run |-> row.run, owner |-> row.owner, purpose |-> row.purpose,
   last_progress_at |-> progress, status |-> status,
   revision |-> row.revision + 1]

Moved_SameRevision(row, status) == [row EXCEPT !.status = status]
Moved(row, status) == Updated(row, status, row.last_progress_at)

(* acquire: the slot is free and the primary key is not taken. *)
Acquire(c, id, run, now, reply) ==
  /\ OpenLeases = {}
  /\ leases[id] = NoRow
  /\ leases' = [leases EXCEPT ![id] = NewRow(run, c, "EXECUTION", now)]
  /\ Returned(c, id, 1, reply)
  /\ UNCHANGED <<audit, clock>>

OwnsCurrent_AnyOpen(c, now) ==
  LET id == view[c].lease_id IN
  /\ view[c] # NoView
  /\ IsOpen(leases[id])
  /\ leases[id].owner = c
  /\ leases[id].revision = view[c].revision
  /\ now >= leases[id].last_progress_at

(* The compare-and-swap test shared by heartbeat and release: the caller's *)
(* lease is the open one, still ACTIVE, owned by the caller, at the        *)
(* revision the caller knows, and the caller's time does not go back.      *)
OwnsCurrent(c, now) ==
  LET id == view[c].lease_id IN
  /\ view[c] # NoView
  /\ leases[id].status = "ACTIVE"
  /\ leases[id].owner = c
  /\ leases[id].revision = view[c].revision
  /\ now >= leases[id].last_progress_at

Heartbeat(c, now, reply) ==
  LET id == view[c].lease_id IN
  /\ OwnsCurrent(c, now)
  /\ leases[id].revision < MaxRevision
  /\ leases' = [leases EXCEPT ![id] = Updated(@, "ACTIVE", now)]
  /\ Returned(c, id, leases[id].revision + 1, reply)
  /\ UNCHANGED <<audit, clock>>

(* mark_expired: anyone may declare the open ACTIVE lease stale once its   *)
(* last progress is more than the timeout ago.                             *)
IsExpired(row, now) == now - row.last_progress_at > HeartbeatTimeout

MarkExpired(c, id, now, reply) ==
  /\ id \in OpenLeases
  /\ leases[id].status = "ACTIVE"
  /\ IsExpired(leases[id], now)
  /\ leases' = [leases EXCEPT ![id] = Moved(@, "RECOVERY_PENDING")]
  /\ audit' = audit \cup {Event("EXECUTION_LEASE_STALE", id)}
  /\ Returned(c, id, leases[id].revision + 1, reply)
  /\ UNCHANGED clock

(* release: refused unless container, file effects and cleanup are all     *)
(* proved terminal (ReleaseEvidence.permits_release).                      *)
PermitsRelease(evidence) ==
  /\ evidence.container_terminal
  /\ evidence.file_effects_terminal
  /\ evidence.cleanup_verified

ReleaseEvidence == [container_terminal : BOOLEAN,
                    file_effects_terminal : BOOLEAN,
                    cleanup_verified : BOOLEAN]

Release(c, evidence, now, reply) ==
  LET id == view[c].lease_id IN
  /\ PermitsRelease(evidence)
  /\ OwnsCurrent(c, now)
  /\ leases' = [leases EXCEPT ![id] = Moved(@, "RELEASED")]
  /\ audit' = audit \cup {Event("EXECUTION_LEASE_RELEASED", id)}
  /\ Returned(c, id, leases[id].revision + 1, reply)
  /\ UNCHANGED clock

AcquireRecovery_AsExecution(c, id, run, now, reply) ==
  \E pending \in OpenLeases :
    /\ leases[pending].status = "RECOVERY_PENDING"
    /\ leases[pending].run = run
    /\ leases[pending].revision = view[c].revision
    /\ pending # id
    /\ leases[id] = NoRow
    /\ leases' = [leases EXCEPT ![pending] = Moved(@, "RELEASED"),
                                ![id] = NewRow(run, c, "EXECUTION", now)]
    /\ audit' = audit \cup {Event("EXECUTION_LEASE_RECOVERY_ACQUIRED", id)}
    /\ Returned(c, id, 1, reply)
    /\ UNCHANGED clock

(* acquire_recovery: the open stale lease is closed and a RECOVERY lease   *)
(* for the same run is opened in the same transaction.  The compare-and-   *)
(* swap token is the run and the revision the caller knows: the identity   *)
(* of the pending lease is not compared, so a revision read from one lease *)
(* of a run can match a later lease of that run.                           *)
AcquireRecovery(c, id, run, now, reply) ==
  \E pending \in OpenLeases :
    /\ leases[pending].status = "RECOVERY_PENDING"
    /\ leases[pending].run = run
    /\ leases[pending].revision = view[c].revision
    /\ pending # id
    /\ leases[id] = NoRow
    /\ leases' = [leases EXCEPT ![pending] = Moved(@, "RELEASED"),
                                ![id] = NewRow(run, c, "RECOVERY", now)]
    /\ audit' = audit \cup {Event("EXECUTION_LEASE_RECOVERY_ACQUIRED", id)}
    /\ Returned(c, id, 1, reply)
    /\ UNCHANGED clock

(* current and inspect: a client reads a row of the table. *)
Inspect(c, id) ==
  /\ leases[id] # NoRow
  /\ view' = [view EXCEPT ![c] = [lease_id |-> id,
                                  revision |-> leases[id].revision]]
  /\ UNCHANGED <<leases, audit, clock>>

Tick ==
  /\ clock < MaxTime
  /\ clock' = clock + 1
  /\ UNCHANGED <<leases, audit, view>>

Next ==
  \/ \E c \in Clients, id \in LeaseIds, reply \in BOOLEAN :
       \E now \in CallerTimes :
         \/ \E run \in Runs : Acquire(c, id, run, now, reply)
         \/ \E run \in Runs : AcquireRecovery(c, id, run, now, reply)
         \/ MarkExpired(c, id, now, reply)
  \/ \E c \in Clients, reply \in BOOLEAN :
       \E now \in CallerTimes :
         \/ Heartbeat(c, now, reply)
         \/ \E evidence \in ReleaseEvidence : Release(c, evidence, now, reply)
  \/ \E c \in Clients, id \in LeaseIds : Inspect(c, id)
  \/ Tick

Spec == Init /\ [][Next]_leaseVars

---------------------------------------------------------------------------
(* At most one lease is open: the rule the unique partial index            *)
(* execution_leases_one_open_slot states and every method keeps.           *)
OneOpenSlot ==
  \A i, j \in LeaseIds : IsOpen(leases[i]) /\ IsOpen(leases[j]) => i = j

WasStale(id) == Event("EXECUTION_LEASE_STALE", id) \in audit
WasReleased(id) == Event("EXECUTION_LEASE_RELEASED", id) \in audit

(* An expired heartbeat never hands the slot to other work: while the run  *)
(* of a stale lease has no RECOVERY lease that was released with full      *)
(* evidence, the open lease of the slot exists and belongs to that run.    *)
StaleRunKeepsSlot ==
  \A s \in LeaseIds :
    WasStale(s) =>
      \/ \E r \in LeaseIds :
           /\ IsOpen(leases[r])
           /\ leases[r].run = leases[s].run
      \/ \E r \in LeaseIds :
           /\ WasReleased(r)
           /\ leases[r].purpose = "RECOVERY"
           /\ leases[r].run = leases[s].run

(* A row, once written, is never reopened, re-owned or given other work,   *)
(* and each change moves its revision up by exactly one: the history of a  *)
(* lease is a single chain of compare-and-swap steps.                      *)
RowStep(row, rowNext) ==
  row # NoRow /\ rowNext # row =>
    /\ rowNext # NoRow
    /\ rowNext.run = row.run
    /\ rowNext.owner = row.owner
    /\ rowNext.purpose = row.purpose
    /\ rowNext.revision = row.revision + 1
    /\ row.status # "RELEASED"
    /\ row.status = "RECOVERY_PENDING" => rowNext.status = "RELEASED"

RowChain == [][\A id \in LeaseIds : RowStep(leases[id], leases'[id])]_leaseVars

(* Once a lease is RECOVERY_PENDING its former owner is fenced: the row    *)
(* changes only in the step that opens a RECOVERY lease for the same run.  *)
HandedToRecovery(id) ==
  \E r \in LeaseIds :
    /\ leases[r] = NoRow
    /\ leases'[r].status = "ACTIVE"
    /\ leases'[r].purpose = "RECOVERY"
    /\ leases'[r].run = leases[id].run

FencedAfterExpiry ==
  [][\A id \in LeaseIds :
       leases[id].status = "RECOVERY_PENDING" /\ leases'[id] # leases[id]
         => HandedToRecovery(id)]_leaseVars
=============================================================================
