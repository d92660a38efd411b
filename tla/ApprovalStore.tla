--------------------------- MODULE ApprovalStore ---------------------------
(***************************************************************************)
(* The life of approvals (domain/approvals.py, application/governance.py)  *)
(* in the tables approvals and changeset_confirmations                     *)
(* (persistence/sqlite_store.py), used by several workers of the service.  *)
(*                                                                         *)
(* consume and revoke decide on a record in memory; update_approval writes *)
(* the decided revision.  Python's sqlite3 opens its transaction at the    *)
(* INSERT: the SELECT before it sees the database of that moment, so each  *)
(* store operation is two steps, a check and an insert, and other workers  *)
(* may write in between.  Only primary keys are checked by the insert.     *)
(***************************************************************************)
EXTENDS Integers, Sequences

CONSTANTS
    Workers,            \* threads that serve commands
    Approvals,          \* approval identities, each its own request
    Confirmations,      \* changeset confirmations, each its own digests
    Keys,               \* idempotency keys of one task
    KeyOf,              \* the key each request carries
    Lifetime,           \* expires_at - created_at
    None,
    MaxPlan,            \* bound on plan versions
    MaxTime             \* bound on the clock

ASSUME KeyAssumption == KeyOf \in [Approvals \cup Confirmations -> Keys]
ASSUME NoneAssumption == None \notin Approvals \cup Confirmations
ASSUME LifetimeAssumption == Lifetime \in Nat \ {0}
ASSUME BoundAssumption == MaxPlan \in Nat /\ MaxTime \in Nat

VARIABLES
    approvals,          \* rows of each identity; row r has revision r
    confirmations,      \* changeset_confirmations: the request of each key
    plan,               \* sequence of the current plan version
    now,                \* the clock
    worker,             \* what each worker is doing, with its local variables
    effects,            \* side effects performed on each approval
    confirmed           \* confirmations a worker was told are stored

vars == <<approvals, confirmations, plan, now, worker, effects, confirmed>>

-----------------------------------------------------------------------------
(* Data *)

Status == {"pending", "consumed", "revoked"}
Row == [status : Status, plan : Nat, created : Nat]

NewApproval == [status |-> "pending", plan |-> plan, created |-> now]

NoRow == [status |-> "pending", plan |-> 0, created |-> 0]

Idle == [pc |-> "idle", request |-> None, record |-> NoRow, revision |-> 0,
         plan |-> 0]

Labels == {"idle", "insert", "decide", "update", "write", "act", "confirm"}

Worker == [pc : Labels, request : Approvals \cup Confirmations \cup {None},
           record : Row, revision : Nat, plan : Nat]

Init ==
    /\ approvals = [a \in Approvals |-> <<>>]
    /\ confirmations = [k \in Keys |-> None]
    /\ plan = 1
    /\ now = 0
    /\ worker = [w \in Workers |-> Idle]
    /\ effects = [a \in Approvals |-> 0]
    /\ confirmed = {}

Becomes(w, state) == worker' = [worker EXCEPT ![w] = state]
Goto(w, label) == worker' = [worker EXCEPT ![w].pc = label]
Done(w) == Becomes(w, Idle)

\* Rows that carry the idempotency key of request a.
Holders(a) == {b \in Approvals : KeyOf[b] = KeyOf[a] /\ approvals[b] # <<>>}

-----------------------------------------------------------------------------
(* record_approval *)

\* The approval is bound to the plan of this moment.  A row of the key is a
\* conflict, or a replay if it is the request's own; either way nothing is
\* written.
RecordCheck(w, a) ==
    /\ worker[w].pc = "idle"
    /\ Holders(a) = {}
    /\ Becomes(w, [pc |-> "insert", request |-> a, record |-> NewApproval,
                   revision |-> 1, plan |-> plan])
    /\ UNCHANGED <<approvals, confirmations, plan, now, effects, confirmed>>

\* The primary key is (approval_identity, revision).
RecordInsert(w) ==
    /\ worker[w].pc = "insert"
    /\ LET a == worker[w].request
       IN approvals' = IF approvals[a] = <<>>
                       THEN [approvals EXCEPT ![a] = <<worker[w].record>>]
                       ELSE approvals
    /\ Done(w)
    /\ UNCHANGED <<confirmations, plan, now, effects, confirmed>>

-----------------------------------------------------------------------------
(* consume, revoke and update_approval *)

\* get_approval returns the revision that was asked for; the context of the
\* execution names the plan of this moment.
Load(w, a, r) ==
    /\ worker[w].pc = "idle"
    /\ Becomes(w, [pc |-> "decide", request |-> a, record |-> approvals[a][r],
                   revision |-> r, plan |-> plan])
    /\ UNCHANGED <<approvals, confirmations, plan, now, effects, confirmed>>

Usable(record) == record.status = "pending"

\* _context_matches_record, for the part of it that changes
ContextMatches(w) == worker[w].plan = worker[w].record.plan

Unexpired(record) == record.created <= now /\ now < record.created + Lifetime

\* Mutant: only a revoked record is refused.
Consume_Again(w) ==
    /\ worker[w].pc = "decide"
    /\ worker[w].record.status # "revoked"
    /\ ContextMatches(w)
    /\ Unexpired(worker[w].record)
    /\ worker' = [worker EXCEPT ![w].pc = "update",
                                ![w].record.status = "consumed"]
    /\ UNCHANGED <<approvals, confirmations, plan, now, effects, confirmed>>

\* consume_approval
Consume(w) ==
    /\ worker[w].pc = "decide"
    /\ Usable(worker[w].record)
    /\ ContextMatches(w)
    /\ Unexpired(worker[w].record)
    /\ worker' = [worker EXCEPT ![w].pc = "update",
                                ![w].record.status = "consumed"]
    /\ UNCHANGED <<approvals, confirmations, plan, now, effects, confirmed>>

\* revoke_approval
Revoke(w) ==
    /\ worker[w].pc = "decide"
    /\ Usable(worker[w].record)
    /\ worker' = [worker EXCEPT ![w].pc = "update",
                                ![w].record.status = "revoked"]
    /\ UNCHANGED <<approvals, confirmations, plan, now, effects, confirmed>>

\* update_approval: the newest row must have the revision decided on.
UpdateCheck(w) ==
    /\ worker[w].pc = "update"
    /\ IF Len(approvals[worker[w].request]) = worker[w].revision
       THEN Goto(w, "write") ELSE Done(w)
    /\ UNCHANGED <<approvals, confirmations, plan, now, effects, confirmed>>

\* Mutant: the table has no primary key.
UpdateInsert_NoKey(w) ==
    /\ worker[w].pc = "write"
    /\ approvals' = [approvals EXCEPT ![worker[w].request] =
                        Append(@, worker[w].record)]
    /\ IF worker[w].record.status = "consumed" THEN Goto(w, "act") ELSE Done(w)
    /\ UNCHANGED <<confirmations, plan, now, effects, confirmed>>

\* Mutant: UPDATE of the row instead of an INSERT.
UpdateInsert_InPlace(w) ==
    /\ worker[w].pc = "write"
    /\ approvals' = [approvals EXCEPT ![worker[w].request] =
                        <<worker[w].record>>]
    /\ IF worker[w].record.status = "consumed" THEN Goto(w, "act") ELSE Done(w)
    /\ UNCHANGED <<confirmations, plan, now, effects, confirmed>>

\* Primary key again; the side effect is permitted once the row is committed.
UpdateInsert(w) ==
    /\ worker[w].pc = "write"
    /\ LET a == worker[w].request
           free == Len(approvals[a]) = worker[w].revision
       IN /\ approvals' = IF free
                          THEN [approvals EXCEPT ![a] =
                                    Append(@, worker[w].record)]
                          ELSE approvals
          /\ IF free /\ worker[w].record.status = "consumed"
             THEN Goto(w, "act") ELSE Done(w)
    /\ UNCHANGED <<confirmations, plan, now, effects, confirmed>>

\* The caller's side effect, after the commit (side_effect_permitted).
Act(w) ==
    /\ worker[w].pc = "act"
    /\ effects' = [effects EXCEPT ![worker[w].request] = @ + 1]
    /\ Done(w)
    /\ UNCHANGED <<approvals, confirmations, plan, now, confirmed>>

-----------------------------------------------------------------------------
(* confirm_changeset *)

\* A row of the key must be of the same request, and then all is done.
ConfirmCheck(w, c) ==
    /\ worker[w].pc = "idle"
    /\ IF confirmations[KeyOf[c]] = None
       THEN /\ Becomes(w, [Idle EXCEPT !.pc = "confirm", !.request = c])
            /\ UNCHANGED confirmed
       ELSE /\ confirmations[KeyOf[c]] = c
            /\ confirmed' = confirmed \cup {c}
            /\ UNCHANGED worker
    /\ UNCHANGED <<approvals, confirmations, plan, now, effects>>

\* Mutant: INSERT OR REPLACE.
ConfirmInsert_Replaces(w) ==
    /\ worker[w].pc = "confirm"
    /\ LET c == worker[w].request
       IN /\ confirmations' = [confirmations EXCEPT ![KeyOf[c]] = c]
          /\ confirmed' = confirmed \cup {c}
    /\ Done(w)
    /\ UNCHANGED <<approvals, plan, now, effects>>

\* The primary key is (task_id, idempotency_key).
ConfirmInsert(w) ==
    /\ worker[w].pc = "confirm"
    /\ LET c == worker[w].request
           free == confirmations[KeyOf[c]] = None
       IN /\ confirmations' = IF free
                              THEN [confirmations EXCEPT ![KeyOf[c]] = c]
                              ELSE confirmations
          /\ confirmed' = IF free THEN confirmed \cup {c} ELSE confirmed
    /\ Done(w)
    /\ UNCHANGED <<approvals, plan, now, effects>>

-----------------------------------------------------------------------------
(* Environment *)

\* The worker gives up: an exception, a lost reply of the commit, a crash.
Abandon(w) ==
    /\ worker[w].pc # "idle"
    /\ Done(w)
    /\ UNCHANGED <<approvals, confirmations, plan, now, effects, confirmed>>

\* record_plan_version leaves approvals alone.
RevisePlan ==
    /\ plan < MaxPlan
    /\ plan' = plan + 1
    /\ UNCHANGED <<approvals, confirmations, now, worker, effects, confirmed>>

Tick ==
    /\ now < MaxTime
    /\ now' = now + 1
    /\ UNCHANGED <<approvals, confirmations, plan, worker, effects, confirmed>>

Step(w) ==
    \/ RecordInsert(w) \/ Consume(w) \/ Revoke(w) \/ UpdateCheck(w)
    \/ UpdateInsert(w) \/ Act(w) \/ ConfirmInsert(w) \/ Abandon(w)
    \/ \E a \in Approvals : RecordCheck(w, a)
    \/ \E a \in Approvals : \E r \in DOMAIN approvals[a] : Load(w, a, r)
    \/ \E c \in Confirmations : ConfirmCheck(w, c)

Next == (\E w \in Workers : Step(w)) \/ RevisePlan \/ Tick

Spec == Init /\ [][Next]_vars

-----------------------------------------------------------------------------
(* Properties *)

\* Every variable keeps its type; a stored row has a status of the closed set.
TypeOK ==
    /\ approvals \in [Approvals -> Seq(Row)]
    /\ confirmations \in [Keys -> Confirmations \cup {None}]
    /\ plan \in Nat /\ now \in Nat
    /\ worker \in [Workers -> Worker]
    /\ effects \in [Approvals -> Nat]
    /\ confirmed \subseteq Confirmations

\* However many workers loaded the same pending record, an approval authorises
\* one side effect at most.
AtMostOneEffect == \A a \in Approvals : effects[a] <= 1

\* Once a revocation is stored there is no side effect of the approval, not
\* even by a worker that had decided to consume it before.
RevokedNeverActs ==
    \A a \in Approvals : (\E r \in DOMAIN approvals[a] :
                              approvals[a][r].status = "revoked")
        => effects[a] = 0

\* The history of an approval is append-only: no step changes or removes a row,
\* so whoever holds a revision can read again what was decided on it.
HistoryGrows ==
    [][\A a \in Approvals : \A r \in DOMAIN approvals[a] :
          /\ r \in DOMAIN approvals'[a]
          /\ approvals'[a][r] = approvals[a][r]]_vars

\* Every confirmation reported as stored is the one its key names.
ConfirmedIsStored ==
    \A c \in confirmed : confirmations[KeyOf[c]] = c

\* What the documentation says: one idempotency key, one request.
KeyNamesOneRequest ==
    \A a, b \in Approvals : approvals[a] # <<>> /\ approvals[b] # <<>>
        /\ KeyOf[a] = KeyOf[b] => a = b
=============================================================================
