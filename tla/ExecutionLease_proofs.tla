------------------------ MODULE ExecutionLease_proofs ------------------------
(***************************************************************************)
(* The safety properties of the execution slot, for every set of lease     *)
(* identities, clients and runs and every timeout, skew and bound.         *)
(***************************************************************************)
EXTENDS ExecutionLease, TLAPS

(* What the audit rows say of the table: a lease that was declared stale   *)
(* or released has a row, and is not ACTIVE any more.                      *)
AuditMatchesRows ==
  \A id \in LeaseIds :
    /\ WasStale(id) => leases[id] # NoRow /\ leases[id].status # "ACTIVE"
    /\ WasReleased(id) => leases[id] # NoRow /\ leases[id].status = "RELEASED"

(* StaleRunKeepsSlot with what makes it inductive: the open lease of a     *)
(* stale run is itself stale or is a RECOVERY lease, so the only release   *)
(* that can free the slot is the release of a RECOVERY lease.              *)
StaleRunInRecovery ==
  \A s \in LeaseIds :
    WasStale(s) =>
      \/ \E r \in LeaseIds :
           /\ IsOpen(leases[r])
           /\ leases[r].run = leases[s].run
           /\ leases[r].status = "RECOVERY_PENDING" \/ leases[r].purpose = "RECOVERY"
      \/ \E r \in LeaseIds :
           /\ WasReleased(r)
           /\ leases[r].purpose = "RECOVERY"
           /\ leases[r].run = leases[s].run

LeaseInv ==
  /\ TypeOK
  /\ OneOpenSlot
  /\ AuditMatchesRows
  /\ StaleRunInRecovery

(* The caller's view is well typed after every call. *)
LEMMA ReturnedType ==
  ASSUME NEW c \in Clients, NEW id \in LeaseIds, NEW rev \in Nat \ {0},
         NEW reply, view \in [Clients -> View \cup {NoView}],
         Returned(c, id, rev, reply)
  PROVE  view' \in [Clients -> View \cup {NoView}]
  BY DEF Returned, View

(* Every step of the service keeps the table, the audit rows and the views *)
(* well typed.                                                             *)
LEMMA TypeStep == TypeOK /\ [Next]_leaseVars => TypeOK'
<1> SUFFICES ASSUME TypeOK, [Next]_leaseVars PROVE TypeOK'
  OBVIOUS
<1> USE DEF TypeOK
<1>1. ASSUME NEW c \in Clients, NEW id \in LeaseIds, NEW reply \in BOOLEAN,
             NEW now \in CallerTimes, NEW run \in Runs,
             Acquire(c, id, run, now, reply)
      PROVE  TypeOK'
  <2>1. NewRow(run, c, "EXECUTION", now) \in Row
    BY <1>1 DEF NewRow, Row, Purposes, Statuses, CallerTimes
  <2> QED BY <1>1, <2>1, ReturnedType DEF Acquire
<1>2. ASSUME NEW c \in Clients, NEW id \in LeaseIds, NEW reply \in BOOLEAN,
             NEW now \in CallerTimes, NEW run \in Runs,
             AcquireRecovery(c, id, run, now, reply)
      PROVE  TypeOK'
  <2>1. NewRow(run, c, "RECOVERY", now) \in Row
    BY <1>2 DEF NewRow, Row, Purposes, Statuses, CallerTimes
  <2>2. PICK p \in OpenLeases :
          /\ leases[p].status = "RECOVERY_PENDING"
          /\ leases' = [leases EXCEPT ![p] = Moved(@, "RELEASED"),
                                      ![id] = NewRow(run, c, "RECOVERY", now)]
    BY <1>2 DEF AcquireRecovery
  <2>3. p \in LeaseIds /\ leases[p] \in Row
    BY <2>2 DEF OpenLeases, NoRow
  <2>4. Moved(leases[p], "RELEASED") \in Row
    BY <2>3 DEF Row, Statuses, Moved, Updated
  <2>5. leases' \in [LeaseIds -> Row \cup {NoRow}]
    BY <2>1, <2>2, <2>3, <2>4
  <2>6. audit' \subseteq AuditEvents
    BY <1>2 DEF AcquireRecovery, Event, AuditEvents, AuditKinds
  <2> QED BY <1>2, <2>5, <2>6, ReturnedType DEF AcquireRecovery
<1>3. ASSUME NEW c \in Clients, NEW id \in LeaseIds, NEW reply \in BOOLEAN,
             NEW now \in CallerTimes, MarkExpired(c, id, now, reply)
      PROVE  TypeOK'
  <2>1. leases[id] \in Row
    BY <1>3 DEF MarkExpired, NoRow
  <2>2. Moved(leases[id], "RECOVERY_PENDING") \in Row
    BY <2>1 DEF Row, Statuses, Moved, Updated
  <2>3. leases[id].revision + 1 \in Nat \ {0}
    BY <2>1 DEF Row
  <2>4. leases' \in [LeaseIds -> Row \cup {NoRow}]
    BY <1>3, <2>1, <2>2 DEF MarkExpired
  <2>5. audit' \subseteq AuditEvents
    BY <1>3 DEF MarkExpired, Event, AuditEvents, AuditKinds
  <2> QED BY <1>3, <2>3, <2>4, <2>5, ReturnedType DEF MarkExpired
<1>4. ASSUME NEW c \in Clients, NEW reply \in BOOLEAN, NEW now \in CallerTimes,
             Heartbeat(c, now, reply)
      PROVE  TypeOK'
  <2> DEFINE id == view[c].lease_id
  <2>1. id \in LeaseIds /\ leases[id] \in Row
    BY <1>4 DEF Heartbeat, OwnsCurrent, View, NoRow
  <2>2. Updated(leases[id], "ACTIVE", now) \in Row
    BY <2>1 DEF Row, Statuses, CallerTimes, Updated
  <2>3. leases[id].revision + 1 \in Nat \ {0}
    BY <2>1 DEF Row
  <2>4. leases' \in [LeaseIds -> Row \cup {NoRow}]
    BY <1>4, <2>1, <2>2 DEF Heartbeat
  <2> QED BY <1>4, <2>1, <2>3, <2>4, ReturnedType DEF Heartbeat
<1>5. ASSUME NEW c \in Clients, NEW reply \in BOOLEAN, NEW now \in CallerTimes,
             NEW evidence \in ReleaseEvidence, Release(c, evidence, now, reply)
      PROVE  TypeOK'
  <2> DEFINE id == view[c].lease_id
  <2>1. id \in LeaseIds /\ leases[id] \in Row
    BY <1>5 DEF Release, OwnsCurrent, View, NoRow
  <2>2. Moved(leases[id], "RELEASED") \in Row
    BY <2>1 DEF Row, Statuses, Moved, Updated
  <2>3. leases[id].revision + 1 \in Nat \ {0}
    BY <2>1 DEF Row
  <2>4. leases' \in [LeaseIds -> Row \cup {NoRow}]
    BY <1>5, <2>1, <2>2 DEF Release
  <2>5. audit' \subseteq AuditEvents
    BY <1>5, <2>1 DEF Release, Event, AuditEvents, AuditKinds
  <2> QED BY <1>5, <2>1, <2>3, <2>4, <2>5, ReturnedType DEF Release
<1>6. ASSUME NEW c \in Clients, NEW id \in LeaseIds, Inspect(c, id)
      PROVE  TypeOK'
  <2>1. leases[id].revision \in Nat \ {0}
    BY <1>6 DEF Inspect, Row
  <2> QED BY <1>6, <2>1 DEF Inspect, View
<1>7. CASE Tick
  BY <1>7 DEF Tick
<1>8. CASE UNCHANGED leaseVars
  BY <1>8 DEF leaseVars
<1> QED BY <1>1, <1>2, <1>3, <1>4, <1>5, <1>6, <1>7, <1>8 DEF Next

(* Every step keeps at most one lease open and the recovery chain of every *)
(* stale run intact.                                                       *)
LEMMA LeaseInvStep == LeaseInv /\ [Next]_leaseVars => LeaseInv'
<1> SUFFICES ASSUME LeaseInv, [Next]_leaseVars PROVE LeaseInv'
  OBVIOUS
<1>t. TypeOK /\ TypeOK'
  BY TypeStep DEF LeaseInv
<1>rows. \A i \in LeaseIds : leases[i] \in Row \/ leases[i] = NoRow
  BY <1>t DEF TypeOK
<1>1. ASSUME NEW c \in Clients, NEW id \in LeaseIds, NEW reply \in BOOLEAN,
             NEW now \in CallerTimes, NEW run \in Runs,
             Acquire(c, id, run, now, reply)
      PROVE  LeaseInv'
  <2>1. /\ \A i \in LeaseIds : ~IsOpen(leases[i])
        /\ leases[id] = NoRow
        /\ leases'[id].status = "ACTIVE"
        /\ leases'[id] # NoRow
        /\ \A i \in LeaseIds \ {id} : leases'[i] = leases[i]
        /\ audit' = audit
    BY <1>1, <1>t DEF Acquire, OpenLeases, TypeOK, NewRow, NoRow
  <2>2. OneOpenSlot'
    BY <2>1 DEF OneOpenSlot, IsOpen
  <2>3. AuditMatchesRows'
    BY <2>1 DEF LeaseInv, AuditMatchesRows, WasStale, WasReleased
  <2>4. StaleRunInRecovery'
    BY <2>1 DEF LeaseInv, StaleRunInRecovery, AuditMatchesRows, WasStale, WasReleased, IsOpen
  <2> QED BY <1>t, <2>2, <2>3, <2>4 DEF LeaseInv
<1>2. ASSUME NEW c \in Clients, NEW id \in LeaseIds, NEW reply \in BOOLEAN,
             NEW now \in CallerTimes, NEW run \in Runs,
             AcquireRecovery(c, id, run, now, reply)
      PROVE  LeaseInv'
  <2>1. PICK p \in LeaseIds :
          /\ leases[p].status = "RECOVERY_PENDING"
          /\ leases[p].run = run
          /\ p # id
          /\ leases[id] = NoRow
          /\ leases' = [leases EXCEPT ![p] = Moved(@, "RELEASED"),
                                      ![id] = NewRow(run, c, "RECOVERY", now)]
          /\ audit' = audit \cup {Event("EXECUTION_LEASE_RECOVERY_ACQUIRED", id)}
    BY <1>2 DEF AcquireRecovery, OpenLeases
  <2>2. /\ leases'[p] = Moved(leases[p], "RELEASED")
        /\ leases'[id] = NewRow(run, c, "RECOVERY", now)
        /\ \A i \in LeaseIds \ {p, id} : leases'[i] = leases[i]
    BY <2>1, <1>t DEF TypeOK
  <2>3. /\ leases'[p].status = "RELEASED"
        /\ leases'[p].run = run
        /\ leases'[p].purpose = leases[p].purpose
        /\ leases'[id].status = "ACTIVE"
        /\ leases'[id].run = run
        /\ leases'[id].purpose = "RECOVERY"
        /\ leases'[p] # NoRow
        /\ leases'[id] # NoRow
    BY <2>1, <2>2 DEF Moved, Updated, NewRow, NoRow
  <2>4. \A i \in LeaseIds \ {p} : ~IsOpen(leases[i])
    BY <2>1 DEF LeaseInv, OneOpenSlot, IsOpen
  <2>5. \A i \in LeaseIds : /\ WasStale(i)' <=> WasStale(i)
                            /\ WasReleased(i)' <=> WasReleased(i)
    BY <2>1 DEF WasStale, WasReleased, Event
  <2>6. OneOpenSlot'
    BY <2>2, <2>3, <2>4 DEF OneOpenSlot, IsOpen
  <2>7. AuditMatchesRows'
    BY <2>1, <2>2, <2>3, <2>5 DEF LeaseInv, AuditMatchesRows
  <2>8. StaleRunInRecovery'
    <3> SUFFICES ASSUME NEW s \in LeaseIds, WasStale(s)
                 PROVE  \/ /\ IsOpen(leases[id])'
                           /\ leases'[id].run = leases'[s].run
                           /\ leases'[id].purpose = "RECOVERY"
                        \/ \E r \in LeaseIds : /\ WasReleased(r)
                                               /\ leases'[r].purpose = "RECOVERY"
                                               /\ leases'[r].run = leases'[s].run
      BY <2>5 DEF StaleRunInRecovery
    <3>1. s # id /\ leases'[s].run = leases[s].run
      BY <2>1, <2>2, <2>3 DEF LeaseInv, AuditMatchesRows
    <3>2. CASE \E r \in LeaseIds : IsOpen(leases[r]) /\ leases[r].run = leases[s].run
      BY <3>1, <3>2, <2>1, <2>3, <2>4 DEF IsOpen
    <3>3. CASE \E r \in LeaseIds : /\ WasReleased(r)
                                   /\ leases[r].purpose = "RECOVERY"
                                   /\ leases[r].run = leases[s].run
      <4>1. PICK r \in LeaseIds : /\ WasReleased(r)
                                  /\ leases[r].purpose = "RECOVERY"
                                  /\ leases[r].run = leases[s].run
        BY <3>3
      <4>2. r # id
        BY <4>1, <2>1 DEF LeaseInv, AuditMatchesRows
      <4> QED BY <4>1, <4>2, <3>1, <2>1, <2>2, <2>3
    <3> QED BY <3>2, <3>3 DEF LeaseInv, StaleRunInRecovery
  <2> QED BY <1>t, <2>6, <2>7, <2>8 DEF LeaseInv
<1>3. ASSUME NEW c \in Clients, NEW id \in LeaseIds, NEW reply \in BOOLEAN,
             NEW now \in CallerTimes, MarkExpired(c, id, now, reply)
      PROVE  LeaseInv'
  <2>1. /\ IsOpen(leases[id])
        /\ leases'[id].status = "RECOVERY_PENDING"
        /\ leases'[id].run = leases[id].run
        /\ leases'[id].purpose = leases[id].purpose
        /\ leases'[id] # NoRow
        /\ \A i \in LeaseIds \ {id} : leases'[i] = leases[i]
    BY <1>3, <1>t DEF MarkExpired, OpenLeases, TypeOK, Moved, Updated, NoRow
  <2>2. /\ \A i \in LeaseIds : WasReleased(i)' <=> WasReleased(i)
        /\ \A i \in LeaseIds \ {id} : WasStale(i)' <=> WasStale(i)
    BY <1>3 DEF MarkExpired, WasStale, WasReleased, Event
  <2>3. ~WasReleased(id)
    BY <1>3 DEF LeaseInv, AuditMatchesRows, MarkExpired
  <2>4. OneOpenSlot'
    BY <2>1 DEF LeaseInv, OneOpenSlot, IsOpen
  <2>5. AuditMatchesRows'
    BY <2>1, <2>2, <2>3 DEF LeaseInv, AuditMatchesRows
  <2>6. StaleRunInRecovery'
    <3> SUFFICES ASSUME NEW s \in LeaseIds, s # id => WasStale(s)
                 PROVE  \/ \E r \in LeaseIds :
                             /\ IsOpen(leases[r])'
                             /\ leases'[r].run = leases'[s].run
                             /\ leases'[r].status = "RECOVERY_PENDING" \/ leases'[r].purpose = "RECOVERY"
                        \/ \E r \in LeaseIds :
                             /\ WasReleased(r)
                             /\ leases'[r].purpose = "RECOVERY"
                             /\ leases'[r].run = leases'[s].run
      BY <2>2 DEF StaleRunInRecovery
    <3>1. leases'[s].run = leases[s].run
      BY <2>1
    <3>2. CASE s = id
      BY <3>2, <2>1 DEF IsOpen
    <3>3. CASE s # id
      BY <3>1, <3>3, <2>1 DEF LeaseInv, StaleRunInRecovery, IsOpen
    <3> QED BY <3>2, <3>3
  <2> QED BY <1>t, <2>4, <2>5, <2>6 DEF LeaseInv
<1>4. ASSUME NEW c \in Clients, NEW reply \in BOOLEAN, NEW now \in CallerTimes,
             Heartbeat(c, now, reply)
      PROVE  LeaseInv'
  <2>1. PICK id \in LeaseIds :
        /\ leases[id].status = "ACTIVE"
        /\ leases'[id].status = "ACTIVE"
        /\ leases'[id].run = leases[id].run
        /\ leases'[id].purpose = leases[id].purpose
        /\ leases'[id] # NoRow
        /\ \A i \in LeaseIds \ {id} : leases'[i] = leases[i]
        /\ audit' = audit
    BY <1>4, <1>t DEF Heartbeat, OwnsCurrent, TypeOK, View, Updated, NoRow
  <2>2. \A i \in LeaseIds : IsOpen(leases[i])' <=> IsOpen(leases[i])
    BY <2>1 DEF IsOpen
  <2>3. OneOpenSlot'
    BY <2>2 DEF LeaseInv, OneOpenSlot
  <2>4. AuditMatchesRows'
    BY <2>1 DEF LeaseInv, AuditMatchesRows, WasStale, WasReleased
  <2>5. StaleRunInRecovery'
    BY <2>1 DEF LeaseInv, StaleRunInRecovery, WasStale, WasReleased, IsOpen
  <2> QED BY <1>t, <2>3, <2>4, <2>5 DEF LeaseInv
<1>5. ASSUME NEW c \in Clients, NEW reply \in BOOLEAN, NEW now \in CallerTimes,
             NEW evidence \in ReleaseEvidence, Release(c, evidence, now, reply)
      PROVE  LeaseInv'
  <2>1. PICK id \in LeaseIds :
        /\ leases[id].status = "ACTIVE"
        /\ leases'[id].status = "RELEASED"
        /\ leases'[id].run = leases[id].run
        /\ leases'[id].purpose = leases[id].purpose
        /\ leases'[id] # NoRow
        /\ \A i \in LeaseIds \ {id} : leases'[i] = leases[i]
        /\ audit' = audit \cup {Event("EXECUTION_LEASE_RELEASED", id)}
    BY <1>5, <1>t DEF Release, OwnsCurrent, TypeOK, View, Moved, Updated, NoRow
  <2>2. /\ \A i \in LeaseIds : WasStale(i)' <=> WasStale(i)
        /\ \A i \in LeaseIds \ {id} : WasReleased(i)' <=> WasReleased(i)
        /\ WasReleased(id)'
    BY <2>1 DEF WasStale, WasReleased, Event
  <2>3. OneOpenSlot'
    BY <2>1 DEF LeaseInv, OneOpenSlot, IsOpen
  <2>4. AuditMatchesRows'
    BY <2>1, <2>2 DEF LeaseInv, AuditMatchesRows
  <2>5. StaleRunInRecovery'
    <3> SUFFICES ASSUME NEW s \in LeaseIds, WasStale(s)
                 PROVE  \/ \E r \in LeaseIds :
                             /\ IsOpen(leases[r])'
                             /\ leases'[r].run = leases'[s].run
                             /\ leases'[r].status = "RECOVERY_PENDING" \/ leases'[r].purpose = "RECOVERY"
                        \/ \E r \in LeaseIds :
                             /\ WasReleased(r)'
                             /\ leases'[r].purpose = "RECOVERY"
                             /\ leases'[r].run = leases'[s].run
      BY <2>2 DEF StaleRunInRecovery
    <3>1. \A i \in LeaseIds : /\ leases'[i].run = leases[i].run
                              /\ leases'[i].purpose = leases[i].purpose
                              /\ WasReleased(i) => WasReleased(i)'
      BY <2>1, <2>2
    <3>2. CASE \E r \in LeaseIds :
                 /\ IsOpen(leases[r])
                 /\ leases[r].run = leases[s].run
                 /\ leases[r].status = "RECOVERY_PENDING" \/ leases[r].purpose = "RECOVERY"
      BY <3>1, <3>2, <2>1, <2>2 DEF IsOpen
    <3>3. CASE \E r \in LeaseIds : /\ WasReleased(r)
                                   /\ leases[r].purpose = "RECOVERY"
                                   /\ leases[r].run = leases[s].run
      BY <3>1, <3>3
    <3> QED BY <3>2, <3>3 DEF LeaseInv, StaleRunInRecovery
  <2> QED BY <1>t, <2>3, <2>4, <2>5 DEF LeaseInv
<1>6. CASE UNCHANGED <<leases, audit>>
  BY <1>6, <1>t DEF LeaseInv, OneOpenSlot, AuditMatchesRows, StaleRunInRecovery,
                    WasStale, WasReleased, IsOpen
<1> QED BY <1>1, <1>2, <1>3, <1>4, <1>5, <1>6 DEF Next, Inspect, Tick, leaseVars

(* The inductive invariant holds in every reachable state. *)
LEMMA LeaseInvHolds == Spec => []LeaseInv
<1>1. Init => LeaseInv
  BY DEF Init, LeaseInv, TypeOK, View, NoView, OneOpenSlot, IsOpen, NoRow,
         AuditMatchesRows, StaleRunInRecovery, WasStale, WasReleased
<1> QED BY <1>1, LeaseInvStep, PTL DEF Spec

(* The table, the audit rows and the clients' views are always well typed. *)
THEOREM TypeCorrect == Spec => []TypeOK
<1>1. LeaseInv => TypeOK
  BY DEF LeaseInv
<1> QED BY <1>1, LeaseInvHolds, PTL

(* At most one lease of the slot is open, whatever the clients and the     *)
(* clocks do.                                                              *)
THEOREM SlotExclusive == Spec => []OneOpenSlot
<1>1. LeaseInv => OneOpenSlot
  BY DEF LeaseInv
<1> QED BY <1>1, LeaseInvHolds, PTL

(* The slot stays with the run of a stale lease until a RECOVERY lease of  *)
(* that run is released with full evidence.                                *)
THEOREM StaleRunIsRecovered == Spec => []StaleRunKeepsSlot
<1>1. LeaseInv => StaleRunKeepsSlot
  BY DEF LeaseInv, StaleRunInRecovery, StaleRunKeepsSlot
<1> QED BY <1>1, LeaseInvHolds, PTL

(* What one step does to the table: no row changes, one row is inserted or *)
(* updated, or a pending lease is closed while a RECOVERY lease of its run *)
(* is inserted.                                                            *)
Inserted(id) ==
  /\ leases[id] = NoRow
  /\ \A i \in LeaseIds \ {id} : leases'[i] = leases[i]

Changed(id, status, t) ==
  /\ leases[id].status = "ACTIVE"
  /\ leases'[id] = Updated(leases[id], status, t)
  /\ \A i \in LeaseIds \ {id} : leases'[i] = leases[i]

HandedOver(p, id) ==
  /\ leases[p].status = "RECOVERY_PENDING"
  /\ leases[id] = NoRow
  /\ leases'[p] = Moved(leases[p], "RELEASED")
  /\ leases'[id].status = "ACTIVE"
  /\ leases'[id].purpose = "RECOVERY"
  /\ leases'[id].run = leases[p].run
  /\ \A i \in LeaseIds \ {p, id} : leases'[i] = leases[i]

TableChange ==
  \/ leases' = leases
  \/ \E id \in LeaseIds : Inserted(id)
  \/ \E id \in LeaseIds, status \in Statuses, t \in Nat : Changed(id, status, t)
  \/ \E p \in LeaseIds, id \in LeaseIds : HandedOver(p, id)

(* Every step of the service is one of those changes of the table. *)
LEMMA TableStep ==
  ASSUME TypeOK, [Next]_leaseVars
  PROVE  TableChange
<1>1. ASSUME NEW c \in Clients, NEW id \in LeaseIds, NEW reply \in BOOLEAN,
             NEW now \in CallerTimes, NEW run \in Runs,
             Acquire(c, id, run, now, reply)
      PROVE  TableChange
  BY <1>1 DEF Acquire, TypeOK, TableChange, Inserted
<1>2. ASSUME NEW c \in Clients, NEW id \in LeaseIds, NEW reply \in BOOLEAN,
             NEW now \in CallerTimes, NEW run \in Runs,
             AcquireRecovery(c, id, run, now, reply)
      PROVE  TableChange
  <2>1. PICK p \in LeaseIds :
          /\ leases[p].status = "RECOVERY_PENDING"
          /\ leases[p].run = run
          /\ p # id
          /\ leases[id] = NoRow
          /\ leases' = [leases EXCEPT ![p] = Moved(@, "RELEASED"),
                                      ![id] = NewRow(run, c, "RECOVERY", now)]
    BY <1>2 DEF AcquireRecovery, OpenLeases
  <2>2. /\ leases'[p] = Moved(leases[p], "RELEASED")
        /\ leases'[id] = NewRow(run, c, "RECOVERY", now)
        /\ \A i \in LeaseIds \ {p, id} : leases'[i] = leases[i]
    BY <2>1 DEF TypeOK
  <2>3. /\ leases'[id].status = "ACTIVE"
        /\ leases'[id].purpose = "RECOVERY"
        /\ leases'[id].run = leases[p].run
    BY <2>1, <2>2 DEF NewRow
  <2>4. HandedOver(p, id)
    BY <2>1, <2>2, <2>3 DEF HandedOver
  <2> QED BY <2>4 DEF TableChange
<1>3. ASSUME NEW c \in Clients, NEW id \in LeaseIds, NEW reply \in BOOLEAN,
             NEW now \in CallerTimes, MarkExpired(c, id, now, reply)
      PROVE  TableChange
  <2>1. leases[id] \in Row
    BY <1>3 DEF MarkExpired, TypeOK, NoRow
  <2>2. leases[id].last_progress_at \in Nat /\ "RECOVERY_PENDING" \in Statuses
    BY <2>1 DEF Row, Statuses
  <2>3. /\ leases[id].status = "ACTIVE"
        /\ leases'[id] = Updated(leases[id], "RECOVERY_PENDING", leases[id].last_progress_at)
        /\ \A i \in LeaseIds \ {id} : leases'[i] = leases[i]
    BY <1>3 DEF MarkExpired, TypeOK, Moved
  <2> QED BY <2>2, <2>3 DEF TableChange, Changed
<1>4. ASSUME NEW c \in Clients, NEW reply \in BOOLEAN, NEW now \in CallerTimes,
             Heartbeat(c, now, reply)
      PROVE  TableChange
  <2>1. PICK id \in LeaseIds :
          /\ leases[id].status = "ACTIVE"
          /\ leases' = [leases EXCEPT ![id] = Updated(@, "ACTIVE", now)]
    BY <1>4 DEF Heartbeat, OwnsCurrent, TypeOK, View
  <2>2. now \in Nat /\ "ACTIVE" \in Statuses
    BY DEF CallerTimes, TypeOK, Statuses
  <2>3. Changed(id, "ACTIVE", now)
    BY <2>1, <2>2 DEF TypeOK, Changed
  <2> QED BY <2>2, <2>3 DEF TableChange
<1>5. ASSUME NEW c \in Clients, NEW reply \in BOOLEAN, NEW now \in CallerTimes,
             NEW evidence \in ReleaseEvidence, Release(c, evidence, now, reply)
      PROVE  TableChange
  <2>1. PICK id \in LeaseIds :
          /\ leases[id].status = "ACTIVE"
          /\ leases' = [leases EXCEPT ![id] = Moved(@, "RELEASED")]
    BY <1>5 DEF Release, OwnsCurrent, TypeOK, View
  <2>2. leases[id] \in Row
    BY <2>1 DEF TypeOK, NoRow
  <2>3. leases[id].last_progress_at \in Nat /\ "RELEASED" \in Statuses
    BY <2>2 DEF Row, Statuses
  <2>4. /\ leases'[id] = Updated(leases[id], "RELEASED", leases[id].last_progress_at)
        /\ \A i \in LeaseIds \ {id} : leases'[i] = leases[i]
    BY <2>1 DEF TypeOK, Moved
  <2> QED BY <2>1, <2>3, <2>4 DEF TableChange, Changed
<1>6. CASE leases' = leases
  BY <1>6 DEF TableChange
<1> QED BY <1>1, <1>2, <1>3, <1>4, <1>5, <1>6 DEF Next, Inspect, Tick, leaseVars

(* Every change of a row is one compare-and-swap step of an unreleased     *)
(* lease that keeps its run, owner and purpose.                            *)
THEOREM RowsFormChains == Spec => RowChain
<1>1. TypeOK /\ [Next]_leaseVars
        => [\A id \in LeaseIds : RowStep(leases[id], leases'[id])]_leaseVars
  <2> SUFFICES ASSUME TypeOK, [Next]_leaseVars, NEW i \in LeaseIds
               PROVE  RowStep(leases[i], leases'[i])
    OBVIOUS
  <2>1. CASE leases'[i] = leases[i] \/ leases[i] = NoRow
    BY <2>1 DEF RowStep
  <2>2. CASE \E status \in Statuses, t \in Nat :
               /\ leases[i].status = "ACTIVE"
               /\ leases'[i] = Updated(leases[i], status, t)
    BY <2>2 DEF RowStep, Updated, NoRow
  <2>3. CASE /\ leases[i].status = "RECOVERY_PENDING"
             /\ leases'[i] = Moved(leases[i], "RELEASED")
    BY <2>3 DEF RowStep, Moved, Updated, NoRow
  <2> QED BY <2>1, <2>2, <2>3, TableStep DEF TableChange, Inserted, Changed, HandedOver
<1> QED BY <1>1, TypeCorrect, PTL DEF Spec, RowChain

(* A RECOVERY_PENDING row changes only in the step that opens a RECOVERY   *)
(* lease for the same run.                                                 *)
THEOREM ExpiryFences == Spec => FencedAfterExpiry
<1>1. TypeOK /\ [Next]_leaseVars
        => [\A id \in LeaseIds :
              leases[id].status = "RECOVERY_PENDING" /\ leases'[id] # leases[id]
                => HandedToRecovery(id)]_leaseVars
  <2> SUFFICES ASSUME TypeOK, [Next]_leaseVars, NEW i \in LeaseIds,
                      leases[i].status = "RECOVERY_PENDING",
                      leases'[i] # leases[i]
               PROVE  HandedToRecovery(i)
    OBVIOUS
  <2>1. leases[i] # NoRow /\ leases[i].status # "ACTIVE"
    BY DEF NoRow
  <2> QED BY <2>1, TableStep DEF TableChange, Inserted, Changed, HandedOver, HandedToRecovery
<1> QED BY <1>1, TypeCorrect, PTL DEF Spec, FencedAfterExpiry
=============================================================================
