------------------------ MODULE StartupRecovery_proofs ------------------------
(***************************************************************************)
(* What the startup scan and the service after it keep, for any number of  *)
(* serve processes and tasks, any order of deaths and restarts, and any    *)
(* bound on the heartbeats.                                                *)
(***************************************************************************)
EXTENDS StartupRecovery, TLAPS

(* The local variables of a scan, in one record. *)
Scan(candidates, journals, current, recovery, matched, findings) ==
    [candidates |-> candidates, journals |-> journals, current |-> current,
     recovery |-> recovery, matched |-> matched, findings |-> findings]

ScanFields(s) ==
    Scan(s.candidates, s.journals, s.current, s.recovery, s.matched, s.findings)

IsScan(f) == f = [p \in Processes |-> ScanFields(f[p])]

(* An ACTIVE lease has room for the revision that expiring it takes.       *)
RowsTyped ==
    /\ TypeOK
    /\ lease # None /\ lease.status = "ACTIVE" =>
          lease.revision <= MaxHeartbeats + 1

Typed == RowsTyped /\ IsScan(scan)

Blocked(p) == \E f \in scan[p].findings : f.blocks

(* What the scan of a process has read of the slot stays so while it holds *)
(* the process lock: a slot it found empty is empty, one it found taken is *)
(* a finding that blocks.                                                  *)
SlotAsRead(p) ==
    /\ scan[p].current \in Lease \cup {None}
    /\ pc[p] \in {"expire", "takeover"} => scan[p].current # None
    /\ pc[p] \in {"expire", "takeover", "containers", "candidates",
                  "delegate", "observe"} => lease = None \/ Blocked(p)

(* A recovery lease is taken after the slot is read, it is the open lease  *)
(* from then to the report, recovery is delegated for its task alone, and  *)
(* a recovery that returned has left a final phase or given up.            *)
RecoveryHeld(p) ==
    /\ pc[p] \in {"evidence", "lease", "expire", "takeover"} =>
          scan[p].recovery = None
    /\ pc[p] \in {"containers", "candidates", "delegate", "observe"}
       /\ scan[p].recovery # None =>
          /\ lease # None /\ lease = scan[p].recovery
          /\ lease.owner = p
          /\ lease.purpose = "RECOVERY" /\ lease.status = "ACTIVE"
    /\ pc[p] \in {"delegate", "observe"} =>
          /\ scan[p].recovery # None
          /\ Head(scan[p].candidates).task = scan[p].recovery.task
    /\ pc[p] = "observe" =>
          journal[Head(scan[p].candidates).task]
             \in FinalPhases \cup {"RECOVERY_REQUIRED"}

StartupInv ==
    /\ Typed
    /\ \A p \in Processes : SlotAsRead(p) /\ RecoveryHeld(p)
    /\ ServesAlone
    /\ SlotGuardsRemains

(* A step changes the scan of one process, to s. *)
ScanSet(p, s) ==
    /\ IsScan(scan')
    /\ scan'[p] = s
    /\ \A q \in Processes \ {p} : scan'[q] = scan[q]

-----------------------------------------------------------------------------
LEMMA StartupInitially == Init => StartupInv
<1> SUFFICES ASSUME Init PROVE StartupInv
  OBVIOUS
<1> USE NoneAssumption DEF Init
<1>1. Typed
  BY DEF Typed, RowsTyped, TypeOK, IsScan, ScanFields, Scan, IdleScan, Labels, TaskState, ApprovalState,
         TerminalStates
<1>2. \A p \in Processes : SlotAsRead(p) /\ RecoveryHeld(p)
  BY DEF SlotAsRead, RecoveryHeld, IdleScan
<1>3. ServesAlone
  BY DEF ServesAlone
<1>4. SlotGuardsRemains
  BY DEF SlotGuardsRemains, Settled
<1> QED BY <1>1, <1>2, <1>3, <1>4 DEF StartupInv

(* A new lease is a row of the table, with a revision that may grow.       *)
LEMMA NewLeaseType ==
  ASSUME NEW t \in TaskSet, NEW p \in Processes,
         NEW purpose \in {"EXECUTION", "RECOVERY"},
         NEW id \in [kind : {"run", "recovery"}, task : TaskSet, revision : Nat]
  PROVE  /\ NewLease(id, t, purpose, p) \in Lease
         /\ NewLease(id, t, purpose, p) # None
         /\ NewLease(id, t, purpose, p).revision <= MaxHeartbeats + 1
  BY HeartbeatAssumption, NoneAssumption DEF NewLease, Lease, LeaseStatus

LEMMA ExpiredType ==
  ASSUME NEW l \in Lease, l.revision <= MaxHeartbeats + 1, NEW e,
         e = [l EXCEPT !.status = "RECOVERY_PENDING", !.revision = @ + 1]
  PROVE  /\ e \in Lease /\ e # None
         /\ e.id = l.id /\ e.task = l.task /\ e.status = "RECOVERY_PENDING"
<1>1. PICK k : k = [l EXCEPT !.status = "RECOVERY_PENDING"]
  OBVIOUS
<1>2. /\ k \in Lease /\ k.id = l.id /\ k.task = l.task
      /\ k.revision = l.revision /\ k.status = "RECOVERY_PENDING"
  BY <1>1 DEF Lease, LeaseStatus
<1>3. e = [k EXCEPT !.revision = @ + 1]
  BY <1>1, <1>2
<1>4. /\ e \in Lease /\ e.id = l.id /\ e.task = l.task
      /\ e.status = "RECOVERY_PENDING"
  BY <1>2, <1>3, HeartbeatAssumption DEF Lease
<1> QED BY <1>4, NoneAssumption

LEMMA LeaseIdType ==
  /\ \A t \in TaskSet : ExecutionLeaseId(t) \in
        [kind : {"run", "recovery"}, task : TaskSet, revision : Nat]
  /\ \A l \in Lease : RecoveryLeaseId(l) \in
        [kind : {"run", "recovery"}, task : TaskSet, revision : Nat]
  BY HeartbeatAssumption DEF ExecutionLeaseId, RecoveryLeaseId, Lease

-----------------------------------------------------------------------------
LEMMA FieldValue ==
  ASSUME NEW c, NEW j, NEW l, NEW r, NEW m, NEW f
  PROVE  /\ Scan(c, j, l, r, m, f).candidates = c
         /\ Scan(c, j, l, r, m, f).current = l
         /\ Scan(c, j, l, r, m, f).recovery = r
         /\ Scan(c, j, l, r, m, f).findings = f
         /\ ScanFields(Scan(c, j, l, r, m, f)) = Scan(c, j, l, r, m, f)
  BY DEF Scan, ScanFields

LEMMA ScanFrame ==
  ASSUME IsScan(scan), NEW p \in Processes,
         NEW c, NEW j, NEW l, NEW r, NEW m, NEW f,
         scan' = [scan EXCEPT ![p] = Scan(c, j, l, r, m, f)]
  PROVE  ScanSet(p, Scan(c, j, l, r, m, f))
<1>1. \A q \in Processes :
         scan'[q] = IF q = p THEN Scan(c, j, l, r, m, f) ELSE scan[q]
  BY DEF IsScan
<1>2. scan' = [q \in Processes |-> scan'[q]]
  BY DEF IsScan
<1>3. \A q \in Processes : scan[q] = ScanFields(scan[q])
  BY DEF IsScan
<1>4. \A q \in Processes : scan'[q] = ScanFields(scan'[q])
  BY <1>1, <1>3, FieldValue
<1>5. IsScan(scan')
  BY <1>2, <1>4 DEF IsScan
<1> QED BY <1>1, <1>5 DEF ScanSet

(* What each step that touches a scan makes of it. *)
LEMMA ScanResets ==
  ASSUME IsScan(scan), NEW p \in Processes,
         AcquireLock(p) \/ DuplicateStartup(p) \/ Die(p)
  PROVE  \E c, j, f : ScanSet(p, Scan(c, j, None, None, {}, f))
<1>1. PICK c, j : IdleScan = Scan(c, j, None, None, {}, {})
  BY DEF IdleScan, Scan
<1>2. PICK f : \/ scan' = [scan EXCEPT ![p] = IdleScan]
               \/ scan' = [scan EXCEPT ![p] = [IdleScan EXCEPT !.findings = f]]
  BY DEF AcquireLock, DuplicateStartup, Die
<1>3. [IdleScan EXCEPT !.findings = f] = Scan(c, j, None, None, {}, f)
  BY <1>1 DEF Scan
<1>4. PICK g : scan' = [scan EXCEPT ![p] = Scan(c, j, None, None, {}, g)]
  BY <1>1, <1>2, <1>3
<1>5. ScanSet(p, Scan(c, j, None, None, {}, g))
  BY <1>4, ScanFrame
<1> QED BY <1>5

LEMMA ScanReads ==
  ASSUME IsScan(scan), NEW p \in Processes, NEW c, NEW j, NEW l, NEW r, NEW m,
         NEW f, scan[p] = Scan(c, j, l, r, m, f), ReadEvidence(p)
  PROVE  \/ /\ pc' = [pc EXCEPT ![p] = "halted"]
            /\ \E g : ScanSet(p, Scan(c, j, l, r, m, g))
         \/ /\ pc' = [pc EXCEPT ![p] = "lease"]
            /\ ScanSet(p, Scan(StoredCandidates, journal, l, r, m, f))
<1>1. CASE EnumerationFails
  <2>1. PICK g : scan' = [scan EXCEPT ![p] = [scan[p] EXCEPT !.findings = g]]
    BY <1>1 DEF ReadEvidence, Found
  <2>2. [scan[p] EXCEPT !.findings = g] = Scan(c, j, l, r, m, g)
    BY DEF Scan
  <2>4. ScanSet(p, Scan(c, j, l, r, m, g))
    BY <2>1, <2>2, ScanFrame
  <2> QED BY <1>1, <2>4 DEF ReadEvidence, Goto
<1>2. CASE ~EnumerationFails
  <2>1. PICK s : s = [scan[p] EXCEPT !.candidates = StoredCandidates]
    OBVIOUS
  <2>2. s = Scan(StoredCandidates, j, l, r, m, f)
    BY <2>1 DEF Scan
  <2>3. [s EXCEPT !.journals = journal]
           = Scan(StoredCandidates, journal, l, r, m, f)
    BY <2>2 DEF Scan
  <2>4. scan' = [scan EXCEPT ![p] = [s EXCEPT !.journals = journal]]
    BY <1>2, <2>1 DEF ReadEvidence, IsScan
  <2>5. ScanSet(p, Scan(StoredCandidates, journal, l, r, m, f))
    BY <2>3, <2>4, ScanFrame
  <2> QED BY <1>2, <2>5 DEF ReadEvidence, Goto
<1> QED BY <1>1, <1>2

LEMMA ReviewLeaseScan ==
  ASSUME IsScan(scan), NEW p \in Processes, NEW c, NEW j, NEW l, NEW r, NEW m,
         NEW f, scan[p] = Scan(c, j, l, r, m, f), ReviewLease(p)
  PROVE  \/ lease = None /\ ScanSet(p, Scan(c, j, l, r, m, f))
         \/ \E stale : /\ lease # None /\ stale.blocks
                       /\ ScanSet(p, Scan(c, j, lease, r, m, f \cup {stale}))
<1>1. CASE lease = None
  <2>1. scan' = [scan EXCEPT ![p] = scan[p]]
    BY <1>1 DEF ReviewLease
  <2> QED BY <1>1, <2>1, ScanFrame
<1>2. CASE lease # None
  <2>1. PICK stale : stale = Finding("STALE_LEASE", lease.task,
                                     "REQUEST_RECOVERY_OWNERSHIP", TRUE)
    OBVIOUS
  <2>2. stale.blocks
    BY <2>1 DEF Finding
  <2>3. PICK s : s = [scan[p] EXCEPT !.findings = @ \cup {stale}]
    OBVIOUS
  <2>4. s = Scan(c, j, l, r, m, f \cup {stale})
    BY <2>3 DEF Scan
  <2>5. [s EXCEPT !.current = lease] = Scan(c, j, lease, r, m, f \cup {stale})
    BY <2>4 DEF Scan
  <2>6. scan' = [scan EXCEPT ![p] = [s EXCEPT !.current = lease]]
    BY <1>2, <2>1, <2>3 DEF ReviewLease, Found
  <2>7. ScanSet(p, Scan(c, j, lease, r, m, f \cup {stale}))
    BY <2>5, <2>6, ScanFrame
  <2> QED BY <1>2, <2>2, <2>7
<1> QED BY <1>1, <1>2

LEMMA ExpireLeaseScan ==
  ASSUME IsScan(scan), NEW p \in Processes, NEW c, NEW j, NEW l, NEW r, NEW m,
         NEW f, scan[p] = Scan(c, j, l, r, m, f), ExpireLease(p)
  PROVE  \/ UNCHANGED <<lease, scan>>
         \/ /\ lease # None /\ lease.status = "ACTIVE"
            /\ lease' = [lease EXCEPT !.status = "RECOVERY_PENDING",
                                      !.revision = @ + 1]
            /\ ScanSet(p, Scan(c, j, lease', r, m, f))
<1>1. SUFFICES ASSUME scan' = [scan EXCEPT ![p].current = lease']
               PROVE  ScanSet(p, Scan(c, j, lease', r, m, f))
  BY DEF ExpireLease
<1>2. scan' = [scan EXCEPT ![p] = [scan[p] EXCEPT !.current = lease']]
  BY <1>1 DEF IsScan
<1>3. [scan[p] EXCEPT !.current = lease'] = Scan(c, j, lease', r, m, f)
  BY DEF Scan
<1> QED BY <1>2, <1>3, ScanFrame

LEMMA TakeOverScan ==
  ASSUME IsScan(scan), NEW p \in Processes, NEW c, NEW j, NEW l, NEW r, NEW m,
         NEW f, scan[p] = Scan(c, j, l, r, m, f), TakeOverLease(p)
  PROVE  \/ UNCHANGED <<lease, leaseIds, scan>>
         \/ /\ lease = l
            /\ lease' = NewLease(RecoveryLeaseId(l), l.task, "RECOVERY", p)
            /\ leaseIds' = leaseIds \cup {RecoveryLeaseId(l)}
            /\ ScanSet(p, Scan(c, j, l, lease', m, f))
<1>1. scan[p].current = l
  BY FieldValue
<1>2. SUFFICES ASSUME scan' = [scan EXCEPT ![p].recovery = lease']
               PROVE  ScanSet(p, Scan(c, j, l, lease', m, f))
  BY <1>1 DEF TakeOverLease
<1>3. scan' = [scan EXCEPT ![p] = [scan[p] EXCEPT !.recovery = lease']]
  BY <1>2 DEF IsScan
<1>4. [scan[p] EXCEPT !.recovery = lease'] = Scan(c, j, l, lease', m, f)
  BY DEF Scan
<1> QED BY <1>3, <1>4, ScanFrame

LEMMA CheckContainersScan ==
  ASSUME IsScan(scan), NEW p \in Processes, NEW c, NEW j, NEW l, NEW r, NEW m,
         NEW f, scan[p] = Scan(c, j, l, r, m, f), CheckContainers(p)
  PROVE  \E g : f \subseteq g /\ ScanSet(p, Scan(c, j, l, r, m, g))
<1>1. scan[p].findings = f
  BY FieldValue
<1>2. PICK g : f \subseteq g /\ scan' = [scan EXCEPT ![p] = [scan[p] EXCEPT !.findings = g]]
  BY <1>1 DEF CheckContainers, IsScan
<1>3. [scan[p] EXCEPT !.findings = g] = Scan(c, j, l, r, m, g)
  BY DEF Scan
<1>4. ScanSet(p, Scan(c, j, l, r, m, g))
  BY <1>2, <1>3, ScanFrame
<1> QED BY <1>2, <1>4

LEMMA CheckCandidateScan ==
  ASSUME IsScan(scan), NEW p \in Processes, NEW c, NEW j, NEW l, NEW r, NEW m,
         NEW f, scan[p] = Scan(c, j, l, r, m, f), CheckCandidate(p)
  PROVE  \E g, w :
            /\ f \subseteq g
            /\ \/ /\ pc' = [pc EXCEPT ![p] = "candidates"]
                  /\ ScanSet(p, Scan(Tail(c), j, l, r, w, g))
               \/ /\ pc' = [pc EXCEPT ![p] = "delegate"]
                  /\ r # None /\ Head(c).task = r.task
                  /\ ScanSet(p, Scan(c, j, l, r, w, g))
<1> DEFINE head == Head(scan[p].candidates)
           found == IF head.phase = None THEN WaitingFinding(head)
                    ELSE IF JournalMissing(p) THEN
                        {Finding("MISSING_JOURNAL", head.task,
                                 "MANUAL_RECOVERY_REQUIRED", TRUE)}
                    ELSE IF ~EvidenceMatches(p, head) THEN {Mismatch(head.task)}
                    ELSE {Finding("NONTERMINAL_APPLY", head.task,
                                  IF Delegated(p, head) THEN "DELEGATE_RECOVERY"
                                  ELSE "REQUEST_RECOVERY_OWNERSHIP",
                                  scan[p].journals[head.task] \in BlockingPhases)}
           known == head.phase # None /\ scan[p].journals[head.task] # None
           delegate == /\ head.phase # None /\ EvidenceMatches(p, head)
                       /\ Delegated(p, head)
<1>1. /\ scan' = [scan EXCEPT
            ![p].findings = @ \cup found,
            ![p].matched = IF known THEN @ \cup {head.task} ELSE @,
            ![p].candidates = IF delegate THEN @ ELSE Tail(@)]
      /\ pc' = [pc EXCEPT ![p] = IF delegate THEN "delegate" ELSE "candidates"]
  BY DEF CheckCandidate, Goto
<1>2. delegate => scan[p].recovery # None /\ scan[p].recovery.task = head.task
  BY DEF Delegated
<1> HIDE DEF found, known, delegate
<1>3. PICK g, w, d : 
         /\ g = scan[p].findings \cup found
         /\ w = IF known THEN scan[p].matched \cup {head.task} ELSE scan[p].matched
         /\ d = IF delegate THEN scan[p].candidates ELSE Tail(scan[p].candidates)
  OBVIOUS
<1>4. scan' = [scan EXCEPT ![p].findings = g, ![p].matched = w,
                           ![p].candidates = d]
  BY <1>1, <1>3
<1>5. PICK s1 : s1 = [scan[p] EXCEPT !.findings = g]
  OBVIOUS
<1>6. s1 = Scan(c, j, l, r, m, g)
  BY <1>5 DEF Scan
<1>7. PICK s2 : s2 = [s1 EXCEPT !.matched = w]
  OBVIOUS
<1>8. s2 = Scan(c, j, l, r, w, g)
  BY <1>6, <1>7 DEF Scan
<1>9. [s2 EXCEPT !.candidates = d] = Scan(d, j, l, r, w, g)
  BY <1>8 DEF Scan
<1>10. scan' = [scan EXCEPT ![p] = [s2 EXCEPT !.candidates = d]]
  BY <1>4, <1>5, <1>7 DEF IsScan
<1>11. ScanSet(p, Scan(d, j, l, r, w, g))
  BY <1>9, <1>10, ScanFrame
<1>12. f \subseteq g
  BY <1>3, FieldValue
<1>13. scan[p].candidates = c /\ scan[p].recovery = r
  BY FieldValue
<1>14. CASE delegate
  <2>1. d = c /\ r # None /\ Head(c).task = r.task
    BY <1>2, <1>3, <1>13, <1>14
  <2>2. pc' = [pc EXCEPT ![p] = "delegate"]
    BY <1>1, <1>14
  <2> QED BY <1>11, <1>12, <2>1, <2>2
<1>15. CASE ~delegate
  <2>1. d = Tail(c)
    BY <1>3, <1>13, <1>15
  <2>2. pc' = [pc EXCEPT ![p] = "candidates"]
    BY <1>1, <1>15
  <2> QED BY <1>11, <1>12, <2>1, <2>2
<1> QED BY <1>14, <1>15

LEMMA RecordObservationScan ==
  ASSUME IsScan(scan), NEW p \in Processes, NEW c, NEW j, NEW l, NEW r, NEW m,
         NEW f, scan[p] = Scan(c, j, l, r, m, f), RecordObservation(p)
  PROVE  \/ pc' = [pc EXCEPT ![p] = "raised"] /\ UNCHANGED scan
         \/ /\ pc' = [pc EXCEPT ![p] = "candidates"]
            /\ ScanSet(p, Scan(Tail(c), j, l, r, m, f))
<1>1. CASE observation[Head(scan[p].candidates).task] # None
  BY <1>1 DEF RecordObservation, Goto
<1>2. CASE observation[Head(scan[p].candidates).task] = None
  <2>1. PICK d : d = Tail(scan[p].candidates)
    OBVIOUS
  <2>2. d = Tail(c)
    BY <2>1, FieldValue
  <2>3. scan' = [scan EXCEPT ![p] = [scan[p] EXCEPT !.candidates = d]]
    BY <1>2, <2>1 DEF RecordObservation, IsScan
  <2>4. [scan[p] EXCEPT !.candidates = d] = Scan(d, j, l, r, m, f)
    BY DEF Scan
  <2>5. ScanSet(p, Scan(d, j, l, r, m, f))
    BY <2>3, <2>4, ScanFrame
  <2> QED BY <1>2, <2>2, <2>5 DEF RecordObservation, Goto
<1> QED BY <1>1, <1>2

LEMMA ReportScan ==
  ASSUME IsScan(scan), NEW p \in Processes, NEW c, NEW j, NEW l, NEW r, NEW m,
         NEW f, scan[p] = Scan(c, j, l, r, m, f), Report(p)
  PROVE  \E g : /\ f \subseteq g
                /\ ScanSet(p, Scan(c, j, l, r, m, g))
                /\ \/ /\ \E x \in g : x.blocks
                      /\ pc' = [pc EXCEPT ![p] = "halted"]
                   \/ /\ ~\E x \in g : x.blocks
                      /\ pc' = [pc EXCEPT ![p] = "serving"]
<1>1. scan[p].findings = f
  BY FieldValue
<1>2. PICK g : g = scan[p].findings \cup
               (IF UnmatchedJournals(p) = {} THEN {} ELSE {Mismatch(None)})
  OBVIOUS
<1>3. /\ scan' = [scan EXCEPT ![p].findings = g]
      /\ pc' = [pc EXCEPT ![p] = IF \E x \in g : x.blocks THEN "halted"
                                 ELSE "serving"]
  BY <1>2 DEF Report, Goto
<1>4. f \subseteq g
  BY <1>1, <1>2
<1>5. scan' = [scan EXCEPT ![p] = [scan[p] EXCEPT !.findings = g]]
  BY <1>3 DEF IsScan
<1>6. [scan[p] EXCEPT !.findings = g] = Scan(c, j, l, r, m, g)
  BY DEF Scan
<1>7. ScanSet(p, Scan(c, j, l, r, m, g))
  BY <1>5, <1>6, ScanFrame
<1> QED BY <1>3, <1>4, <1>7

(* Every step keeps the types of the stored state. *)
LEMMA RowsStep ==
  ASSUME StartupInv, [Next]_vars
  PROVE  RowsTyped'
<1> USE NoneAssumption, HeartbeatAssumption
    DEF StartupInv, Typed, RowsTyped, TypeOK, Goto, world, SetState, Owns,
        MayExecute, Serves, Labels, TaskState, ApprovalState,
        TerminalStates, FinalPhases, BlockingPhases
<1>1. ASSUME NEW p \in Processes, AcquireLock(p) PROVE RowsTyped'
  BY <1>1 DEF AcquireLock
<1>2. ASSUME NEW p \in Processes, DuplicateStartup(p) PROVE RowsTyped'
  BY <1>2 DEF DuplicateStartup
<1>3. ASSUME NEW p \in Processes, Die(p) PROVE RowsTyped'
  BY <1>3 DEF Die
<1>4. ASSUME NEW p \in Processes, ReadEvidence(p) PROVE RowsTyped'
  BY <1>4 DEF ReadEvidence
<1>5. ASSUME NEW p \in Processes, ReviewLease(p) PROVE RowsTyped'
  BY <1>5 DEF ReviewLease
<1>6. ASSUME NEW p \in Processes, ExpireLease(p) PROVE RowsTyped'
  <2>1. CASE UNCHANGED lease
    BY <1>6, <2>1 DEF ExpireLease
  <2>2. CASE /\ lease # None /\ lease.status = "ACTIVE"
             /\ lease' = [lease EXCEPT !.status = "RECOVERY_PENDING",
                                      !.revision = @ + 1]
    <3>1. lease \in Lease /\ lease.revision <= MaxHeartbeats + 1
      BY <2>2
    <3>2. /\ lease' \in Lease /\ lease'.id = lease.id
          /\ lease'.status = "RECOVERY_PENDING"
      BY <2>2, <3>1, ExpiredType
    <3> QED BY <1>6, <2>2, <3>2 DEF ExpireLease
  <2> QED BY <1>6, <2>1, <2>2 DEF ExpireLease
<1>7. ASSUME NEW p \in Processes, TakeOverLease(p) PROVE RowsTyped'
  <2>1. lease' \in Lease \cup {None} /\ (lease' # None => lease'.id \in leaseIds')
        /\ (lease' # None /\ lease'.status = "ACTIVE" =>
                lease'.revision <= MaxHeartbeats + 1)
    <3>1. scan[p].current \in Lease
      BY <1>7 DEF TakeOverLease, SlotAsRead
    <3>2. scan[p].current.task \in TaskSet
      BY <3>1 DEF Lease
    <3>3. NewLease(RecoveryLeaseId(scan[p].current), scan[p].current.task,
                   "RECOVERY", p) \in Lease
      BY <3>1, <3>2, NewLeaseType, LeaseIdType
    <3>4. NewLease(RecoveryLeaseId(scan[p].current), scan[p].current.task,
                   "RECOVERY", p).revision <= MaxHeartbeats + 1
      BY DEF NewLease
    <3>5. NewLease(RecoveryLeaseId(scan[p].current), scan[p].current.task,
                   "RECOVERY", p).id = RecoveryLeaseId(scan[p].current)
      BY DEF NewLease
    <3> QED BY <1>7, <3>3, <3>4, <3>5 DEF TakeOverLease
  <2> QED BY <1>7, <2>1 DEF TakeOverLease
<1>8. ASSUME NEW p \in Processes, CheckContainers(p) PROVE RowsTyped'
  BY <1>8 DEF CheckContainers
<1>9. ASSUME NEW p \in Processes, CheckCandidate(p) PROVE RowsTyped'
  BY <1>9 DEF CheckCandidate
<1>10. ASSUME NEW p \in Processes, Delegate(p) PROVE RowsTyped'
  <2>1. PICK phase \in RecoveredPhases(journal[Head(scan[p].candidates).task]) :
           journal' = [journal EXCEPT ![Head(scan[p].candidates).task] = phase]
    BY <1>10 DEF Delegate
  <2>2. phase \in {"ROLLED_BACK", "RECOVERY_REQUIRED"}
    BY <2>1 DEF RecoveredPhases
  <2> QED BY <1>10, <2>1, <2>2 DEF Delegate
<1>11. ASSUME NEW p \in Processes, RecordObservation(p) PROVE RowsTyped'
  <2>1. journal[Head(scan[p].candidates).task]
           \in FinalPhases \cup {"RECOVERY_REQUIRED"}
    BY <1>11 DEF RecordObservation, RecoveryHeld
  <2> QED BY <1>11, <2>1 DEF RecordObservation
<1>12. ASSUME NEW p \in Processes, Report(p) PROVE RowsTyped'
  BY <1>12 DEF Report
<1>13. ASSUME NEW p \in Processes, FinishRecovery(p) PROVE RowsTyped'
  BY <1>13 DEF FinishRecovery
<1>14. ASSUME NEW p \in Processes, NEW t \in TaskSet, BeginRun(p, t)
      PROVE  RowsTyped'
  <2>1. /\ lease' \in Lease /\ lease'.revision <= MaxHeartbeats + 1
        /\ lease'.id = ExecutionLeaseId(t)
    BY <1>14, NewLeaseType, LeaseIdType DEF BeginRun, NewLease
  <2> QED BY <1>14, <2>1 DEF BeginRun
<1>15. ASSUME NEW p \in Processes, NEW t \in TaskSet, Heartbeat(p, t)
      PROVE  RowsTyped'
  <2>1. lease \in Lease
    BY <1>15 DEF Heartbeat
  <2>2. /\ lease' \in Lease /\ lease'.revision <= MaxHeartbeats + 1
        /\ lease'.id = lease.id
    BY <1>15, <2>1 DEF Heartbeat, Lease
  <2> QED BY <1>15, <2>2 DEF Heartbeat
<1>16. ASSUME NEW p \in Processes, NEW t \in TaskSet, StartContainer(p, t)
      PROVE  RowsTyped'
  BY <1>16 DEF StartContainer
<1>17. ASSUME NEW p \in Processes, NEW t \in TaskSet, RefuseApply(p, t)
      PROVE  RowsTyped'
  BY <1>17 DEF RefuseApply
<1>18. ASSUME NEW p \in Processes, NEW t \in TaskSet, BeginApply(p, t)
      PROVE  RowsTyped'
  BY <1>18 DEF BeginApply
<1>19. ASSUME NEW p \in Processes, NEW t \in TaskSet, AdvanceApply(p, t)
      PROVE  RowsTyped'
  <2>1. PICK phase \in NextPhases[journal[t]] :
           journal' = [journal EXCEPT ![t] = phase]
    BY <1>19 DEF AdvanceApply
  <2>2. phase \in FinalPhases \cup BlockingPhases
    BY <1>19, <2>1 DEF AdvanceApply, NextPhases
  <2> QED BY <1>19, <2>1, <2>2 DEF AdvanceApply
<1>20. ASSUME NEW p \in Processes, NEW t \in TaskSet, ObserveApply(p, t)
      PROVE  RowsTyped'
  BY <1>20 DEF ObserveApply
<1>21. ASSUME NEW p \in Processes, NEW t \in TaskSet, FinishTask(p, t)
      PROVE  RowsTyped'
  BY <1>21 DEF FinishTask
<1>22. ASSUME NEW p \in Processes, NEW t \in TaskSet, Pause(p, t)
      PROVE  RowsTyped'
  BY <1>22 DEF Pause
<1>23. ASSUME NEW p \in Processes, NEW t \in TaskSet, ReleaseLease(p, t)
      PROVE  RowsTyped'
  BY <1>23 DEF ReleaseLease
<1>24. ASSUME NEW p \in Processes, NEW t \in TaskSet, RevisePlan(p, t)
      PROVE  RowsTyped'
  BY <1>24 DEF RevisePlan
<1>25. ASSUME NEW p \in Processes, NEW t \in TaskSet, ChangeApproval(p, t)
      PROVE  RowsTyped'
  <2>1. PICK approval \in ApprovalSteps[task[t].approval] :
           task' = [task EXCEPT ![t].approval = approval]
    BY <1>25 DEF ChangeApproval
  <2>2. approval \in ApprovalState
    BY <2>1 DEF ApprovalSteps, ApprovalState
  <2> QED BY <1>25, <2>1, <2>2 DEF ChangeApproval
<1>26. ASSUME NEW p \in Processes, NEW t \in TaskSet, ApprovePlan(p, t)
      PROVE  RowsTyped'
  BY <1>26 DEF ApprovePlan
<1>27. ASSUME NEW t \in TaskSet, StopContainer(t) PROVE RowsTyped'
  BY <1>27 DEF StopContainer
<1>28. CASE UNCHANGED vars
  BY <1>28 DEF vars
<1> QED
  BY <1>1, <1>2, <1>3, <1>4, <1>5, <1>6, <1>7, <1>8, <1>9, <1>10, <1>11,
     <1>12, <1>13, <1>14, <1>15, <1>16, <1>17, <1>18, <1>19, <1>20, <1>21,
     <1>22, <1>23, <1>24, <1>25, <1>26, <1>27, <1>28
     DEF Next, ScanStep, Service, UserCommand

-----------------------------------------------------------------------------
(* Nobody else is past the lock. *)
OthersIdle(p) == \A q \in Processes \ {p} : pc[q] \in {"down", "halted"}

LEMMA LockHolderAlone ==
  ASSUME TypeOK, NEW p \in Processes,
         (pc[p] \notin {"down", "halted"}) \/ holder = p \/ holder = None
  PROVE  OthersIdle(p)
  BY NoneAssumption DEF TypeOK, OthersIdle

ScansHold ==
    IsScan(scan) /\ \A q \in Processes : SlotAsRead(q) /\ RecoveryHeld(q)

(* Only the process that has the lock reads and owns; the scan of every    *)
(* other one has yet to begin or is over.                                  *)
LEMMA ScanAlone ==
  ASSUME StartupInv, NEW p \in Processes, OthersIdle(p), NEW s, ScanSet(p, s),
         NEW label, pc' = [pc EXCEPT ![p] = label],
         SlotAsRead(p)', RecoveryHeld(p)'
  PROVE  ScansHold'
<1>1. ASSUME NEW q \in Processes \ {p}
      PROVE  SlotAsRead(q)' /\ RecoveryHeld(q)'
  <2>1. pc'[q] \in {"down", "halted"} /\ scan'[q] = scan[q]
    BY DEF OthersIdle, ScanSet, StartupInv, Typed, RowsTyped, TypeOK
  <2>2. SlotAsRead(q)
    BY DEF StartupInv
  <2> QED BY <2>1, <2>2 DEF SlotAsRead, RecoveryHeld
<1> QED BY <1>1 DEF ScansHold, ScanSet

LEMMA ScanOf ==
  ASSUME StartupInv, NEW p \in Processes
  PROVE  \E c, j, l, r, m, f :
            /\ scan[p] = Scan(c, j, l, r, m, f)
            /\ l = scan[p].current /\ r = scan[p].recovery
            /\ f = scan[p].findings /\ c = scan[p].candidates
<1>1. scan[p] = ScanFields(scan[p])
  BY DEF StartupInv, Typed, IsScan
<1> QED BY <1>1 DEF ScanFields

(* A step that leaves the scans, the slot and the journals alone.          *)
LEMMA ScansKept ==
  ASSUME ScansHold, UNCHANGED <<pc, scan, lease, journal>>
  PROVE  ScansHold'
  BY DEF ScansHold, SlotAsRead, RecoveryHeld, Blocked

(* A step of the process that serves: no scan is under way.                *)
LEMMA ScansOver ==
  ASSUME StartupInv, ScansHold, NEW p \in Processes, pc[p] = "serving",
         UNCHANGED <<pc, scan>>
  PROVE  ScansHold'
<1>1. OthersIdle(p)
  BY LockHolderAlone DEF StartupInv, Typed, RowsTyped
<1>2. \A q \in Processes : pc'[q] \in {"serving", "down", "halted"}
  BY <1>1 DEF OthersIdle
<1> QED BY <1>2 DEF ScansHold, SlotAsRead, RecoveryHeld

(* Every step keeps what the scans have read. *)
LEMMA ScansStep ==
  ASSUME StartupInv, [Next]_vars
  PROVE  ScansHold'
<1>0. ScansHold
  BY DEF StartupInv, Typed, ScansHold
<1>1. ASSUME NEW p \in Processes, AcquireLock(p) PROVE ScansHold'
  <2>1. PICK c, j, f : ScanSet(p, Scan(c, j, None, None, {}, f))
    BY <1>0, <1>1, ScanResets DEF ScansHold
  <2>2. OthersIdle(p)
    BY <1>1, LockHolderAlone DEF StartupInv, Typed, RowsTyped, AcquireLock
  <2>3. pc'[p] = "evidence" /\ pc' = [pc EXCEPT ![p] = "evidence"]
    BY <1>1 DEF AcquireLock, Goto, StartupInv, Typed, RowsTyped, TypeOK
  <2>4. scan'[p].current = None /\ scan'[p].recovery = None
    BY <2>1, FieldValue DEF ScanSet
  <2>5. SlotAsRead(p)' /\ RecoveryHeld(p)'
    BY <2>3, <2>4 DEF SlotAsRead, RecoveryHeld
  <2> QED BY <2>1, <2>2, <2>3, <2>5, ScanAlone
<1>2. ASSUME NEW p \in Processes, DuplicateStartup(p) PROVE ScansHold'
  <2>1. PICK c, j, f : ScanSet(p, Scan(c, j, None, None, {}, f))
    BY <1>0, <1>2, ScanResets DEF ScansHold
  <2>2. scan'[p].current = None
    BY <2>1, FieldValue DEF ScanSet
  <2>3. /\ pc'[p] = "halted"
        /\ \A q \in Processes \ {p} : pc'[q] = pc[q] /\ scan'[q] = scan[q]
        /\ lease' = lease /\ journal' = journal
    BY <1>2, <2>1 DEF DuplicateStartup, Goto, world, ScanSet, StartupInv, Typed,
                       RowsTyped, TypeOK
  <2>4. SlotAsRead(p)' /\ RecoveryHeld(p)'
    BY <2>2, <2>3 DEF SlotAsRead, RecoveryHeld
  <2>5. ASSUME NEW q \in Processes \ {p} PROVE SlotAsRead(q)' /\ RecoveryHeld(q)'
    BY <1>0, <2>3 DEF SlotAsRead, RecoveryHeld, Blocked, ScansHold
  <2> QED BY <2>1, <2>4, <2>5 DEF ScansHold, ScanSet
<1>3. ASSUME NEW p \in Processes, Die(p) PROVE ScansHold'
  <2>1. PICK c, j, f : ScanSet(p, Scan(c, j, None, None, {}, f))
    BY <1>0, <1>3, ScanResets DEF ScansHold
  <2>2. scan'[p].current = None
    BY <2>1, FieldValue DEF ScanSet
  <2>3. /\ pc'[p] = "down"
        /\ \A q \in Processes \ {p} : pc'[q] = pc[q] /\ scan'[q] = scan[q]
        /\ lease' = lease /\ journal' = journal
    BY <1>3, <2>1 DEF Die, Goto, world, ScanSet, StartupInv, Typed,
                       RowsTyped, TypeOK
  <2>4. SlotAsRead(p)' /\ RecoveryHeld(p)'
    BY <2>2, <2>3 DEF SlotAsRead, RecoveryHeld
  <2>5. ASSUME NEW q \in Processes \ {p} PROVE SlotAsRead(q)' /\ RecoveryHeld(q)'
    BY <1>0, <2>3 DEF SlotAsRead, RecoveryHeld, Blocked, ScansHold
  <2> QED BY <2>1, <2>4, <2>5 DEF ScansHold, ScanSet
<1>4. ASSUME NEW p \in Processes, ReadEvidence(p) PROVE ScansHold'
  <2>1. PICK c, j, l, r, m, f :
           /\ scan[p] = Scan(c, j, l, r, m, f)
           /\ l = scan[p].current /\ r = scan[p].recovery
           /\ f = scan[p].findings /\ c = scan[p].candidates
    BY ScanOf
  <2>0. IsScan(scan) /\ scan[p] = Scan(c, j, l, r, m, f)
    BY <1>0, <2>1 DEF ScansHold
  <2>2. OthersIdle(p)
    BY <1>4, LockHolderAlone DEF StartupInv, Typed, RowsTyped, ReadEvidence
  <2>3. PICK c2, j2, f2, label :
           /\ label \in {"halted", "lease"} /\ pc' = [pc EXCEPT ![p] = label]
           /\ ScanSet(p, Scan(c2, j2, l, r, m, f2))
    <3>1. \/ /\ pc' = [pc EXCEPT ![p] = "halted"]
             /\ \E g : ScanSet(p, Scan(c, j, l, r, m, g))
          \/ /\ pc' = [pc EXCEPT ![p] = "lease"]
             /\ ScanSet(p, Scan(StoredCandidates, journal, l, r, m, f))
      BY <1>4, <2>0, ScanReads
    <3> QED BY <3>1
  <2>4. pc[p] = "evidence" /\ pc'[p] = label
    BY <1>4, <2>3 DEF ReadEvidence, StartupInv, Typed, RowsTyped, TypeOK
  <2>5. scan'[p].current = l /\ scan'[p].recovery = r
    BY <2>3, FieldValue DEF ScanSet
  <2>6. SlotAsRead(p)' /\ RecoveryHeld(p)'
    BY <1>0, <2>1, <2>3, <2>4, <2>5 DEF ScansHold, SlotAsRead, RecoveryHeld
  <2> QED BY <2>2, <2>3, <2>6, ScanAlone
<1>5. ASSUME NEW p \in Processes, ReviewLease(p) PROVE ScansHold'
  <2>1. PICK c, j, l, r, m, f :
           /\ scan[p] = Scan(c, j, l, r, m, f)
           /\ l = scan[p].current /\ r = scan[p].recovery
           /\ f = scan[p].findings /\ c = scan[p].candidates
    BY ScanOf
  <2>0. IsScan(scan) /\ scan[p] = Scan(c, j, l, r, m, f)
    BY <1>0, <2>1 DEF ScansHold
  <2>2. OthersIdle(p)
    BY <1>5, LockHolderAlone DEF StartupInv, Typed, RowsTyped, ReviewLease
  <2>3. /\ pc[p] = "lease" /\ lease' = lease /\ lease \in Lease \cup {None}
        /\ scan[p].recovery = None
    BY <1>0, <1>5 DEF ReviewLease, world, StartupInv, Typed, RowsTyped, TypeOK,
                     ScansHold, RecoveryHeld
  <2>4. CASE lease = None
    <3>1. ScanSet(p, Scan(c, j, l, r, m, f)) /\ pc'[p] = "containers"
          /\ pc' = [pc EXCEPT ![p] = "containers"]
      <4>1. ScanSet(p, Scan(c, j, l, r, m, f))
        BY <1>5, <2>0, <2>4, ReviewLeaseScan
      <4> QED BY <1>5, <2>4, <4>1
              DEF ReviewLease, Goto, StartupInv, Typed, RowsTyped, TypeOK
    <3>2. scan'[p].current = l /\ scan'[p].recovery = r
      BY <3>1, FieldValue DEF ScanSet
    <3>3. SlotAsRead(p)' /\ RecoveryHeld(p)'
      BY <1>0, <2>1, <2>3, <2>4, <3>1, <3>2 DEF ScansHold, SlotAsRead, RecoveryHeld
    <3> QED BY <2>2, <3>1, <3>3, ScanAlone
  <2>5. CASE lease # None
    <3>1. PICK stale : /\ stale.blocks
                       /\ ScanSet(p, Scan(c, j, lease, r, m, f \cup {stale}))
      BY <1>5, <2>0, <2>5, ReviewLeaseScan
    <3>2. PICK label \in {"expire", "takeover"} : pc' = [pc EXCEPT ![p] = label]
      BY <1>5, <2>5 DEF ReviewLease, Goto
    <3>3. pc'[p] \in {"expire", "takeover"}
      BY <3>2 DEF StartupInv, Typed, RowsTyped, TypeOK
    <3>4. /\ scan'[p].current = lease /\ scan'[p].recovery = None
          /\ scan'[p].findings = f \cup {stale}
      <4>1. scan'[p] = Scan(c, j, lease, r, m, f \cup {stale})
        BY <3>1 DEF ScanSet
      <4> QED BY <2>1, <2>3, <4>1, FieldValue
    <3>5. Blocked(p)'
      BY <3>1, <3>4 DEF Blocked
    <3>6. SlotAsRead(p)' /\ RecoveryHeld(p)'
      BY <2>3, <2>5, <3>3, <3>4, <3>5 DEF SlotAsRead, RecoveryHeld
    <3> QED BY <2>2, <3>1, <3>2, <3>6, ScanAlone
  <2> QED BY <2>4, <2>5
<1>6. ASSUME NEW p \in Processes, ExpireLease(p) PROVE ScansHold'
  <2>1. PICK c, j, l, r, m, f :
           /\ scan[p] = Scan(c, j, l, r, m, f)
           /\ l = scan[p].current /\ r = scan[p].recovery
           /\ f = scan[p].findings /\ c = scan[p].candidates
    BY ScanOf
  <2>0. IsScan(scan) /\ scan[p] = Scan(c, j, l, r, m, f)
    BY <1>0, <2>1 DEF ScansHold
  <2>2. OthersIdle(p)
    BY <1>6, LockHolderAlone DEF StartupInv, Typed, RowsTyped, ExpireLease
  <2>3. /\ pc[p] = "expire" /\ pc'[p] = "takeover" /\ scan[p].recovery = None
        /\ pc' = [pc EXCEPT ![p] = "takeover"]
    BY <1>0, <1>6 DEF ExpireLease, Goto, StartupInv, Typed, RowsTyped, TypeOK,
                     ScansHold, RecoveryHeld
  <2>4. PICK l2 :
           /\ ScanSet(p, Scan(c, j, l2, r, m, f))
           /\ l2 \in Lease \cup {None} /\ l2 # None
           /\ lease' = None => lease = None
    <3>1. CASE UNCHANGED <<lease, scan>>
      BY <1>0, <2>0, <2>1, <2>3, <3>1 DEF ScansHold, ScanSet, SlotAsRead
    <3>2. CASE ~UNCHANGED <<lease, scan>>
      <4>1. /\ lease # None /\ lease.status = "ACTIVE"
            /\ lease' = [lease EXCEPT !.status = "RECOVERY_PENDING",
                                      !.revision = @ + 1]
            /\ ScanSet(p, Scan(c, j, lease', r, m, f))
        BY <1>6, <2>0, <3>2, ExpireLeaseScan
      <4>2. lease \in Lease /\ lease.revision <= MaxHeartbeats + 1
        BY <4>1 DEF StartupInv, Typed, RowsTyped, TypeOK
      <4>3. lease' \in Lease /\ lease' # None
        BY <4>1, <4>2, ExpiredType
      <4> QED BY <4>1, <4>3
    <3> QED BY <3>1, <3>2
  <2>6. /\ scan'[p].current = l2 /\ scan'[p].recovery = None
        /\ scan'[p].findings = scan[p].findings
    BY <2>1, <2>3, <2>4, FieldValue DEF ScanSet
  <2>7. SlotAsRead(p)'
    <3>1. Blocked(p) => Blocked(p)'
      BY <2>6 DEF Blocked
    <3>2. lease = None \/ Blocked(p)
      BY <1>0, <2>3 DEF ScansHold, SlotAsRead
    <3>3. lease' = None \/ Blocked(p)'
      BY <1>6, <2>4, <3>1, <3>2 DEF ExpireLease
    <3> QED BY <2>3, <2>4, <2>6, <3>3 DEF SlotAsRead
  <2>8. RecoveryHeld(p)'
    BY <2>3, <2>6 DEF RecoveryHeld
  <2> QED BY <2>2, <2>3, <2>4, <2>7, <2>8, ScanAlone
<1>7. ASSUME NEW p \in Processes, TakeOverLease(p) PROVE ScansHold'
  <2>1. PICK c, j, l, r, m, f :
           /\ scan[p] = Scan(c, j, l, r, m, f)
           /\ l = scan[p].current /\ r = scan[p].recovery
           /\ f = scan[p].findings /\ c = scan[p].candidates
    BY ScanOf
  <2>0. IsScan(scan) /\ scan[p] = Scan(c, j, l, r, m, f)
    BY <1>0, <2>1 DEF ScansHold
  <2>2. OthersIdle(p)
    BY <1>7, LockHolderAlone DEF StartupInv, Typed, RowsTyped, TakeOverLease
  <2>3. /\ pc[p] = "takeover" /\ pc'[p] = "containers"
        /\ pc' = [pc EXCEPT ![p] = "containers"]
        /\ scan[p].recovery = None /\ scan[p].current \in Lease
    BY <1>0, <1>7 DEF TakeOverLease, Goto, StartupInv, Typed, RowsTyped, TypeOK,
                     ScansHold, SlotAsRead, RecoveryHeld
  <2>4. CASE UNCHANGED <<lease, leaseIds, scan>>
    <3>1. ScanSet(p, Scan(c, j, l, r, m, f))
      BY <2>0, <2>1, <2>4 DEF ScanSet
    <3>2. SlotAsRead(p)' /\ RecoveryHeld(p)'
      BY <1>0, <2>3, <2>4 DEF ScansHold, SlotAsRead, RecoveryHeld, Blocked
    <3> QED BY <2>2, <2>3, <3>1, <3>2, ScanAlone
  <2>5. CASE ~UNCHANGED <<lease, leaseIds, scan>>
    <3>1. /\ lease' = NewLease(RecoveryLeaseId(l), l.task, "RECOVERY", p)
          /\ ScanSet(p, Scan(c, j, l, lease', m, f)) /\ lease = l
      BY <1>7, <2>0, <2>5, TakeOverScan
    <3>2. /\ lease' # None /\ lease'.owner = p /\ lease'.purpose = "RECOVERY"
          /\ lease'.status = "ACTIVE"
      <4>1. l.task \in TaskSet /\ l \in Lease
        BY <2>1, <2>3 DEF Lease
      <4> QED BY <3>1, <4>1, NewLeaseType, LeaseIdType DEF NewLease
    <3>3. /\ scan'[p].current = l /\ scan'[p].recovery = lease'
          /\ scan'[p].findings = f
      BY <3>1, FieldValue DEF ScanSet
    <3>4. Blocked(p)'
      <4>1. Blocked(p)
        BY <1>0, <2>1, <2>3, <3>1, NoneAssumption DEF ScansHold, SlotAsRead
      <4> QED BY <2>1, <3>3, <4>1 DEF Blocked
    <3>5. SlotAsRead(p)'
      BY <2>1, <2>3, <3>3, <3>4 DEF SlotAsRead
    <3>6. RecoveryHeld(p)'
      BY <2>3, <3>2, <3>3 DEF RecoveryHeld
    <3> QED BY <2>2, <2>3, <3>1, <3>5, <3>6, ScanAlone
  <2> QED BY <2>4, <2>5
<1>8. ASSUME NEW p \in Processes, CheckContainers(p) PROVE ScansHold'
  <2>1. PICK c, j, l, r, m, f :
           /\ scan[p] = Scan(c, j, l, r, m, f)
           /\ l = scan[p].current /\ r = scan[p].recovery
           /\ f = scan[p].findings /\ c = scan[p].candidates
    BY ScanOf
  <2>0. IsScan(scan) /\ scan[p] = Scan(c, j, l, r, m, f)
    BY <1>0, <2>1 DEF ScansHold
  <2>2. OthersIdle(p)
    BY <1>8, LockHolderAlone DEF StartupInv, Typed, RowsTyped, CheckContainers
  <2>3. PICK g : f \subseteq g /\ ScanSet(p, Scan(c, j, l, r, m, g))
    BY <1>8, <2>0, CheckContainersScan
  <2>4. /\ pc[p] = "containers" /\ pc'[p] = "candidates"
        /\ pc' = [pc EXCEPT ![p] = "candidates"] /\ lease' = lease
    BY <1>8 DEF CheckContainers, Goto, world, StartupInv, Typed, RowsTyped, TypeOK
  <2>5. /\ scan'[p].current = l /\ scan'[p].recovery = r
        /\ scan'[p].findings = g
    BY <2>3, FieldValue DEF ScanSet
  <2>6. Blocked(p) => Blocked(p)'
    BY <2>1, <2>3, <2>5 DEF Blocked
  <2>7. SlotAsRead(p)'
    BY <1>0, <2>1, <2>4, <2>5, <2>6 DEF ScansHold, SlotAsRead
  <2>8. RecoveryHeld(p)'
    BY <1>0, <2>1, <2>4, <2>5 DEF ScansHold, RecoveryHeld
  <2> QED BY <2>2, <2>3, <2>4, <2>7, <2>8, ScanAlone
<1>9. ASSUME NEW p \in Processes, CheckCandidate(p) PROVE ScansHold'
  <2>1. PICK c, j, l, r, m, f :
           /\ scan[p] = Scan(c, j, l, r, m, f)
           /\ l = scan[p].current /\ r = scan[p].recovery
           /\ f = scan[p].findings /\ c = scan[p].candidates
    BY ScanOf
  <2>0. IsScan(scan) /\ scan[p] = Scan(c, j, l, r, m, f)
    BY <1>0, <2>1 DEF ScansHold
  <2>2. OthersIdle(p)
    BY <1>9, LockHolderAlone DEF StartupInv, Typed, RowsTyped, CheckCandidate
  <2>3. PICK g, w :
           /\ f \subseteq g
           /\ \/ /\ pc' = [pc EXCEPT ![p] = "candidates"]
                 /\ ScanSet(p, Scan(Tail(c), j, l, r, w, g))
              \/ /\ pc' = [pc EXCEPT ![p] = "delegate"]
                 /\ r # None /\ Head(c).task = r.task
                 /\ ScanSet(p, Scan(c, j, l, r, w, g))
    BY <1>9, <2>0, CheckCandidateScan
  <2>4. PICK d, label :
           /\ pc' = [pc EXCEPT ![p] = label] /\ label \in {"candidates", "delegate"}
           /\ label = "delegate" => r # None /\ Head(d).task = r.task
           /\ ScanSet(p, Scan(d, j, l, r, w, g))
    BY <2>3
  <2>5. pc[p] = "candidates" /\ pc'[p] = label /\ lease' = lease
    BY <1>9, <2>4 DEF CheckCandidate, world, StartupInv, Typed, RowsTyped, TypeOK
  <2>6. /\ scan'[p].current = l /\ scan'[p].recovery = r
        /\ scan'[p].findings = g /\ scan'[p].candidates = d
    BY <2>4, FieldValue DEF ScanSet
  <2>7. Blocked(p) => Blocked(p)'
    BY <2>1, <2>3, <2>6 DEF Blocked
  <2>8. SlotAsRead(p)'
    BY <1>0, <2>1, <2>4, <2>5, <2>6, <2>7 DEF ScansHold, SlotAsRead
  <2>9. RecoveryHeld(p)'
    BY <1>0, <2>1, <2>4, <2>5, <2>6 DEF ScansHold, RecoveryHeld
  <2> QED BY <2>2, <2>4, <2>8, <2>9, ScanAlone
<1>10. ASSUME NEW p \in Processes, Delegate(p) PROVE ScansHold'
  <2>1. PICK c, j, l, r, m, f :
           /\ scan[p] = Scan(c, j, l, r, m, f)
           /\ l = scan[p].current /\ r = scan[p].recovery
           /\ f = scan[p].findings /\ c = scan[p].candidates
    BY ScanOf
  <2>0. IsScan(scan) /\ scan[p] = Scan(c, j, l, r, m, f)
    BY <1>0, <2>1 DEF ScansHold
  <2>2. OthersIdle(p)
    BY <1>10, LockHolderAlone DEF StartupInv, Typed, RowsTyped, Delegate
  <2>3. /\ pc[p] = "delegate" /\ pc'[p] = "observe" /\ UNCHANGED <<lease, scan>>
        /\ pc' = [pc EXCEPT ![p] = "observe"]
    BY <1>10 DEF Delegate, Goto, StartupInv, Typed, RowsTyped, TypeOK
  <2>4. ScanSet(p, Scan(c, j, l, r, m, f))
    BY <2>0, <2>1, <2>3 DEF ScanSet
  <2>5. Head(scan[p].candidates).task \in TaskSet
    BY <1>0, <2>3 DEF ScansHold, RecoveryHeld, StartupInv, Typed, RowsTyped,
                      TypeOK, Lease
  <2>6. journal'[Head(scan[p].candidates).task]
           \in FinalPhases \cup {"RECOVERY_REQUIRED"}
    <3>1. PICK phase \in RecoveredPhases(journal[Head(scan[p].candidates).task]) :
             journal' = [journal EXCEPT ![Head(scan[p].candidates).task] = phase]
      BY <1>10 DEF Delegate
    <3>2. phase \in FinalPhases \cup {"RECOVERY_REQUIRED"}
      BY <3>1 DEF RecoveredPhases, FinalPhases
    <3> QED BY <2>5, <3>1, <3>2 DEF StartupInv, Typed, RowsTyped, TypeOK
  <2>7. SlotAsRead(p)'
    BY <1>0, <2>3 DEF ScansHold, SlotAsRead, Blocked
  <2>8. RecoveryHeld(p)'
    BY <1>0, <2>3, <2>6 DEF ScansHold, RecoveryHeld
  <2> QED BY <2>2, <2>3, <2>4, <2>7, <2>8, ScanAlone
<1>11. ASSUME NEW p \in Processes, RecordObservation(p) PROVE ScansHold'
  <2>1. PICK c, j, l, r, m, f :
           /\ scan[p] = Scan(c, j, l, r, m, f)
           /\ l = scan[p].current /\ r = scan[p].recovery
           /\ f = scan[p].findings /\ c = scan[p].candidates
    BY ScanOf
  <2>0. IsScan(scan) /\ scan[p] = Scan(c, j, l, r, m, f)
    BY <1>0, <2>1 DEF ScansHold
  <2>2. OthersIdle(p)
    BY <1>11, LockHolderAlone DEF StartupInv, Typed, RowsTyped, RecordObservation
  <2>3. PICK d, label :
           /\ label \in {"raised", "candidates"} /\ pc' = [pc EXCEPT ![p] = label]
           /\ ScanSet(p, Scan(d, j, l, r, m, f))
    <3>1. \/ pc' = [pc EXCEPT ![p] = "raised"] /\ UNCHANGED scan
          \/ /\ pc' = [pc EXCEPT ![p] = "candidates"]
             /\ ScanSet(p, Scan(Tail(c), j, l, r, m, f))
      BY <1>11, <2>0, RecordObservationScan
    <3>2. UNCHANGED scan => ScanSet(p, Scan(c, j, l, r, m, f))
      BY <2>0, <2>1 DEF ScanSet
    <3> QED BY <3>1, <3>2
  <2>4. pc[p] = "observe" /\ pc'[p] = label /\ lease' = lease
    BY <1>11, <2>3 DEF RecordObservation, StartupInv, Typed, RowsTyped, TypeOK
  <2>5. /\ scan'[p].current = l /\ scan'[p].recovery = r
        /\ scan'[p].findings = f
    BY <2>3, FieldValue DEF ScanSet
  <2>6. SlotAsRead(p)'
    BY <1>0, <2>1, <2>3, <2>4, <2>5 DEF ScansHold, SlotAsRead, Blocked
  <2>7. RecoveryHeld(p)'
    BY <1>0, <2>1, <2>3, <2>4, <2>5 DEF ScansHold, RecoveryHeld
  <2> QED BY <2>2, <2>3, <2>6, <2>7, ScanAlone
<1>12. ASSUME NEW p \in Processes, Report(p) PROVE ScansHold'
  <2>1. PICK c, j, l, r, m, f :
           /\ scan[p] = Scan(c, j, l, r, m, f)
           /\ l = scan[p].current /\ r = scan[p].recovery
           /\ f = scan[p].findings /\ c = scan[p].candidates
    BY ScanOf
  <2>0. IsScan(scan) /\ scan[p] = Scan(c, j, l, r, m, f)
    BY <1>0, <2>1 DEF ScansHold
  <2>2. OthersIdle(p)
    BY <1>12, LockHolderAlone DEF StartupInv, Typed, RowsTyped, Report
  <2>3. PICK g, label :
           /\ label \in {"halted", "serving"} /\ pc' = [pc EXCEPT ![p] = label]
           /\ ScanSet(p, Scan(c, j, l, r, m, g))
    <3>1. PICK g : /\ f \subseteq g
                   /\ ScanSet(p, Scan(c, j, l, r, m, g))
                   /\ \/ /\ \E x \in g : x.blocks
                         /\ pc' = [pc EXCEPT ![p] = "halted"]
                      \/ /\ ~\E x \in g : x.blocks
                         /\ pc' = [pc EXCEPT ![p] = "serving"]
      BY <1>12, <2>0, ReportScan
    <3> QED BY <3>1
  <2>4. pc'[p] = label
    BY <2>3 DEF StartupInv, Typed, RowsTyped, TypeOK
  <2>5. scan'[p].current = l
    BY <2>3, FieldValue DEF ScanSet
  <2>6. SlotAsRead(p)' /\ RecoveryHeld(p)'
    BY <1>0, <2>1, <2>3, <2>4, <2>5 DEF ScansHold, SlotAsRead, RecoveryHeld
  <2> QED BY <2>2, <2>3, <2>6, ScanAlone
<1>13. ASSUME NEW p \in Processes, FinishRecovery(p) PROVE ScansHold'
  <2>1. /\ UNCHANGED <<pc, scan, journal>> /\ lease' = None
        /\ lease.owner = p /\ pc[p] \in {"halted", "raised"}
    BY <1>13 DEF FinishRecovery
  <2>2. ASSUME NEW q \in Processes PROVE SlotAsRead(q)'
    BY <1>0, <2>1 DEF ScansHold, SlotAsRead
  <2>3. ASSUME NEW q \in Processes PROVE RecoveryHeld(q)'
    BY <1>0, <2>1 DEF ScansHold, RecoveryHeld
  <2> QED BY <1>0, <2>1, <2>2, <2>3 DEF ScansHold, IsScan
<1>14. ASSUME NEW p \in Processes, NEW t \in TaskSet, BeginRun(p, t)
      PROVE  ScansHold'
  BY <1>0, <1>14, ScansOver DEF BeginRun, MayExecute
<1>15. ASSUME NEW p \in Processes, NEW t \in TaskSet, Heartbeat(p, t)
      PROVE  ScansHold'
  BY <1>0, <1>15, ScansOver DEF Heartbeat, Owns, MayExecute
<1>16. ASSUME NEW p \in Processes, NEW t \in TaskSet, StartContainer(p, t)
      PROVE  ScansHold'
  BY <1>0, <1>16, ScansKept DEF StartContainer
<1>17. ASSUME NEW p \in Processes, NEW t \in TaskSet, RefuseApply(p, t)
      PROVE  ScansHold'
  BY <1>0, <1>17, ScansKept DEF RefuseApply
<1>18. ASSUME NEW p \in Processes, NEW t \in TaskSet, BeginApply(p, t)
      PROVE  ScansHold'
  BY <1>0, <1>18, ScansOver DEF BeginApply, Owns, MayExecute
<1>19. ASSUME NEW p \in Processes, NEW t \in TaskSet, AdvanceApply(p, t)
      PROVE  ScansHold'
  BY <1>0, <1>19, ScansOver DEF AdvanceApply, Owns, MayExecute
<1>20. ASSUME NEW p \in Processes, NEW t \in TaskSet, ObserveApply(p, t)
      PROVE  ScansHold'
  BY <1>0, <1>20, ScansKept DEF ObserveApply
<1>21. ASSUME NEW p \in Processes, NEW t \in TaskSet, FinishTask(p, t)
      PROVE  ScansHold'
  BY <1>0, <1>21, ScansKept DEF FinishTask
<1>22. ASSUME NEW p \in Processes, NEW t \in TaskSet, Pause(p, t)
      PROVE  ScansHold'
  BY <1>0, <1>22, ScansKept DEF Pause
<1>23. ASSUME NEW p \in Processes, NEW t \in TaskSet, ReleaseLease(p, t)
      PROVE  ScansHold'
  BY <1>0, <1>23, ScansOver DEF ReleaseLease, Owns, MayExecute
<1>24. ASSUME NEW p \in Processes, NEW t \in TaskSet, RevisePlan(p, t)
      PROVE  ScansHold'
  BY <1>0, <1>24, ScansKept DEF RevisePlan
<1>25. ASSUME NEW p \in Processes, NEW t \in TaskSet, ChangeApproval(p, t)
      PROVE  ScansHold'
  BY <1>0, <1>25, ScansKept DEF ChangeApproval
<1>26. ASSUME NEW p \in Processes, NEW t \in TaskSet, ApprovePlan(p, t)
      PROVE  ScansHold'
  BY <1>0, <1>26, ScansKept DEF ApprovePlan
<1>27. ASSUME NEW t \in TaskSet, StopContainer(t) PROVE ScansHold'
  BY <1>0, <1>27, ScansKept DEF StopContainer
<1>28. CASE UNCHANGED vars
  BY <1>0, <1>28, ScansKept DEF vars
<1> QED
  BY <1>1, <1>2, <1>3, <1>4, <1>5, <1>6, <1>7, <1>8, <1>9, <1>10, <1>11,
     <1>12, <1>13, <1>14, <1>15, <1>16, <1>17, <1>18, <1>19, <1>20, <1>21,
     <1>22, <1>23, <1>24, <1>25, <1>26, <1>27, <1>28
     DEF Next, ScanStep, Service, UserCommand

(* Every step keeps the slot of the process that serves. *)
LEMMA ServesAloneStep ==
  ASSUME StartupInv, [Next]_vars
  PROVE  ServesAlone'
<1> USE DEF StartupInv, Typed, RowsTyped, TypeOK, ServesAlone, MayExecute
<1>1. ASSUME NEW p \in Processes, AcquireLock(p) PROVE ServesAlone'
  BY <1>1 DEF AcquireLock, Goto, world
<1>2. ASSUME NEW p \in Processes, DuplicateStartup(p) PROVE ServesAlone'
  BY <1>2 DEF DuplicateStartup, Goto, world
<1>3. ASSUME NEW p \in Processes, Die(p) PROVE ServesAlone'
  BY <1>3 DEF Die, Goto, world
<1>4. ASSUME NEW p \in Processes, ReadEvidence(p) PROVE ServesAlone'
  BY <1>4 DEF ReadEvidence, Goto, world
<1>5. ASSUME NEW p \in Processes, ReviewLease(p) PROVE ServesAlone'
  BY <1>5 DEF ReviewLease, Goto, world
<1>6. ASSUME NEW p \in Processes, ExpireLease(p) PROVE ServesAlone'
  <2>1. OthersIdle(p) /\ pc'[p] # "serving"
    BY <1>6, LockHolderAlone DEF ExpireLease, Goto
  <2> QED BY <1>6, <2>1 DEF OthersIdle, ExpireLease, Goto
<1>7. ASSUME NEW p \in Processes, TakeOverLease(p) PROVE ServesAlone'
  <2>1. OthersIdle(p) /\ pc'[p] # "serving"
    BY <1>7, LockHolderAlone DEF TakeOverLease, Goto
  <2> QED BY <1>7, <2>1 DEF OthersIdle, TakeOverLease, Goto
<1>8. ASSUME NEW p \in Processes, CheckContainers(p) PROVE ServesAlone'
  BY <1>8 DEF CheckContainers, Goto, world
<1>9. ASSUME NEW p \in Processes, CheckCandidate(p) PROVE ServesAlone'
  BY <1>9 DEF CheckCandidate, Goto, world
<1>10. ASSUME NEW p \in Processes, Delegate(p) PROVE ServesAlone'
  BY <1>10 DEF Delegate, Goto
<1>11. ASSUME NEW p \in Processes, RecordObservation(p) PROVE ServesAlone'
  BY <1>11 DEF RecordObservation, Goto
<1>12. ASSUME NEW p \in Processes, Report(p) PROVE ServesAlone'
  <2>1. PICK c, j, l, r, m, f :
           /\ scan[p] = Scan(c, j, l, r, m, f)
           /\ l = scan[p].current /\ r = scan[p].recovery
           /\ f = scan[p].findings /\ c = scan[p].candidates
    BY ScanOf
  <2>2. IsScan(scan) /\ scan[p] = Scan(c, j, l, r, m, f)
    BY <2>1
  <2>3. PICK g : /\ f \subseteq g
                 /\ ScanSet(p, Scan(c, j, l, r, m, g))
                 /\ \/ /\ \E x \in g : x.blocks
                       /\ pc' = [pc EXCEPT ![p] = "halted"]
                    \/ /\ ~\E x \in g : x.blocks
                       /\ pc' = [pc EXCEPT ![p] = "serving"]
    BY <1>12, <2>2, ReportScan
  <2>4. lease = None \/ Blocked(p)
    BY <1>12 DEF Report, SlotAsRead
  <2>5. lease = None \/ pc'[p] = "halted"
    BY <2>1, <2>3, <2>4 DEF Blocked
  <2>6. \A q \in Processes \ {p} : pc'[q] = pc[q]
    BY <2>3
  <2> QED BY <1>12, <2>5, <2>6 DEF Report, world
<1>13. ASSUME NEW p \in Processes, FinishRecovery(p) PROVE ServesAlone'
  BY <1>13 DEF FinishRecovery
<1>14. ASSUME NEW p \in Processes, NEW t \in TaskSet, BeginRun(p, t)
      PROVE  ServesAlone'
  <2>1. OthersIdle(p)
    BY <1>14, LockHolderAlone DEF BeginRun
  <2>2. /\ lease'.owner = p /\ lease'.status = "ACTIVE"
        /\ lease'.purpose = "EXECUTION" /\ pc' = pc
    BY <1>14 DEF BeginRun, NewLease
  <2> QED BY <2>1, <2>2 DEF OthersIdle
<1>15. ASSUME NEW p \in Processes, NEW t \in TaskSet, Heartbeat(p, t)
      PROVE  ServesAlone'
  <2>1. lease \in Lease /\ lease # None
    BY <1>15 DEF Heartbeat, Owns
  <2>2. /\ lease'.owner = lease.owner /\ lease'.status = lease.status
        /\ lease'.purpose = lease.purpose /\ pc' = pc
    BY <1>15, <2>1 DEF Heartbeat, Lease
  <2> QED BY <2>1, <2>2
<1>16. ASSUME NEW p \in Processes, NEW t \in TaskSet, StartContainer(p, t)
      PROVE  ServesAlone'
  BY <1>16 DEF StartContainer
<1>17. ASSUME NEW p \in Processes, NEW t \in TaskSet, RefuseApply(p, t)
      PROVE  ServesAlone'
  BY <1>17 DEF RefuseApply
<1>18. ASSUME NEW p \in Processes, NEW t \in TaskSet, BeginApply(p, t)
      PROVE  ServesAlone'
  BY <1>18 DEF BeginApply
<1>19. ASSUME NEW p \in Processes, NEW t \in TaskSet, AdvanceApply(p, t)
      PROVE  ServesAlone'
  BY <1>19 DEF AdvanceApply
<1>20. ASSUME NEW p \in Processes, NEW t \in TaskSet, ObserveApply(p, t)
      PROVE  ServesAlone'
  BY <1>20 DEF ObserveApply
<1>21. ASSUME NEW p \in Processes, NEW t \in TaskSet, FinishTask(p, t)
      PROVE  ServesAlone'
  BY <1>21 DEF FinishTask
<1>22. ASSUME NEW p \in Processes, NEW t \in TaskSet, Pause(p, t)
      PROVE  ServesAlone'
  BY <1>22 DEF Pause
<1>23. ASSUME NEW p \in Processes, NEW t \in TaskSet, ReleaseLease(p, t)
      PROVE  ServesAlone'
  BY <1>23 DEF ReleaseLease
<1>24. ASSUME NEW p \in Processes, NEW t \in TaskSet, RevisePlan(p, t)
      PROVE  ServesAlone'
  BY <1>24 DEF RevisePlan
<1>25. ASSUME NEW p \in Processes, NEW t \in TaskSet, ChangeApproval(p, t)
      PROVE  ServesAlone'
  BY <1>25 DEF ChangeApproval
<1>26. ASSUME NEW p \in Processes, NEW t \in TaskSet, ApprovePlan(p, t)
      PROVE  ServesAlone'
  BY <1>26 DEF ApprovePlan
<1>27. ASSUME NEW t \in TaskSet, StopContainer(t) PROVE ServesAlone'
  BY <1>27 DEF StopContainer
<1>28. CASE UNCHANGED vars
  BY <1>28 DEF vars
<1> QED
  BY <1>1, <1>2, <1>3, <1>4, <1>5, <1>6, <1>7, <1>8, <1>9, <1>10, <1>11,
     <1>12, <1>13, <1>14, <1>15, <1>16, <1>17, <1>18, <1>19, <1>20, <1>21,
     <1>22, <1>23, <1>24, <1>25, <1>26, <1>27, <1>28
     DEF Next, ScanStep, Service, UserCommand

(* Every step leaves the remains of a run to the lease of its task. *)
LEMMA SlotGuardsStep ==
  ASSUME StartupInv, [Next]_vars
  PROVE  SlotGuardsRemains'
<1> USE DEF StartupInv, Typed, RowsTyped, TypeOK, SlotGuardsRemains, Settled
<1>1. ASSUME NEW p \in Processes, AcquireLock(p) PROVE SlotGuardsRemains'
  BY <1>1 DEF AcquireLock, world
<1>2. ASSUME NEW p \in Processes, DuplicateStartup(p) PROVE SlotGuardsRemains'
  BY <1>2 DEF DuplicateStartup, world
<1>3. ASSUME NEW p \in Processes, Die(p) PROVE SlotGuardsRemains'
  BY <1>3 DEF Die, world
<1>4. ASSUME NEW p \in Processes, ReadEvidence(p) PROVE SlotGuardsRemains'
  BY <1>4 DEF ReadEvidence, world
<1>5. ASSUME NEW p \in Processes, ReviewLease(p) PROVE SlotGuardsRemains'
  BY <1>5 DEF ReviewLease, world
<1>6. ASSUME NEW p \in Processes, ExpireLease(p) PROVE SlotGuardsRemains'
  <2>1. CASE /\ lease # None /\ lease.status = "ACTIVE"
             /\ lease' = [lease EXCEPT !.status = "RECOVERY_PENDING",
                                      !.revision = @ + 1]
    <3>1. lease' # None /\ lease'.task = lease.task
      BY <2>1, ExpiredType
    <3> QED BY <1>6, <2>1, <3>1 DEF ExpireLease
  <2> QED BY <1>6, <2>1 DEF ExpireLease
<1>7. ASSUME NEW p \in Processes, TakeOverLease(p) PROVE SlotGuardsRemains'
  <2>1. scan[p].current \in Lease
    BY <1>7 DEF TakeOverLease, SlotAsRead
  <2>2. scan[p].current.task \in TaskSet
    BY <2>1 DEF Lease
  <2>3. /\ NewLease(RecoveryLeaseId(scan[p].current), scan[p].current.task,
                    "RECOVERY", p) # None
        /\ NewLease(RecoveryLeaseId(scan[p].current), scan[p].current.task,
                    "RECOVERY", p).task = scan[p].current.task
    BY <2>1, <2>2, NewLeaseType, LeaseIdType DEF NewLease
  <2> QED BY <1>7, <2>3 DEF TakeOverLease
<1>8. ASSUME NEW p \in Processes, CheckContainers(p) PROVE SlotGuardsRemains'
  BY <1>8 DEF CheckContainers, world
<1>9. ASSUME NEW p \in Processes, CheckCandidate(p) PROVE SlotGuardsRemains'
  BY <1>9 DEF CheckCandidate, world
<1>10. ASSUME NEW p \in Processes, Delegate(p) PROVE SlotGuardsRemains'
  <2>1. /\ lease # None /\ lease.task = Head(scan[p].candidates).task
        /\ UNCHANGED <<lease, container>>
    BY <1>10 DEF Delegate, RecoveryHeld
  <2>2. \A t \in TaskSet : t # lease.task => journal'[t] = journal[t]
    BY <1>10, <2>1 DEF Delegate
  <2> QED BY <2>1, <2>2
<1>11. ASSUME NEW p \in Processes, RecordObservation(p) PROVE SlotGuardsRemains'
  BY <1>11 DEF RecordObservation
<1>12. ASSUME NEW p \in Processes, Report(p) PROVE SlotGuardsRemains'
  BY <1>12 DEF Report, world
<1>13. ASSUME NEW p \in Processes, FinishRecovery(p) PROVE SlotGuardsRemains'
  BY <1>13 DEF FinishRecovery
<1>14. ASSUME NEW p \in Processes, NEW t \in TaskSet, BeginRun(p, t)
      PROVE  SlotGuardsRemains'
  <2>1. \A u \in TaskSet : Settled(u)
    BY <1>14 DEF BeginRun
  <2> QED BY <1>14, <2>1 DEF BeginRun
<1>15. ASSUME NEW p \in Processes, NEW t \in TaskSet, Heartbeat(p, t)
      PROVE  SlotGuardsRemains'
  <2>1. lease \in Lease /\ lease # None
    BY <1>15 DEF Heartbeat, Owns
  <2>2. lease' # None /\ lease'.task = lease.task
    BY <1>15, <2>1, HeartbeatAssumption, NoneAssumption, RowsStep
       DEF Heartbeat, Lease
  <2> QED BY <1>15, <2>1, <2>2 DEF Heartbeat
<1>16. ASSUME NEW p \in Processes, NEW t \in TaskSet, StartContainer(p, t)
      PROVE  SlotGuardsRemains'
  <2>1. /\ lease # None /\ lease.task = t /\ UNCHANGED lease
        /\ \A u \in TaskSet \ {t} : /\ journal'[u] = journal[u]
                                    /\ u \in container' => u \in container
    BY <1>16 DEF StartContainer, Owns
  <2> QED BY <2>1
<1>17. ASSUME NEW p \in Processes, NEW t \in TaskSet, RefuseApply(p, t)
      PROVE  SlotGuardsRemains'
  BY <1>17 DEF RefuseApply
<1>18. ASSUME NEW p \in Processes, NEW t \in TaskSet, BeginApply(p, t)
      PROVE  SlotGuardsRemains'
  <2>1. /\ lease # None /\ lease.task = t /\ UNCHANGED lease
        /\ \A u \in TaskSet \ {t} : /\ journal'[u] = journal[u]
                                    /\ u \in container' => u \in container
    BY <1>18 DEF BeginApply, Owns
  <2> QED BY <2>1
<1>19. ASSUME NEW p \in Processes, NEW t \in TaskSet, AdvanceApply(p, t)
      PROVE  SlotGuardsRemains'
  <2>1. /\ lease # None /\ lease.task = t /\ UNCHANGED lease
        /\ \A u \in TaskSet \ {t} : /\ journal'[u] = journal[u]
                                    /\ u \in container' => u \in container
    BY <1>19 DEF AdvanceApply, Owns
  <2> QED BY <2>1
<1>20. ASSUME NEW p \in Processes, NEW t \in TaskSet, ObserveApply(p, t)
      PROVE  SlotGuardsRemains'
  BY <1>20 DEF ObserveApply
<1>21. ASSUME NEW p \in Processes, NEW t \in TaskSet, FinishTask(p, t)
      PROVE  SlotGuardsRemains'
  BY <1>21 DEF FinishTask
<1>22. ASSUME NEW p \in Processes, NEW t \in TaskSet, Pause(p, t)
      PROVE  SlotGuardsRemains'
  BY <1>22 DEF Pause
<1>23. ASSUME NEW p \in Processes, NEW t \in TaskSet, ReleaseLease(p, t)
      PROVE  SlotGuardsRemains'
  BY <1>23 DEF ReleaseLease, Owns
<1>24. ASSUME NEW p \in Processes, NEW t \in TaskSet, RevisePlan(p, t)
      PROVE  SlotGuardsRemains'
  BY <1>24 DEF RevisePlan
<1>25. ASSUME NEW p \in Processes, NEW t \in TaskSet, ChangeApproval(p, t)
      PROVE  SlotGuardsRemains'
  BY <1>25 DEF ChangeApproval
<1>26. ASSUME NEW p \in Processes, NEW t \in TaskSet, ApprovePlan(p, t)
      PROVE  SlotGuardsRemains'
  BY <1>26 DEF ApprovePlan
<1>27. ASSUME NEW t \in TaskSet, StopContainer(t) PROVE SlotGuardsRemains'
  BY <1>27 DEF StopContainer
<1>28. CASE UNCHANGED vars
  BY <1>28 DEF vars
<1> QED
  BY <1>1, <1>2, <1>3, <1>4, <1>5, <1>6, <1>7, <1>8, <1>9, <1>10, <1>11,
     <1>12, <1>13, <1>14, <1>15, <1>16, <1>17, <1>18, <1>19, <1>20, <1>21,
     <1>22, <1>23, <1>24, <1>25, <1>26, <1>27, <1>28
     DEF Next, ScanStep, Service, UserCommand

LEMMA StartupStep ==
  ASSUME StartupInv, [Next]_vars
  PROVE  StartupInv'
  BY RowsStep, ScansStep, ServesAloneStep, SlotGuardsStep
     DEF StartupInv, Typed, ScansHold

LEMMA StartupInvariant == Spec => []StartupInv
<1>1. Init => StartupInv
  BY StartupInitially
<1>2. StartupInv /\ [Next]_vars => StartupInv'
  BY StartupStep
<1> QED BY <1>1, <1>2, PTL DEF Spec

-----------------------------------------------------------------------------
(* The stored rows keep their types, the revision of a lease its bound, and *)
(* two processes are never past the process lock at once.                   *)
THEOREM RowsCorrect == Spec => []TypeOK
<1>1. StartupInv => TypeOK
  BY DEF StartupInv, Typed, RowsTyped
<1>2. Spec => []StartupInv
  BY StartupInvariant
<1> QED BY <1>1, <1>2, PTL

(* The report that permits execution (startup_recovery.py) lets a process  *)
(* serve only while the slot is free or its own: no stale lease, no        *)
(* recovery and no lease of another process is open beside it, however the *)
(* processes died and were started before.                                 *)
THEOREM SlotIsItsOwn == Spec => []ServesAlone
<1>1. StartupInv => ServesAlone
  BY DEF StartupInv
<1>2. Spec => []StartupInv
  BY StartupInvariant
<1> QED BY <1>1, <1>2, PTL

(* A running container and a transaction that is not final always belong   *)
(* to the task whose lease is open: expiry, takeover, release and recovery *)
(* never let the slot go to another task over them.                        *)
THEOREM RemainsAreGuarded == Spec => []SlotGuardsRemains
<1>1. StartupInv => SlotGuardsRemains
  BY DEF StartupInv
<1>2. Spec => []StartupInv
  BY StartupInvariant
<1> QED BY <1>1, <1>2, PTL

(* The scan calls RecoveryCoordinator.recover only under an ACTIVE         *)
(* RECOVERY lease that it acquired itself, for the task of that lease.     *)
THEOREM RecoveryIsCovered == Spec => RecoveryUnderLease
<1>1. ASSUME StartupInv, NEW p \in Processes, pc[p] = "delegate"
      PROVE  /\ lease # None
             /\ lease.owner = p
             /\ lease.task = Head(scan[p].candidates).task
             /\ lease.purpose = "RECOVERY" /\ lease.status = "ACTIVE"
  BY <1>1 DEF StartupInv, RecoveryHeld
<1>2. StartupInv => 
        [\A p \in Processes : pc[p] = "delegate" /\ pc'[p] = "observe" =>
          /\ lease # None
          /\ lease.owner = p
          /\ lease.task = Head(scan[p].candidates).task
          /\ lease.purpose = "RECOVERY" /\ lease.status = "ACTIVE"]_vars
  BY <1>1
<1>3. Spec => []StartupInv
  BY StartupInvariant
<1> QED BY <1>2, <1>3, PTL DEF RecoveryUnderLease
=============================================================================
